--------------------------- MODULE Zabbrev_proof ----------------------------
(***************************************************************************)
(* What zabbrev's operators compute, for the proofs about the search:      *)
(* heaps keep their order while patterns move in and out, folds go through *)
(* their states, the parse finds a cheapest way, a list scored again keeps *)
(* what is known of its patterns, sorting suffixes loses none of them.     *)
(***************************************************************************)
EXTENDS ZabbrevSearch, FiniteSetTheorems, WellFoundedInduction, TLAPS

----------------------------------------------------------------------------
(* Numbers and sequences.                                                  *)

\* No element of a sequence comes twice.
Once(s) == \A i, j \in DOMAIN s : s[i] = s[j] => i = j

(* A set of natural numbers that is not empty has a least one.             *)
LEMMA LeastOf ==
  ASSUME NEW S, S \subseteq Nat, S # {}
  PROVE  \E m \in S : \A n \in S : m <= n
<1> DEFINE R == {ss \in Nat \X Nat : ss[1] < ss[2]}
<1>1. IsWellFoundedOn(R, Nat)
  <2>1. OpToRel(<, Nat) = R
    BY DEF OpToRel
  <2> QED BY <2>1, NatLessThanWellFounded
<1>2. PICK m \in S : \A n \in S : ~(<<n, m>> \in R)
  <2> HIDE DEF R
  <2> QED BY <1>1, WFMin
<1>3. \A n \in S : ~(n < m)
  BY <1>2
<1> QED BY <1>3

(* A set with 0, and with n + 1 if it has n, has every natural number.     *)
LEMMA Induction ==
  ASSUME NEW S, 0 \in S, \A n \in Nat : n \in S => n + 1 \in S
  PROVE  \A n \in Nat : n \in S
<1> SUFFICES ASSUME Nat \ S # {} PROVE FALSE
  OBVIOUS
<1>1. PICK m \in Nat \ S : \A n \in Nat \ S : m <= n
  BY LeastOf
<1>2. m # 0 /\ m - 1 \in Nat /\ m - 1 \in S
  BY <1>1
<1> QED BY <1>1, <1>2

(* A set of numbers up to n has a greatest.                                *)
LEMMA MaxFacts ==
  ASSUME NEW n \in Nat, NEW s \in SUBSET (1..n), s # {}
  PROVE  Max(s) \in s /\ \A x \in s : Max(s) >= x
<1> DEFINE S == {k \in Nat : n - k \in s}
<1>1. S \subseteq Nat /\ S # {}
  <2>1. PICK x \in s : TRUE
    OBVIOUS
  <2>2. n - x \in Nat /\ n - (n - x) = x
    OBVIOUS
  <2>3. n - x \in S
    BY <2>2
  <2> QED BY <2>3
<1>2. PICK k \in S : \A j \in S : k <= j
  <2> HIDE DEF S
  <2> QED BY <1>1, LeastOf
<1>3. n - k \in s
  OBVIOUS
<1>4. ASSUME NEW x \in s PROVE n - k >= x
  <2>1. n - x \in Nat /\ n - (n - x) = x
    OBVIOUS
  <2>2. n - x \in S
    BY <2>1
  <2>3. k <= n - x
    BY <1>2, <2>2
  <2> QED BY <2>3
<1> QED BY <1>3, <1>4 DEF Max

(* The numbers up to k + 1 without the greatest are those up to k.         *)
LEMMA UpToFacts ==
  ASSUME NEW k \in Nat
  PROVE  /\ Max(1..(k + 1)) = k + 1
         /\ (1..(k + 1)) \ {k + 1} = 1..k
         /\ 1..(k + 1) # {}
         /\ 1..0 = {}
<1>1. 1..(k + 1) \in SUBSET (1..(k + 1)) /\ k + 1 \in 1..(k + 1)
  OBVIOUS
<1>2. /\ Max(1..(k + 1)) \in 1..(k + 1)
      /\ \A x \in 1..(k + 1) : Max(1..(k + 1)) >= x
  <2> DEFINE n == k + 1
             s == 1..n
  <2>1. n \in Nat /\ s \in SUBSET (1..n) /\ s # {}
    BY <1>1
  <2>2. Max(s) \in s /\ \A x \in s : Max(s) >= x
    <3> HIDE DEF n
    <3> QED BY <2>1, MaxFacts
  <2> QED BY <2>2
<1> DEFINE mx == Max(1..(k + 1))
<1>3. mx \in 1..(k + 1) /\ mx >= k + 1
  BY <1>1, <1>2
<1> HIDE DEF mx
<1>4. mx = k + 1
  BY <1>3
<1> QED BY <1>4 DEF mx

(* A function on the numbers from 1 is a sequence.                         *)
LEMMA FunctionIsSeq ==
  ASSUME NEW S, NEW k \in Nat, NEW f \in [1 .. k -> S]
  PROVE  f \in Seq(S) /\ Len(f) = k /\ DOMAIN f = 1 .. k
  OBVIOUS

(* The elements of a sequence are numbered from 1.                         *)
LEMMA SeqFacts ==
  ASSUME NEW S, NEW s \in Seq(S)
  PROVE  /\ Len(s) \in Nat /\ DOMAIN s = 1 .. Len(s) /\ (s = <<>> <=> Len(s) = 0)
         /\ \A i \in DOMAIN s : s[i] \in S
         /\ Range(s) \subseteq S
         /\ \A x \in Range(s) : \E i \in DOMAIN s : x = s[i]
  BY DEF Range

(* A sequence is a sequence of any set that has its elements.              *)
LEMMA SeqWithin ==
  ASSUME NEW S, NEW T, NEW s \in Seq(S), Range(s) \subseteq T
  PROVE  s \in Seq(T)
<1>1. PICK n \in Nat : s \in [1 .. n -> S]
  <2>1. Len(s) \in Nat /\ s \in [1 .. Len(s) -> S]
    OBVIOUS
  <2> QED BY <2>1
<1>2. s \in [1 .. n -> T]
  BY <1>1 DEF Range
<1> QED BY <1>2, FunctionIsSeq

(* A sequence with one more element at its end.                            *)
LEMMA AppendFacts ==
  ASSUME NEW S, NEW s \in Seq(S), NEW e \in S
  PROVE  LET t == Append(s, e)
         IN  /\ t \in Seq(S) /\ Len(t) = Len(s) + 1 /\ DOMAIN t = 1 .. Len(s) + 1
             /\ Len(s) \in Nat /\ DOMAIN s = 1 .. Len(s)
             /\ t[Len(s) + 1] = e /\ \A i \in DOMAIN s : t[i] = s[i]
             /\ Range(t) = Range(s) \union {e}
             /\ Once(s) /\ e \notin Range(s) => Once(t)
<1> DEFINE t == Append(s, e)
<1>1. /\ t \in Seq(S) /\ Len(t) = Len(s) + 1 /\ DOMAIN t = 1 .. Len(s) + 1
      /\ Len(s) \in Nat /\ DOMAIN s = 1 .. Len(s)
      /\ t[Len(s) + 1] = e /\ \A i \in DOMAIN s : t[i] = s[i]
  OBVIOUS
<1> HIDE DEF t
<1>2. \A i \in DOMAIN t : i \in DOMAIN s \/ i = Len(s) + 1
  BY <1>1
<1>3. Len(s) + 1 \in DOMAIN t /\ DOMAIN s \subseteq DOMAIN t
  BY <1>1
<1>4. {t[i] : i \in DOMAIN t} = {s[i] : i \in DOMAIN s} \union {e}
  BY <1>1, <1>2, <1>3
<1>5. ASSUME Once(s), e \notin Range(s) PROVE Once(t)
  <2>1. \A i \in DOMAIN s : s[i] # e
    BY <1>5 DEF Range
  <2> QED BY <1>1, <1>2, <1>5, <2>1 DEF Once
<1> QED BY <1>1, <1>4, <1>5 DEF Range, t

(* Two sequences, one after the other.                                     *)
LEMMA ConcatFacts ==
  ASSUME NEW S, NEW s \in Seq(S), NEW t \in Seq(S)
  PROVE  LET u == s \o t
         IN  /\ u \in Seq(S) /\ Len(u) = Len(s) + Len(t) /\ DOMAIN u = 1 .. Len(s) + Len(t)
             /\ \A i \in DOMAIN s : i \in DOMAIN u /\ u[i] = s[i]
             /\ \A i \in DOMAIN t : Len(s) + i \in DOMAIN u /\ u[Len(s) + i] = t[i]
             /\ \A i \in DOMAIN u : i \in DOMAIN s \/ (i - Len(s) \in DOMAIN t /\ u[i] = t[i - Len(s)])
             /\ Range(u) = Range(s) \union Range(t)
             /\ Once(u) <=> Once(s) /\ Once(t) /\ Range(s) \intersect Range(t) = {}
<1> DEFINE u == s \o t
<1>1. /\ u \in Seq(S) /\ Len(u) = Len(s) + Len(t) /\ DOMAIN u = 1 .. Len(s) + Len(t)
      /\ Len(s) \in Nat /\ Len(t) \in Nat /\ DOMAIN s = 1 .. Len(s) /\ DOMAIN t = 1 .. Len(t)
      /\ \A i \in DOMAIN s : i \in DOMAIN u /\ u[i] = s[i]
      /\ \A i \in DOMAIN t : Len(s) + i \in DOMAIN u /\ u[Len(s) + i] = t[i]
  OBVIOUS
<1> HIDE DEF u
<1>2. \A i \in DOMAIN u : i \in DOMAIN s \/ (i - Len(s) \in DOMAIN t /\ u[i] = t[i - Len(s)])
  <2> SUFFICES ASSUME NEW i \in DOMAIN u, i \notin DOMAIN s
               PROVE  i - Len(s) \in DOMAIN t /\ u[i] = t[i - Len(s)]
    OBVIOUS
  <2>1. i - Len(s) \in DOMAIN t /\ Len(s) + (i - Len(s)) = i
    BY <1>1
  <2> QED BY <1>1, <2>1
<1>3. {u[i] : i \in DOMAIN u} = {s[i] : i \in DOMAIN s} \union {t[i] : i \in DOMAIN t}
  BY <1>1, <1>2
<1>4. ASSUME Once(u) PROVE Once(s) /\ Once(t) /\ Range(s) \intersect Range(t) = {}
  <2>1. Once(s)
    BY <1>1, <1>4 DEF Once
  <2>2. Once(t)
    <3> SUFFICES ASSUME NEW i \in DOMAIN t, NEW j \in DOMAIN t, t[i] = t[j] PROVE i = j
      BY DEF Once
    <3>1. Len(s) + i = Len(s) + j
      BY <1>1, <1>4 DEF Once
    <3> QED BY <1>1, <3>1
  <2>3. ASSUME NEW i \in DOMAIN s, NEW j \in DOMAIN t, s[i] = t[j] PROVE FALSE
    <3>1. i = Len(s) + j
      BY <1>1, <1>4, <2>3 DEF Once
    <3> QED BY <1>1, <3>1
  <2> QED BY <2>1, <2>2, <2>3 DEF Range
<1>5. ASSUME Once(s), Once(t), Range(s) \intersect Range(t) = {} PROVE Once(u)
  <2> SUFFICES ASSUME NEW i \in DOMAIN u, NEW j \in DOMAIN u, u[i] = u[j] PROVE i = j
    BY DEF Once
  <2>1. \A k \in DOMAIN s, l \in DOMAIN t : s[k] # t[l]
    BY <1>5 DEF Range
  <2>2. CASE i \in DOMAIN s /\ j \in DOMAIN s
    BY <1>1, <1>5, <2>2 DEF Once
  <2>3. CASE i \in DOMAIN s /\ j \notin DOMAIN s
    BY <1>1, <1>2, <2>1, <2>3
  <2>4. CASE i \notin DOMAIN s /\ j \in DOMAIN s
    BY <1>1, <1>2, <2>1, <2>4
  <2>5. CASE i \notin DOMAIN s /\ j \notin DOMAIN s
    <3>1. i - Len(s) = j - Len(s)
      BY <1>2, <1>5, <2>5 DEF Once
    <3> QED BY <1>1, <3>1
  <2> QED BY <2>2, <2>3, <2>4, <2>5
<1> QED BY <1>1, <1>2, <1>3, <1>4, <1>5 DEF Range, u

(* A sequence backwards.                                                   *)
LEMMA ReverseFacts ==
  ASSUME NEW S, NEW s \in Seq(S)
  PROVE  LET t == Reverse(s)
         IN  /\ t \in Seq(S) /\ Len(t) = Len(s) /\ DOMAIN t = 1 .. Len(s)
             /\ \A i \in 1 .. Len(s) : t[i] = s[Len(s) + 1 - i]
             /\ Range(t) = Range(s)
             /\ Once(s) => Once(t)
<1> DEFINE t == Reverse(s)
           n == Len(s)
<1>1. n \in Nat /\ DOMAIN s = 1 .. n
  OBVIOUS
<1>2. t = [i \in 1 .. n |-> s[n - i + 1]]
  BY DEF Reverse
<1> HIDE DEF t, n
<1>3. \A i \in 1 .. n : n - i + 1 \in 1 .. n /\ n - i + 1 = n + 1 - i /\ n - (n - i + 1) + 1 = i
  BY <1>1
<1>4. DOMAIN t = 1 .. n /\ \A i \in 1 .. n : t[i] = s[n - i + 1]
  BY <1>2
<1>5. t \in [1 .. n -> S]
  BY <1>1, <1>2, <1>3 DEF n
<1>6. t \in Seq(S) /\ Len(t) = n
  BY <1>1, <1>5, FunctionIsSeq
<1>7. Range(t) = Range(s)
  <2>1. ASSUME NEW x \in Range(s) PROVE x \in Range(t)
    <3>1. PICK i \in 1 .. n : x = s[i]
      BY <1>1 DEF Range
    <3>2. n - i + 1 \in 1 .. n /\ t[n - i + 1] = s[i]
      BY <1>3, <1>4
    <3> QED BY <1>4, <3>1, <3>2 DEF Range
  <2>2. ASSUME NEW x \in Range(t) PROVE x \in Range(s)
    <3>1. PICK i \in 1 .. n : x = t[i]
      BY <1>4 DEF Range
    <3> QED BY <1>1, <1>3, <1>4, <3>1 DEF Range
  <2> QED BY <2>1, <2>2
<1>8. ASSUME Once(s) PROVE Once(t)
  <2> SUFFICES ASSUME NEW i \in 1 .. n, NEW j \in 1 .. n, t[i] = t[j] PROVE i = j
    BY <1>4 DEF Once
  <2>1. n - i + 1 = n - j + 1
    BY <1>1, <1>3, <1>4, <1>8 DEF Once
  <2> QED BY <1>1, <2>1
<1> QED BY <1>1, <1>3, <1>4, <1>6, <1>7, <1>8 DEF t, n

(* A part of a sequence.                                                   *)
LEMMA SubSeqFacts ==
  ASSUME NEW S, NEW s \in Seq(S), NEW m \in Nat \ {0}, NEW n \in Nat, n <= Len(s), m <= n + 1
  PROVE  LET t == SubSeq(s, m, n)
         IN  /\ t \in Seq(S) /\ Len(t) = n - m + 1 /\ DOMAIN t = 1 .. n - m + 1
             /\ \A i \in DOMAIN t : m - 1 + i \in DOMAIN s /\ t[i] = s[m - 1 + i]
             /\ Range(t) \subseteq Range(s)
             /\ Once(s) => Once(t)
<1> DEFINE t == SubSeq(s, m, n)
           k == n - m + 1
<1>1. Len(s) \in Nat /\ DOMAIN s = 1 .. Len(s) /\ k \in Nat
  OBVIOUS
<1>2. t \in Seq(S) /\ Len(t) = k /\ DOMAIN t = 1 .. k /\ \A i \in 1 .. k : t[i] = s[m + i - 1]
  OBVIOUS
<1> HIDE DEF t
<1>3. \A i \in 1 .. k : m - 1 + i \in DOMAIN s /\ m + i - 1 = m - 1 + i
  BY <1>1
<1>4. \A i \in DOMAIN t : m - 1 + i \in DOMAIN s /\ t[i] = s[m - 1 + i]
  BY <1>2, <1>3
<1>5. Range(t) \subseteq Range(s)
  BY <1>4 DEF Range
<1>6. ASSUME Once(s) PROVE Once(t)
  <2> SUFFICES ASSUME NEW i \in DOMAIN t, NEW j \in DOMAIN t, t[i] = t[j] PROVE i = j
    BY DEF Once
  <2>1. m - 1 + i = m - 1 + j
    BY <1>4, <1>6 DEF Once
  <2> QED BY <1>2, <2>1
<1> QED BY <1>2, <1>4, <1>5, <1>6 DEF t

----------------------------------------------------------------------------
(* The order of keys and of patterns.                                      *)

\* s and t have the same n bytes in front.
Alike(s, t, n) == \A k \in 1 .. n : s[k] = t[k]

(* StringBefore byte by byte.                                              *)
LEMMA BeforeBytes ==
  ASSUME NEW s \in Seq(Int), NEW t \in Seq(Int)
  PROVE  StringBefore(s, t) <=>
           \E n \in 0 .. Len(s) : n < Len(t) /\ Alike(s, t, n) /\ (n < Len(s) => s[n + 1] < t[n + 1])
<1>1. ASSUME NEW n \in 0 .. Len(s), n < Len(t)
      PROVE  SubSeq(s, 1, n) = SubSeq(t, 1, n) <=> Alike(s, t, n)
  <2>1. n \in Nat /\ n <= Len(s) /\ n <= Len(t) /\ Len(s) \in Nat /\ Len(t) \in Nat
    BY <1>1
  <2>2. SubSeq(s, 1, n) = [i \in 1 .. n |-> s[i]] /\ SubSeq(t, 1, n) = [i \in 1 .. n |-> t[i]]
    BY <2>1
  <2> QED BY <2>2 DEF Alike
<1>2. ASSUME StringBefore(s, t)
      PROVE  \E n \in 0 .. Len(s) : n < Len(t) /\ Alike(s, t, n) /\ (n < Len(s) => s[n + 1] < t[n + 1])
  <2>1. PICK n \in 0 .. Len(s) : n < Len(t) /\ SubSeq(s, 1, n) = SubSeq(t, 1, n) /\ (n < Len(s) => s[n + 1] < t[n + 1])
    BY Zenon, <1>2 DEF StringBefore
  <2>2. Alike(s, t, n)
    BY <1>1, <2>1
  <2> QED BY Zenon, <2>1, <2>2
<1>3. ASSUME NEW n \in 0 .. Len(s), n < Len(t), Alike(s, t, n), n < Len(s) => s[n + 1] < t[n + 1]
      PROVE  StringBefore(s, t)
  <2>1. SubSeq(s, 1, n) = SubSeq(t, 1, n)
    BY <1>1, <1>3
  <2> QED BY Zenon, <1>3, <2>1 DEF StringBefore
<1> QED BY Zenon, <1>2, <1>3

(* The order of keys is a strict and total one.                            *)
LEMMA KeyOrder ==
  ASSUME NEW s \in Seq(Int), NEW t \in Seq(Int), NEW u \in Seq(Int)
  PROVE  /\ StringBefore(s, t) => ~StringBefore(t, s)
         /\ StringBefore(s, t) /\ StringBefore(t, u) => StringBefore(s, u)
         /\ s = t \/ StringBefore(s, t) \/ StringBefore(t, s)
<1> DEFINE a == Len(s)
           b == Len(t)
           c == Len(u)
<1>0. /\ a \in Nat /\ b \in Nat /\ c \in Nat
      /\ \A k \in 1 .. a : s[k] \in Int
      /\ \A k \in 1 .. b : t[k] \in Int
      /\ \A k \in 1 .. c : u[k] \in Int
  OBVIOUS
<1>1. ASSUME StringBefore(s, t), StringBefore(t, s) PROVE FALSE
  <2>1. PICK n \in 0 .. a : n < b /\ Alike(s, t, n) /\ (n < a => s[n + 1] < t[n + 1])
    BY Zenon, <1>1, BeforeBytes
  <2>2. PICK m \in 0 .. b : m < a /\ Alike(t, s, m) /\ (m < b => t[m + 1] < s[m + 1])
    BY Zenon, <1>1, BeforeBytes
  <2> HIDE DEF a, b, c
  <2>3. CASE n < m
    <3>1. n + 1 \in 1 .. m /\ n < a /\ n + 1 \in 1 .. a /\ n + 1 \in 1 .. b
      BY <1>0, <2>1, <2>2, <2>3
    <3> QED BY <1>0, <2>1, <2>2, <3>1 DEF Alike
  <2>4. CASE m < n
    <3>1. m + 1 \in 1 .. n /\ m < b /\ m + 1 \in 1 .. a /\ m + 1 \in 1 .. b
      BY <1>0, <2>1, <2>2, <2>4
    <3> QED BY <1>0, <2>1, <2>2, <3>1 DEF Alike
  <2>5. CASE n = m
    <3>1. n < a /\ m < b /\ n + 1 \in 1 .. a /\ n + 1 \in 1 .. b
      BY <1>0, <2>1, <2>2, <2>5
    <3> QED BY <1>0, <2>1, <2>2, <2>5, <3>1
  <2> QED BY <1>0, <2>3, <2>4, <2>5
<1>2. ASSUME StringBefore(s, t), StringBefore(t, u) PROVE StringBefore(s, u)
  <2>1. PICK n \in 0 .. a : n < b /\ Alike(s, t, n) /\ (n < a => s[n + 1] < t[n + 1])
    BY Zenon, <1>2, BeforeBytes
  <2>2. PICK m \in 0 .. b : m < c /\ Alike(t, u, m) /\ (m < b => t[m + 1] < u[m + 1])
    BY Zenon, <1>2, BeforeBytes
  <2>3. \E l \in 0 .. a : l < c /\ Alike(s, u, l) /\ (l < a => s[l + 1] < u[l + 1])
    <3> HIDE DEF a, b, c
    <3>1. CASE n < m
      <4>1. n < c /\ n + 1 \in 1 .. m
        BY <1>0, <2>1, <2>2, <3>1
      <4>2. Alike(s, u, n)
        BY <1>0, <2>1, <2>2, <3>1 DEF Alike
      <4>3. n < a => s[n + 1] < u[n + 1]
        BY <2>1, <2>2, <4>1 DEF Alike
      <4> QED BY <4>1, <4>2, <4>3
    <3>2. CASE m < n
      <4>1. m \in 0 .. a /\ m < a /\ m < b /\ m + 1 \in 1 .. n
        BY <1>0, <2>1, <2>2, <3>2
      <4>2. Alike(s, u, m)
        BY <1>0, <2>1, <2>2, <3>2 DEF Alike
      <4>3. s[m + 1] < u[m + 1]
        BY <2>1, <2>2, <4>1 DEF Alike
      <4> QED BY <2>2, <4>1, <4>2, <4>3
    <3>3. CASE n = m
      <4>1. Alike(s, u, n)
        BY <1>0, <2>1, <2>2, <3>3 DEF Alike
      <4>2. n < a => s[n + 1] < u[n + 1]
        <5> SUFFICES ASSUME n < a PROVE s[n + 1] < u[n + 1]
          OBVIOUS
        <5>1. s[n + 1] < t[n + 1] /\ t[n + 1] < u[n + 1]
          BY <2>1, <2>2, <3>3
        <5>2. n + 1 \in 1 .. a /\ n + 1 \in 1 .. b /\ n + 1 \in 1 .. c
          BY <1>0, <2>1, <2>2, <3>3
        <5>3. s[n + 1] \in Int /\ t[n + 1] \in Int /\ u[n + 1] \in Int
          BY <1>0, <5>2
        <5> QED BY <5>1, <5>3
      <4> QED BY <2>1, <2>2, <3>3, <4>1, <4>2
    <3> QED BY <1>0, <3>1, <3>2, <3>3
  <2> QED BY Zenon, <2>3, BeforeBytes
<1>3. s = t \/ StringBefore(s, t) \/ StringBefore(t, s)
  <2> DEFINE D == {k \in Nat : k >= 1 /\ k <= a /\ k <= b /\ s[k] # t[k]}
  <2>1. CASE D = {}
    <3>0. \A k \in Nat : k >= 1 /\ k <= a /\ k <= b => s[k] = t[k]
      BY <2>1
    <3>1. CASE a < b
      <4>1. Alike(s, t, a)
        BY <1>0, <3>0, <3>1 DEF Alike
      <4>2. a \in 0 .. a /\ ~(a < a)
        BY <1>0
      <4>3. \E n \in 0 .. a : n < b /\ Alike(s, t, n) /\ (n < a => s[n + 1] < t[n + 1])
        BY <3>1, <4>1, <4>2
      <4> QED BY Zenon, <4>3, BeforeBytes
    <3>2. CASE b < a
      <4>1. Alike(t, s, b)
        BY <1>0, <3>0, <3>2 DEF Alike
      <4>2. b \in 0 .. b /\ ~(b < b)
        BY <1>0
      <4>3. \E n \in 0 .. b : n < a /\ Alike(t, s, n) /\ (n < b => t[n + 1] < s[n + 1])
        BY <3>2, <4>1, <4>2
      <4> QED BY Zenon, <4>3, BeforeBytes
    <3>3. CASE a = b
      <4>1. s = [i \in 1 .. a |-> s[i]] /\ t = [i \in 1 .. b |-> t[i]]
        OBVIOUS
      <4>2. \A i \in 1 .. a : s[i] = t[i]
        <5> HIDE DEF a, b
        <5> QED BY <1>0, <3>0, <3>3
      <4>3. [i \in 1 .. a |-> s[i]] = [i \in 1 .. b |-> t[i]]
        BY <3>3, <4>2
      <4> QED BY <4>1, <4>3
    <3> QED BY <1>0, <3>1, <3>2, <3>3
  <2>2. CASE D # {}
    <3>1. PICK m \in D : \A k \in D : m <= k
      <4>1. D \subseteq Nat
        OBVIOUS
      <4> HIDE DEF D
      <4> QED BY <2>2, <4>1, LeastOf
    <3> DEFINE n == m - 1
    <3>2. n \in Nat /\ n < a /\ n < b /\ n \in 0 .. a /\ n \in 0 .. b /\ n + 1 = m
      OBVIOUS
    <3>3. Alike(s, t, n) /\ Alike(t, s, n)
      <4>1. ASSUME NEW k \in 1 .. n PROVE s[k] = t[k]
        <5>1. k \in Nat /\ k >= 1 /\ k <= a /\ k <= b /\ k < m /\ m \in Nat
          BY <3>2
        <5>2. k \notin D
          <6> HIDE DEF D
          <6> QED BY <3>1, <5>1, <1>0
        <5> QED BY <5>1, <5>2
      <4> QED BY <4>1 DEF Alike
    <3>4. s[n + 1] # t[n + 1] /\ s[n + 1] \in Int /\ t[n + 1] \in Int
      <4>1. s[m] # t[m] /\ m \in 1 .. a /\ m \in 1 .. b
        OBVIOUS
      <4>2. s[m] \in Int /\ t[m] \in Int
        BY <1>0, <4>1
      <4> HIDE DEF a, b, D, n
      <4> QED BY <3>2, <4>1, <4>2
    <3> HIDE DEF D, n
    <3>5. CASE s[n + 1] < t[n + 1]
      <4>1. \E l \in 0 .. a : l < b /\ Alike(s, t, l) /\ (l < a => s[l + 1] < t[l + 1])
        BY <3>2, <3>3, <3>5
      <4> QED BY Zenon, <4>1, BeforeBytes
    <3>6. CASE t[n + 1] < s[n + 1]
      <4>1. \E l \in 0 .. b : l < a /\ Alike(t, s, l) /\ (l < b => t[l + 1] < s[l + 1])
        BY <3>2, <3>3, <3>6
      <4> QED BY Zenon, <4>1, BeforeBytes
    <3> QED BY <3>4, <3>5, <3>6
  <2> QED BY <2>1, <2>2
<1> QED BY <1>1, <1>2, <1>3

\* Patterns whose order makes sense.
Keyed(mem) == \A p \in DOMAIN mem : mem[p].savings \in Int /\ mem[p].key \in Seq(Int)

(* Above is the strict part of an order of the patterns.                   *)
LEMMA AboveOrder ==
  ASSUME NEW mem, Keyed(mem), NEW a \in DOMAIN mem, NEW b \in DOMAIN mem, NEW c \in DOMAIN mem
  PROVE  /\ Above(mem, a, b) => ~Above(mem, b, a)
         /\ ~Above(mem, a, b) /\ ~Above(mem, b, c) => ~Above(mem, a, c)
         /\ Above(mem, a, b) /\ ~Above(mem, c, b) => Above(mem, a, c)
         /\ ~Above(mem, b, a) /\ Above(mem, b, c) => Above(mem, a, c)
<1> DEFINE ka == mem[a].key
           kb == mem[b].key
           kc == mem[c].key
           sa == mem[a].savings
           sb == mem[b].savings
           sc == mem[c].savings
<1>1. {ka, kb, kc} \subseteq Seq(Int) /\ sa \in Int /\ sb \in Int /\ sc \in Int
  BY DEF Keyed
<1> HIDE DEF ka, kb, kc, sa, sb, sc
<1>2. /\ Above(mem, a, b) <=> sa > sb \/ (sa = sb /\ StringBefore(ka, kb))
      /\ Above(mem, b, a) <=> sb > sa \/ (sb = sa /\ StringBefore(kb, ka))
      /\ Above(mem, b, c) <=> sb > sc \/ (sb = sc /\ StringBefore(kb, kc))
      /\ Above(mem, c, b) <=> sc > sb \/ (sc = sb /\ StringBefore(kc, kb))
      /\ Above(mem, a, c) <=> sa > sc \/ (sa = sc /\ StringBefore(ka, kc))
  BY DEF Above, ka, kb, kc, sa, sb, sc
<1>3. /\ StringBefore(ka, kb) => ~StringBefore(kb, ka)
      /\ ka = kb \/ StringBefore(ka, kb) \/ StringBefore(kb, ka)
      /\ kb = kc \/ StringBefore(kb, kc) \/ StringBefore(kc, kb)
      /\ ka = kc \/ StringBefore(ka, kc) \/ StringBefore(kc, ka)
      /\ StringBefore(ka, kb) /\ StringBefore(kb, kc) => StringBefore(ka, kc)
      /\ StringBefore(ka, kc) /\ StringBefore(kc, kb) => StringBefore(ka, kb)
      /\ StringBefore(kb, ka) /\ StringBefore(ka, kc) => StringBefore(kb, kc)
  BY <1>1, KeyOrder
<1>4. Above(mem, a, b) => ~Above(mem, b, a)
  BY <1>1, <1>2, <1>3
<1>5. ~Above(mem, a, b) /\ ~Above(mem, b, c) => ~Above(mem, a, c)
  BY <1>1, <1>2, <1>3
<1>6. Above(mem, a, b) /\ ~Above(mem, c, b) => Above(mem, a, c)
  BY <1>1, <1>2, <1>3
<1>7. ~Above(mem, b, a) /\ Above(mem, b, c) => Above(mem, a, c)
  BY <1>1, <1>2, <1>3
<1> QED BY <1>4, <1>5, <1>6, <1>7

----------------------------------------------------------------------------
(* Paths: from a place to the next, as long as a place has one.            *)

\* f goes from each place to the next ones.
Paths(f, D, C, next) == f = [i \in D |-> IF i \in C THEN {i} \union f[next[i]] ELSE {i}]

\* Places that have a next one have one that is nearer to the end.
Nearer(D, C, next, m) ==
  /\ C \subseteq D
  /\ \A i \in D : m[i] \in Nat
  /\ \A i \in C : next[i] \in D /\ m[next[i]] < m[i]

(* There are paths.                                                        *)
LEMMA PathsExist ==
  ASSUME NEW D, NEW C, NEW next, NEW m, NEW top \in Nat, Nearer(D, C, next, m), \A i \in D : m[i] <= top
  PROVE  \E f : Paths(f, D, C, next)
<1> DEFINE Up(n) == {i \in D : m[i] <= n}
           Is(f, n) == f = [i \in Up(n) |-> IF i \in C THEN {i} \union f[next[i]] ELSE {i}]
           G == {n \in Nat : \E f : Is(f, n)}
<1>1. 0 \in G
  <2> DEFINE f == [i \in Up(0) |-> {i}]
  <2>1. \A i \in Up(0) : i \notin C
    BY DEF Nearer
  <2>2. f = [i \in Up(0) |-> IF i \in C THEN {i} \union f[next[i]] ELSE {i}]
    <3> HIDE DEF Up
    <3> QED BY Zenon, <2>1
  <2> QED BY <2>2
<1>2. ASSUME NEW n \in Nat, n \in G PROVE n + 1 \in G
  <2>1. PICK f : Is(f, n)
    BY <1>2
  <2> DEFINE g == [i \in Up(n + 1) |-> IF i \in C THEN {i} \union f[next[i]] ELSE {i}]
  <2>2. ASSUME NEW i \in C, i \in Up(n + 1) PROVE g[next[i]] = f[next[i]]
    <3>1. next[i] \in D /\ m[next[i]] < m[i] /\ m[next[i]] \in Nat /\ m[i] \in Nat /\ m[i] <= n + 1
      BY <2>2 DEF Nearer
    <3>2. next[i] \in Up(n) /\ next[i] \in Up(n + 1)
      BY <3>1
    <3>3. f[next[i]] = IF next[i] \in C THEN {next[i]} \union f[next[next[i]]] ELSE {next[i]}
      <4> HIDE DEF Up
      <4> QED BY Zenon, <2>1, <3>2
    <3>4. g[next[i]] = IF next[i] \in C THEN {next[i]} \union f[next[next[i]]] ELSE {next[i]}
      <4> HIDE DEF Up
      <4> QED BY Zenon, <3>2
    <3> HIDE DEF g
    <3> QED BY <3>3, <3>4
  <2>3. g = [i \in Up(n + 1) |-> IF i \in C THEN {i} \union g[next[i]] ELSE {i}]
    <3>1. \A i \in Up(n + 1) : (IF i \in C THEN {i} \union f[next[i]] ELSE {i})
                               = IF i \in C THEN {i} \union g[next[i]] ELSE {i}
      <4> HIDE DEF Up, g
      <4> QED BY <2>2
    <3>2. g = [i \in Up(n + 1) |-> IF i \in C THEN {i} \union f[next[i]] ELSE {i}]
      OBVIOUS
    <3> HIDE DEF Up, g
    <3> QED BY Zenon, <3>1, <3>2
  <2> HIDE DEF g
  <2>4. Is(g, n + 1)
    BY <2>3
  <2> QED BY <2>4
<1>3. \A n \in Nat : n \in G
  <2> HIDE DEF G
  <2> QED BY <1>1, <1>2, Induction
<1>4. Up(top) = D
  OBVIOUS
<1>5. PICK f : Is(f, top)
  BY <1>3
<1>6. Paths(f, D, C, next)
  <2> HIDE DEF Up
  <2> QED BY <1>4, <1>5 DEF Paths
<1> QED BY <1>6

\* P is a path that begins at from.
IsPath(P, from, D, C, next, m) ==
  /\ P \subseteq D /\ from \in P
  /\ \A i \in P : m[i] <= m[from]
  /\ \A i \in P \intersect C : next[i] \in P
  /\ \A i \in P : i = from \/ \E k \in P \intersect C : next[k] = i
  /\ \A i \in P, j \in P : m[i] = m[j] => i = j
  /\ \A i \in P, j \in P : i \in C /\ m[j] < m[i] => m[j] <= m[next[i]]
  /\ \E e \in P \ C : \A i \in P : m[e] <= m[i] /\ (i \notin C => i = e)

(* What paths are like.                                                    *)
LEMMA PathFacts ==
  ASSUME NEW D, NEW C, NEW next, NEW m, Nearer(D, C, next, m), NEW f, Paths(f, D, C, next)
  PROVE  \A i \in D : IsPath(f[i], i, D, C, next, m)
<1>1. \A i \in D : f[i] = IF i \in C THEN {i} \union f[next[i]] ELSE {i}
  BY Zenon DEF Paths
<1> DEFINE G == {n \in Nat : \A i \in D : m[i] <= n => IsPath(f[i], i, D, C, next, m)}
<1>2. ASSUME NEW i \in D, i \notin C PROVE IsPath(f[i], i, D, C, next, m)
  <2>1. f[i] = {i} /\ m[i] \in Nat
    BY <1>1, <1>2 DEF Nearer
  <2> QED BY <2>1, <1>2 DEF IsPath
<1>3. ASSUME NEW i \in C, IsPath(f[next[i]], next[i], D, C, next, m)
      PROVE  IsPath(f[i], i, D, C, next, m)
  <2> DEFINE Q == f[next[i]]
             P == f[i]
             j == next[i]
  <2>1. i \in D /\ j \in D /\ m[i] \in Nat /\ m[j] \in Nat /\ m[j] < m[i] /\ P = {i} \union Q
    BY <1>1, <1>3 DEF Nearer
  <2>2. /\ Q \subseteq D /\ j \in Q
        /\ \A k \in Q : m[k] <= m[j]
        /\ \A k \in Q \intersect C : next[k] \in Q
        /\ \A k \in Q : k = j \/ \E l \in Q \intersect C : next[l] = k
        /\ \A k \in Q, l \in Q : m[k] = m[l] => k = l
        /\ \A k \in Q, l \in Q : k \in C /\ m[l] < m[k] => m[l] <= m[next[k]]
        /\ \E e \in Q \ C : \A k \in Q : m[e] <= m[k] /\ (k \notin C => k = e)
    BY <1>3 DEF IsPath
  <2>3. \A k \in Q : m[k] \in Nat /\ m[k] < m[i] /\ m[k] <= m[j] /\ k # i
    BY <2>1, <2>2 DEF Nearer
  <2> HIDE DEF P, Q
  <2>4. P \subseteq D /\ i \in P /\ \A k \in P : m[k] <= m[i]
    BY <2>1, <2>2, <2>3
  <2>5. \A k \in P \intersect C : next[k] \in P
    BY <2>1, <2>2
  <2>6. \A k \in P : k = i \/ \E l \in P \intersect C : next[l] = k
    BY <2>1, <2>2, <1>3
  <2>7. \A k \in P, l \in P : m[k] = m[l] => k = l
    BY <2>1, <2>2, <2>3
  <2>8. \A k \in P, l \in P : k \in C /\ m[l] < m[k] => m[l] <= m[next[k]]
    BY <2>1, <2>2, <2>3
  <2>9. \E e \in P \ C : \A k \in P : m[e] <= m[k] /\ (k \notin C => k = e)
    <3>1. PICK e \in Q \ C : \A k \in Q : m[e] <= m[k] /\ (k \notin C => k = e)
      BY <2>2
    <3>2. e \in P \ C /\ m[e] <= m[i] /\ m[e] \in Nat
      BY <2>1, <2>3, <3>1
    <3>3. \A k \in P : m[e] <= m[k] /\ (k \notin C => k = e)
      BY <2>1, <1>3, <3>1, <3>2
    <3> QED BY <3>2, <3>3
  <2> QED BY <2>4, <2>5, <2>6, <2>7, <2>8, <2>9 DEF IsPath, P
<1>4. 0 \in G
  <2> SUFFICES ASSUME NEW i \in D, m[i] <= 0 PROVE IsPath(f[i], i, D, C, next, m)
    OBVIOUS
  <2>1. i \notin C
    <3>1. i \in C => next[i] \in D /\ m[next[i]] < m[i] /\ m[next[i]] \in Nat /\ m[i] \in Nat
      BY DEF Nearer
    <3> QED BY <3>1
  <2> QED BY <1>2, <2>1
<1>5. ASSUME NEW n \in Nat, n \in G PROVE n + 1 \in G
  <2> SUFFICES ASSUME NEW i \in D, m[i] <= n + 1 PROVE IsPath(f[i], i, D, C, next, m)
    OBVIOUS
  <2>1. CASE i \in C
    <3>1. next[i] \in D /\ m[next[i]] < m[i] /\ m[next[i]] \in Nat /\ m[i] \in Nat
      BY <2>1 DEF Nearer
    <3>2. m[next[i]] <= n
      BY <3>1
    <3>3. IsPath(f[next[i]], next[i], D, C, next, m)
      BY <1>5, <3>1, <3>2
    <3> QED BY <1>3, <2>1, <3>3
  <2> QED BY <1>2, <2>1
<1>6. \A n \in Nat : n \in G
  <2> HIDE DEF G
  <2> QED BY <1>4, <1>5, Induction
<1> SUFFICES ASSUME NEW i \in D PROVE IsPath(f[i], i, D, C, next, m)
  OBVIOUS
<1>7. m[i] \in Nat /\ m[i] <= m[i]
  BY DEF Nearer
<1>8. m[i] \in G
  BY <1>6, <1>7
<1> QED BY <1>7, <1>8

----------------------------------------------------------------------------
(* The heap.                                                               *)

\* t has at the places of P what s has at the next ones, and at the end what was at its start.
Shifted(t, s, P, from, to, next) ==
  t = [i \in DOMAIN s |-> IF i = to THEN s[from] ELSE IF i \in P THEN s[next[i]] ELSE s[i]]

(* Such a shift only changes the order.                                    *)
LEMMA ShiftFacts ==
  ASSUME NEW S, NEW s \in Seq(S), NEW t, NEW P, NEW from, NEW to, NEW next, NEW D, NEW C, NEW m,
         Nearer(D, C, next, m), IsPath(P, from, D, C, next, m), P \subseteq DOMAIN s,
         to \in P \ C, \A i \in P : i \notin C => i = to,
         Shifted(t, s, P, from, to, next)
  PROVE  t \in Seq(S) /\ Len(t) = Len(s) /\ DOMAIN t = DOMAIN s /\ Range(t) = Range(s) /\ (Once(s) => Once(t))
<1>1. /\ P \subseteq D /\ from \in P
      /\ \A i \in P : m[i] <= m[from] /\ m[i] \in Nat
      /\ \A i \in P \intersect C : next[i] \in P /\ m[next[i]] < m[i]
      /\ \A i \in P : i = from \/ \E k \in P \intersect C : next[k] = i
      /\ \A i \in P, j \in P : m[i] = m[j] => i = j
      /\ \A i \in P, j \in P : i \in C /\ m[j] < m[i] => m[j] <= m[next[i]]
  BY DEF IsPath, Nearer
<1>2. PICK n \in Nat : n = Len(s) /\ DOMAIN s = 1 .. n /\ \A i \in DOMAIN s : s[i] \in S
  OBVIOUS
<1> DEFINE old == [i \in DOMAIN s |-> IF i = to THEN from ELSE IF i \in P THEN next[i] ELSE i]
<1>3. \A i \in DOMAIN s : old[i] \in DOMAIN s /\ t[i] = s[old[i]]
  BY <1>1 DEF Shifted
<1>4. DOMAIN t = DOMAIN s
  BY DEF Shifted
<1>5. ASSUME NEW i \in DOMAIN s, NEW j \in DOMAIN s, old[i] = old[j] PROVE i = j
  <2>1. ASSUME NEW k \in P \intersect C PROVE next[k] # from /\ k # to
    BY <1>1, <2>1
  <2>2. ASSUME NEW k \in P \intersect C, NEW l \in P \intersect C, next[k] = next[l] PROVE k = l
    <3>1. m[next[k]] < m[k] /\ m[next[l]] < m[l] /\ {m[k], m[l], m[next[k]]} \subseteq Nat
      BY <1>1
    <3>2. ~(m[l] < m[k]) /\ ~(m[k] < m[l])
      BY <1>1, <2>2, <3>1
    <3> QED BY <1>1, <3>1, <3>2
  <2>3. \A k \in P : k = to \/ k \in P \intersect C
    OBVIOUS
  <2>4. /\ old[i] = IF i = to THEN from ELSE IF i \in P THEN next[i] ELSE i
        /\ old[j] = IF j = to THEN from ELSE IF j \in P THEN next[j] ELSE j
    OBVIOUS
  <2> HIDE DEF old
  <2>5. ASSUME NEW k \in DOMAIN s, k # to PROVE (IF k \in P THEN next[k] ELSE k) # from
    <3>1. CASE k \in P
      <4>1. next[k] # from
        BY <2>1, <2>3, <2>5, <3>1
      <4> QED BY <3>1, <4>1
    <3>2. CASE k \notin P
      BY <1>1, <3>2
    <3> QED BY <3>1, <3>2
  <2>6. CASE i # to /\ j # to
    <3>1. (IF i \in P THEN next[i] ELSE i) = (IF j \in P THEN next[j] ELSE j)
      BY <1>5, <2>4, <2>6
    <3>2. \A k \in P : k # to => next[k] \in P
      BY <1>1, <2>3
    <3>3. CASE i \in P /\ j \in P
      BY <2>2, <2>3, <2>6, <3>1, <3>3
    <3>4. CASE ~(i \in P /\ j \in P)
      BY <2>6, <3>1, <3>2, <3>4
    <3> QED BY <3>3, <3>4
  <2> QED BY <1>5, <2>4, <2>5, <2>6
<1>6. ASSUME NEW j \in DOMAIN s PROVE \E i \in DOMAIN s : old[i] = j
  <2>1. CASE j \notin P
    <3>1. old[j] = j
      BY <2>1
    <3> QED BY <3>1
  <2>2. CASE j = from
    <3>1. old[to] = j
      BY <2>2
    <3> QED BY <3>1
  <2>3. CASE j \in P /\ j # from
    <3>1. PICK k \in P \intersect C : next[k] = j
      BY <1>1, <2>3
    <3>2. k # to /\ k \in DOMAIN s
      OBVIOUS
    <3>3. old[k] = j
      BY <3>1, <3>2
    <3> QED BY <3>2, <3>3
  <2> QED BY <2>1, <2>2, <2>3
<1> HIDE DEF old
<1>7. t \in [1 .. n -> S]
  <2>1. t = [i \in 1 .. n |-> t[i]]
    <3>1. t = [i \in DOMAIN s |-> t[i]]
      <4> DEFINE F(i) == IF i = to THEN s[from] ELSE IF i \in P THEN s[next[i]] ELSE s[i]
      <4>1. t = [i \in DOMAIN s |-> F(i)]
        BY DEF Shifted
      <4> HIDE DEF F
      <4> QED BY Zenon, <4>1
    <3> QED BY Zenon, <1>2, <3>1
  <2>2. \A i \in 1 .. n : t[i] \in S
    BY <1>2, <1>3
  <2>3. [i \in 1 .. n |-> t[i]] \in [1 .. n -> S]
    BY <2>2
  <2> QED BY Zenon, <2>1, <2>3
<1>8. t \in Seq(S) /\ Len(t) = n
  BY <1>7, FunctionIsSeq
<1>9. Range(t) = Range(s)
  <2>1. ASSUME NEW x \in Range(t) PROVE x \in Range(s)
    <3>1. PICK i \in DOMAIN s : x = t[i]
      BY <1>4, <2>1 DEF Range
    <3> QED BY <1>3, <3>1 DEF Range
  <2>2. ASSUME NEW x \in Range(s) PROVE x \in Range(t)
    <3>1. PICK j \in DOMAIN s : x = s[j]
      BY <2>2 DEF Range
    <3>2. PICK i \in DOMAIN s : old[i] = j
      BY <1>6
    <3>3. x = t[i]
      BY <1>3, <3>1, <3>2
    <3> QED BY <1>4, <3>3 DEF Range
  <2> QED BY <2>1, <2>2
<1>10. ASSUME Once(s) PROVE Once(t)
  <2> SUFFICES ASSUME NEW i \in DOMAIN s, NEW j \in DOMAIN s, t[i] = t[j] PROVE i = j
    BY <1>4 DEF Once
  <2>1. old[i] = old[j]
    BY <1>3, <1>10 DEF Once
  <2> QED BY <1>5, <2>1
<1> QED BY <1>2, <1>4, <1>8, <1>9, <1>10

\* Up to place n each pattern but those at skipped is not above the one over it.
InHeapOrder(mem, h, places) == \A i \in places : ~Above(mem, h[i], h[i \div 2])

\* What t has is what s has, in another order.
SameElements(t, s) ==
  /\ Len(t) = Len(s) /\ DOMAIN t = DOMAIN s /\ Range(t) = Range(s)
  /\ Once(s) => Once(t)

(* SiftUp mends a heap that is in order but for its last place.            *)
LEMMA SiftUpFacts ==
  ASSUME NEW mem, Keyed(mem), NEW h \in Seq(DOMAIN mem), h # <<>>,
         InHeapOrder(mem, h, 2 .. Len(h) - 1)
  PROVE  /\ SiftUp(mem, h) \in Seq(DOMAIN mem) /\ SameElements(SiftUp(mem, h), h)
         /\ InHeapOrder(mem, SiftUp(mem, h), 2 .. Len(h))
<1>1. PICK n \in Nat : n = Len(h) /\ n >= 1 /\ DOMAIN h = 1 .. n /\ \A i \in 1 .. n : h[i] \in DOMAIN mem
  OBVIOUS
<1> DEFINE D == 0 .. n
           C == {i \in D : i > 1 /\ Above(mem, h[n], h[i \div 2])}
           next == [i \in D |-> i \div 2]
           m == [i \in D |-> i]
           Is(g) == g = [i \in 0 .. n |-> IF i > 1 /\ Above(mem, h[n], h[i \div 2])
                                          THEN {i} \union g[i \div 2] ELSE {i}]
           risen == CHOOSE g : Is(g)
           P == risen[n]
           to == Min(P)
           t == SiftUp(mem, h)
<1>2. Nearer(D, C, next, m) /\ \A i \in D : m[i] <= n
  BY DEF Nearer
<1>3. \A g : Paths(g, D, C, next) <=> Is(g)
  <2> SUFFICES ASSUME NEW g PROVE Paths(g, D, C, next) <=> Is(g)
    OBVIOUS
  <2>1. \A i \in 0 .. n : (IF i \in C THEN {i} \union g[next[i]] ELSE {i})
                          = IF i > 1 /\ Above(mem, h[n], h[i \div 2]) THEN {i} \union g[i \div 2] ELSE {i}
    OBVIOUS
  <2> HIDE DEF C, next
  <2>2. [i \in 0 .. n |-> IF i \in C THEN {i} \union g[next[i]] ELSE {i}]
        = [i \in 0 .. n |-> IF i > 1 /\ Above(mem, h[n], h[i \div 2]) THEN {i} \union g[i \div 2] ELSE {i}]
    BY Zenon, <2>1
  <2> QED BY Zenon, <2>2 DEF Paths
<1>4. PICK G : Paths(G, D, C, next)
  <2> HIDE DEF D, C, next, m
  <2> QED BY <1>2, PathsExist
<1>5. Paths(risen, D, C, next)
  <2> HIDE DEF D, C, next, Is
  <2>1. Is(G)
    BY <1>3, <1>4
  <2>2. Is(risen)
    BY <2>1
  <2> QED BY <1>3, <2>2
<1>6. t = MovedAlong(h, P, n, to)
  BY Zenon, <1>1 DEF SiftUp
<1> HIDE DEF risen, Is, t
<1>7. IsPath(P, n, D, C, next, m)
  <2>1. n \in D
    OBVIOUS
  <2> HIDE DEF D, C, next, m, P
  <2>2. \A i \in D : IsPath(risen[i], i, D, C, next, m)
    BY <1>2, <1>5, PathFacts
  <2> QED BY <2>1, <2>2 DEF P
<1> HIDE DEF P
<1>8. /\ P \subseteq D /\ n \in P
      /\ \A i \in P : i <= n
      /\ \A i \in P \intersect C : i \div 2 \in P
      /\ \A i \in P : i = n \/ \E k \in P \intersect C : k \div 2 = i
      /\ \E e \in P \ C : \A i \in P : e <= i /\ (i \notin C => i = e)
  BY <1>7 DEF IsPath
<1>9. P \subseteq 1 .. n
  BY <1>1, <1>8
<1>10. to \in P \ C /\ \A i \in P : to <= i /\ (i \notin C => i = to)
  <2>1. PICK e \in P \ C : \A i \in P : e <= i /\ (i \notin C => i = e)
    BY <1>8
  <2>2. P \subseteq Nat
    BY <1>8
  <2> HIDE DEF C, D
  <2>3. \E e_ \in P : \A i \in P : e_ <= i
    BY <2>1
  <2>4. to \in P /\ \A i \in P : to <= i
    BY <2>3 DEF Min
  <2> HIDE DEF to
  <2>5. to = e
    BY <2>1, <2>2, <2>4
  <2> QED BY <2>1, <2>5
<1> HIDE DEF to
<1>11. \A i \in 1 .. n : t[i] = IF i = to THEN h[n] ELSE IF i \in P THEN h[i \div 2] ELSE h[i]
  <2> SUFFICES ASSUME NEW i \in 1 .. n
               PROVE  t[i] = IF i = to THEN h[n] ELSE IF i \in P THEN h[i \div 2] ELSE h[i]
    OBVIOUS
  <2>1. t[i] = CASE i = to -> h[n]
                 [] i \in P \ {to} -> h[CHOOSE j \in P : IF n > to THEN j = i \div 2 ELSE j \div 2 = i]
                 [] OTHER -> h[i]
    BY Zenon, <1>1, <1>6 DEF MovedAlong
  <2>2. CASE i = to
    <3>1. ~(i \in P \ {to})
      BY <2>2
    <3> QED BY Zenon, <2>1, <2>2, <3>1
  <2>3. CASE i \in P \ {to}
    <3>1. i \in C /\ n > to /\ i \div 2 \in P /\ i # to
      BY <1>8, <1>10, <2>3
    <3>2. (CHOOSE j \in P : IF n > to THEN j = i \div 2 ELSE j \div 2 = i) = i \div 2
      <4> HIDE DEF C
      <4> QED BY <3>1
    <3>3. t[i] = h[CHOOSE j \in P : IF n > to THEN j = i \div 2 ELSE j \div 2 = i]
      BY Zenon, <2>1, <2>3, <3>1
    <3> QED BY <2>3, <3>2, <3>3
  <2>4. CASE i \notin P
    <3>1. i # to /\ i \notin P \ {to}
      BY <1>10, <2>4
    <3>2. t[i] = h[i]
      BY Zenon, <2>1, <3>1
    <3> QED BY <2>4, <3>1, <3>2
  <2> QED BY <2>2, <2>3, <2>4
<1>12. Shifted(t, h, P, n, to, next)
  <2>1. t = [i \in 1 .. n |-> t[i]]
    <3>1. DOMAIN t = 1 .. n /\ t = [i \in DOMAIN h |-> t[i]]
      BY <1>1, <1>6 DEF MovedAlong
    <3> QED BY <1>1, <3>1
  <2>2. \A i \in 1 .. n : t[i] = IF i = to THEN h[n] ELSE IF i \in P THEN h[next[i]] ELSE h[i]
    BY <1>11
  <2> HIDE DEF next
  <2>3. [i \in 1 .. n |-> t[i]] = [i \in 1 .. n |-> IF i = to THEN h[n] ELSE IF i \in P THEN h[next[i]] ELSE h[i]]
    BY Zenon, <2>2
  <2> QED BY Zenon, <1>1, <2>1, <2>3 DEF Shifted
<1>13. t \in Seq(DOMAIN mem) /\ SameElements(t, h)
  <2> HIDE DEF C, D, next, m
  <2>1. P \subseteq DOMAIN h
    BY <1>1, <1>9
  <2> QED BY <1>2, <1>7, <1>10, <1>12, <2>1, ShiftFacts DEF SameElements
<1>14. ASSUME NEW i \in 2 .. n PROVE ~Above(mem, t[i], t[i \div 2])
  <2> DEFINE j == i \div 2
  <2>1. j \in 1 .. n /\ j < i /\ i \in 1 .. n
    OBVIOUS
  <2>2. /\ t[i] = IF i = to THEN h[n] ELSE IF i \in P THEN h[j] ELSE h[i]
        /\ t[j] = IF j = to THEN h[n] ELSE IF j \in P THEN h[j \div 2] ELSE h[j]
    BY <1>11, <2>1
  <2>3. \A k \in 2 .. n - 1 : ~Above(mem, h[k], h[k \div 2])
    BY <1>1 DEF InHeapOrder
  <2>4. \A k \in P : k # to => k > 1 /\ k \div 2 \in 1 .. n /\ Above(mem, h[n], h[k \div 2])
    BY <1>8, <1>9, <1>10
  <2>5. \A a, b \in 1 .. n : Above(mem, h[a], h[b]) => ~Above(mem, h[b], h[a])
    BY <1>1, AboveOrder
  <2>6. \A a, b, c \in 1 .. n : ~Above(mem, h[a], h[b]) /\ ~Above(mem, h[b], h[c]) => ~Above(mem, h[a], h[c])
    BY <1>1, AboveOrder
  <2>7. to \in 1 .. n /\ \A k \in P : to <= k
    BY <1>9, <1>10
  <2>8. n \in 1 .. n
    BY <1>1
  <2>9. CASE i \in P /\ i # to
    <3>1. Above(mem, h[n], h[j]) /\ t[i] = h[j] /\ j \in P
      BY <1>8, <1>10, <2>2, <2>4, <2>9
    <3>2. CASE j = to
      BY <2>1, <2>2, <2>5, <2>8, <3>1, <3>2
    <3>3. CASE j # to
      <4>1. j > 1 /\ t[j] = h[j \div 2] /\ j \in 2 .. n - 1
        BY <2>1, <2>2, <2>4, <3>1, <3>3
      <4> QED BY <2>3, <3>1, <4>1
    <3> QED BY <3>2, <3>3
  <2>10. CASE i = to
    <3>1. ~Above(mem, h[n], h[j])
      BY <1>10, <2>10
    <3>2. j \notin P
      BY <2>1, <2>7, <2>10
    <3> QED BY <2>2, <2>7, <2>10, <3>1, <3>2, <1>10
  <2>11. CASE i \notin P
    <3>0. i # n /\ i # to
      BY <1>8, <1>10, <2>11
    <3>1. i # n /\ i \in 2 .. n - 1 /\ t[i] = h[i] /\ ~Above(mem, h[i], h[j])
      BY <2>2, <2>3, <2>11, <3>0
    <3>2. CASE j \notin P
      BY <1>10, <2>2, <3>1, <3>2
    <3>3. CASE j = to
      <4>1. j # n
        BY <2>1, <3>1
      <4>2. PICK k \in P \intersect C : k \div 2 = j
        BY <1>8, <1>10, <3>3, <4>1
      <4>3. Above(mem, h[n], h[j])
        BY <4>2
      <4>4. ~Above(mem, h[j], h[n])
        BY <2>1, <2>5, <2>8, <4>3
      <4> QED BY <2>1, <2>2, <2>6, <2>8, <3>1, <3>3, <4>4
    <3>4. CASE j \in P /\ j # to
      <4>1. j > 1 /\ j \div 2 \in 1 .. n /\ t[j] = h[j \div 2] /\ j \in 2 .. n - 1
        BY <2>1, <2>2, <2>4, <3>1, <3>4
      <4>2. ~Above(mem, h[j], h[j \div 2])
        BY <2>3, <4>1
      <4> QED BY <2>1, <2>6, <3>1, <4>1, <4>2
    <3> QED BY <3>2, <3>3, <3>4
  <2> QED BY <2>9, <2>10, <2>11
<1> QED BY <1>1, <1>13, <1>14 DEF InHeapOrder, t

(* Onto: the greater child that is above the first element, else the place itself. *)
LEMMA OntoFacts ==
  ASSUME NEW mem, Keyed(mem), NEW h \in Seq(DOMAIN mem), NEW i \in 1 .. Len(h)
  PROVE  LET c == Onto(mem, h, i)
         IN  /\ c = i \/ (c \in {2 * i, 2 * i + 1} /\ c <= Len(h) /\ Above(mem, h[c], h[1]))
             /\ c = i => \A d \in 1 .. Len(h) : d \div 2 = i /\ d > 1 => ~Above(mem, h[d], h[1])
             /\ c # i => \A d \in 1 .. Len(h) : d \div 2 = i /\ d > 1 => ~Above(mem, h[d], h[c])
<1>1. PICK n \in Nat : n = Len(h) /\ n >= 1 /\ \A j \in 1 .. n : h[j] \in DOMAIN mem
  OBVIOUS
<1> DEFINE l == 2 * i
           r == 2 * i + 1
           left == IF l <= n /\ Above(mem, h[l], h[1]) THEN l ELSE i
           c == Onto(mem, h, i)
           over == IF left = i THEN h[1] ELSE h[left]
<1>2. c = IF r <= n /\ Above(mem, h[r], over) THEN r ELSE left
  BY <1>1 DEF Onto
<1>3. /\ i \in 1 .. n /\ l \in Nat /\ r \in Nat /\ l > i /\ r > l /\ l \div 2 = i /\ r \div 2 = i
      /\ \A d \in 1 .. n : d \div 2 = i /\ d > 1 => d = l \/ d = r
  BY <1>1
<1>4. /\ \A a, b \in 1 .. n : Above(mem, h[a], h[b]) => ~Above(mem, h[b], h[a])
      /\ \A a, b, d \in 1 .. n : Above(mem, h[a], h[b]) /\ ~Above(mem, h[d], h[b]) => Above(mem, h[a], h[d])
  BY <1>1, AboveOrder
<1>5. \A a \in 1 .. n : ~Above(mem, h[a], h[a])
  BY <1>4
<1>6. 1 \in 1 .. n /\ (l <= n => l \in 1 .. n) /\ (r <= n => r \in 1 .. n)
  BY <1>1, <1>3
<1> HIDE DEF c
<1>7. CASE c = r
  <2>1. r <= n /\ Above(mem, h[r], over) /\ r # i /\ r # l
    BY <1>2, <1>3, <1>7
  <2>2. CASE left = i
    <3>1. Above(mem, h[r], h[1]) /\ (l <= n => ~Above(mem, h[l], h[1]))
      BY <1>3, <2>1, <2>2
    <3>2. l <= n => ~Above(mem, h[l], h[r])
      <4> HIDE DEF l, r, left
      <4> QED BY <1>4, <1>6, <2>1, <3>1
    <3> HIDE DEF l, r, left
    <3> QED BY <1>1, <1>3, <1>5, <1>6, <1>7, <2>1, <3>1, <3>2 DEF c, l, r
  <2>3. CASE left # i
    <3>1. left = l /\ l <= n /\ Above(mem, h[l], h[1]) /\ Above(mem, h[r], h[l])
      BY <1>3, <2>1, <2>3
    <3> HIDE DEF l, r, left
    <3>2. Above(mem, h[r], h[1]) /\ ~Above(mem, h[l], h[r])
      BY <1>4, <1>6, <2>1, <3>1
    <3> QED BY <1>1, <1>3, <1>5, <1>6, <1>7, <2>1, <3>1, <3>2 DEF c, l, r
  <2> QED BY <2>2, <2>3
<1>8. CASE c # r
  <2>1. c = left /\ (r <= n => ~Above(mem, h[r], over))
    BY <1>2, <1>8
  <2>2. CASE left = i
    <3>1. (r <= n => ~Above(mem, h[r], h[1])) /\ (l <= n => ~Above(mem, h[l], h[1])) /\ c = i
      BY <1>3, <2>1, <2>2
    <3> HIDE DEF l, r, left
    <3> QED BY <1>1, <1>3, <3>1 DEF c
  <2>3. CASE left # i
    <3>1. left = l /\ l <= n /\ Above(mem, h[l], h[1]) /\ (r <= n => ~Above(mem, h[r], h[l])) /\ c = l
      BY <1>3, <2>1, <2>3
    <3>2. c # i /\ c \in {2 * i, 2 * i + 1}
      BY <1>3, <3>1
    <3> HIDE DEF l, r, left
    <3>3. \A d \in 1 .. n : d \div 2 = i /\ d > 1 => ~Above(mem, h[d], h[c])
      BY <1>3, <1>5, <1>6, <3>1
    <3> QED BY <1>1, <3>1, <3>2, <3>3 DEF c
  <2> QED BY <2>2, <2>3
<1> QED BY <1>7, <1>8

(* SiftDown mends a heap that is in order but for its first place.         *)
LEMMA SiftDownFacts ==
  ASSUME NEW mem, Keyed(mem), NEW h \in Seq(DOMAIN mem), h # <<>>,
         InHeapOrder(mem, h, 4 .. Len(h))
  PROVE  /\ SiftDown(mem, h) \in Seq(DOMAIN mem) /\ SameElements(SiftDown(mem, h), h)
         /\ InHeapOrder(mem, SiftDown(mem, h), 2 .. Len(h))
<1>1. PICK n \in Nat : n = Len(h) /\ n >= 1 /\ DOMAIN h = 1 .. n /\ \A i \in 1 .. n : h[i] \in DOMAIN mem
  OBVIOUS
<1> DEFINE D == 1 .. n
           next == [i \in D |-> Onto(mem, h, i)]
           C == {i \in D : next[i] # i}
           m == [i \in D |-> n - i]
           Is(g) == g = [i \in DOMAIN h |-> IF Onto(mem, h, i) = i THEN {i}
                                            ELSE {i} \union g[Onto(mem, h, i)]]
           sunk == CHOOSE g : Is(g)
           P == sunk[1]
           to == Max(P)
           t == SiftDown(mem, h)
<1>2. \A i \in D : /\ next[i] = i \/ (next[i] \in {2 * i, 2 * i + 1} /\ next[i] <= n /\ Above(mem, h[next[i]], h[1]))
                   /\ next[i] = i => \A d \in D : d \div 2 = i /\ d > 1 => ~Above(mem, h[d], h[1])
                   /\ next[i] # i => \A d \in D : d \div 2 = i /\ d > 1 => ~Above(mem, h[d], h[next[i]])
  BY <1>1, OntoFacts
<1>3. Nearer(D, C, next, m) /\ \A i \in D : m[i] <= n
  <2>1. \A i \in C : next[i] \in D /\ next[i] > i
    <3> SUFFICES ASSUME NEW i \in C PROVE next[i] \in D /\ next[i] > i
      OBVIOUS
    <3>1. next[i] \in {2 * i, 2 * i + 1} /\ next[i] <= n /\ i \in D
      BY <1>2
    <3> HIDE DEF next
    <3> QED BY <3>1
  <2> HIDE DEF next
  <2> QED BY <2>1 DEF Nearer
<1>4. \A g : Paths(g, D, C, next) <=> Is(g)
  <2> SUFFICES ASSUME NEW g PROVE Paths(g, D, C, next) <=> Is(g)
    OBVIOUS
  <2>1. \A i \in D : (IF i \in C THEN {i} \union g[next[i]] ELSE {i})
                     = IF Onto(mem, h, i) = i THEN {i} ELSE {i} \union g[Onto(mem, h, i)]
    OBVIOUS
  <2> HIDE DEF C, next, D
  <2>2. [i \in D |-> IF i \in C THEN {i} \union g[next[i]] ELSE {i}]
        = [i \in D |-> IF Onto(mem, h, i) = i THEN {i} ELSE {i} \union g[Onto(mem, h, i)]]
    BY Zenon, <2>1
  <2>3. DOMAIN h = D
    BY <1>1 DEF D
  <2> QED BY Zenon, <2>2, <2>3 DEF Paths
<1>5. PICK G : Paths(G, D, C, next)
  <2> HIDE DEF D, C, next, m
  <2> QED BY <1>3, PathsExist
<1>6. Paths(sunk, D, C, next)
  <2> HIDE DEF D, C, next, Is
  <2>1. Is(G)
    BY <1>4, <1>5
  <2>2. Is(sunk)
    BY <2>1
  <2> QED BY <1>4, <2>2
<1>7. t = MovedAlong(h, P, 1, to)
  BY Zenon, <1>1 DEF SiftDown
<1> HIDE DEF sunk, Is, t
<1>8. IsPath(P, 1, D, C, next, m)
  <2>1. 1 \in D
    BY <1>1
  <2> HIDE DEF D, C, next, m, P
  <2>2. \A i \in D : IsPath(sunk[i], i, D, C, next, m)
    BY <1>3, <1>6, PathFacts
  <2> QED BY <2>1, <2>2 DEF P
<1> HIDE DEF P, next
<1>9. /\ P \subseteq D /\ 1 \in P
      /\ \A i \in P \intersect C : next[i] \in P
      /\ \A i \in P : i = 1 \/ \E k \in P \intersect C : next[k] = i
      /\ \E e \in P \ C : \A i \in P : n - e <= n - i /\ (i \notin C => i = e)
  <2> HIDE DEF C
  <2> QED BY <1>8 DEF IsPath
<1>10. to \in P \ C /\ \A i \in P : i <= to /\ (i \notin C => i = to)
  <2>1. PICK e \in P \ C : \A i \in P : n - e <= n - i /\ (i \notin C => i = e)
    BY <1>9
  <2>2. P \subseteq Nat
    BY <1>9
  <2> HIDE DEF C, D
  <2>3. \A i \in P : i <= e
    BY <2>1, <2>2, <1>1
  <2>4. \E e_ \in P : \A i \in P : e_ >= i
    BY <2>1, <2>2, <2>3
  <2>5. to \in P /\ \A i \in P : to >= i
    BY <2>4 DEF Max
  <2> HIDE DEF to
  <2>6. to = e
    BY <2>2, <2>3, <2>5
  <2> QED BY <2>1, <2>3, <2>6
<1> HIDE DEF to
<1>11. \A k \in P \intersect C : next[k] \in P /\ next[k] \in D /\ next[k] \in {2 * k, 2 * k + 1}
                                 /\ next[k] \div 2 = k /\ next[k] > 1
  <2> SUFFICES ASSUME NEW k \in P \intersect C
               PROVE  next[k] \in P /\ next[k] \in D /\ next[k] \in {2 * k, 2 * k + 1}
                      /\ next[k] \div 2 = k /\ next[k] > 1
    OBVIOUS
  <2>1. next[k] \in P /\ next[k] \in D /\ next[k] \in {2 * k, 2 * k + 1} /\ k \in Nat /\ k >= 1
    BY <1>2, <1>9
  <2> HIDE DEF C, D
  <2>2. CASE next[k] = 2 * k
    BY <2>1, <2>2
  <2>3. CASE next[k] = 2 * k + 1
    BY <2>1, <2>3
  <2> QED BY <2>1, <2>2, <2>3
<1>12. \A i \in P : i = 1 \/ (i \div 2 \in P /\ i \div 2 \in C /\ next[i \div 2] = i)
  <2> HIDE DEF C, D
  <2> QED BY <1>9, <1>11
<1>13. \A i \in 1 .. n : t[i] = IF i = to THEN h[1] ELSE IF i \in P THEN h[next[i]] ELSE h[i]
  <2> SUFFICES ASSUME NEW i \in 1 .. n
               PROVE  t[i] = IF i = to THEN h[1] ELSE IF i \in P THEN h[next[i]] ELSE h[i]
    OBVIOUS
  <2>1. t[i] = CASE i = to -> h[1]
                 [] i \in P \ {to} -> h[CHOOSE j \in P : IF 1 > to THEN j = i \div 2 ELSE j \div 2 = i]
                 [] OTHER -> h[i]
    BY Zenon, <1>1, <1>7 DEF MovedAlong
  <2>2. CASE i = to
    <3>1. ~(i \in P \ {to})
      BY <2>2
    <3> QED BY Zenon, <2>1, <2>2, <3>1
  <2>3. CASE i \in P \ {to}
    <3>1. i \in C /\ ~(1 > to) /\ next[i] \in P /\ i # to /\ next[i] \div 2 = i
      BY <1>9, <1>10, <1>11, <2>3
    <3>2. \A j \in P : j \div 2 = i => j = next[i]
      <4> SUFFICES ASSUME NEW j \in P, j \div 2 = i PROVE j = next[i]
        OBVIOUS
      <4>1. j # 1
        <5>1. 1 \div 2 = 0
          OBVIOUS
        <5> QED BY <5>1
      <4> QED BY <1>12, <4>1
    <3>3. (CHOOSE j \in P : IF 1 > to THEN j = i \div 2 ELSE j \div 2 = i) = next[i]
      <4> HIDE DEF C
      <4>1. \A j \in P : (IF 1 > to THEN j = i \div 2 ELSE j \div 2 = i) <=> j = next[i]
        BY <3>1, <3>2
      <4> QED BY <3>1, <4>1
    <3>4. t[i] = h[CHOOSE j \in P : IF 1 > to THEN j = i \div 2 ELSE j \div 2 = i]
      BY Zenon, <2>1, <2>3, <3>1
    <3> QED BY <2>3, <3>1, <3>3, <3>4
  <2>4. CASE i \notin P
    <3>1. i # to /\ i \notin P \ {to}
      BY <1>10, <2>4
    <3>2. t[i] = h[i]
      BY Zenon, <2>1, <3>1
    <3> QED BY <2>4, <3>1, <3>2
  <2> QED BY <2>2, <2>3, <2>4
<1>14. Shifted(t, h, P, 1, to, next)
  <2>1. t = [i \in 1 .. n |-> t[i]]
    <3>1. DOMAIN t = 1 .. n /\ t = [i \in DOMAIN h |-> t[i]]
      BY <1>1, <1>7 DEF MovedAlong
    <3> QED BY <1>1, <3>1
  <2>2. [i \in 1 .. n |-> t[i]] = [i \in 1 .. n |-> IF i = to THEN h[1] ELSE IF i \in P THEN h[next[i]] ELSE h[i]]
    BY Zenon, <1>13
  <2> QED BY Zenon, <1>1, <2>1, <2>2 DEF Shifted
<1>15. t \in Seq(DOMAIN mem) /\ SameElements(t, h)
  <2>1. P \subseteq DOMAIN h
    BY <1>1, <1>9
  <2> HIDE DEF C, D, m
  <2> QED BY <1>3, <1>8, <1>10, <1>14, <2>1, ShiftFacts DEF SameElements
<1>16. ASSUME NEW i \in 2 .. n PROVE ~Above(mem, t[i], t[i \div 2])
  <2> DEFINE j == i \div 2
  <2>1. j \in 1 .. n /\ j < i /\ i \in 1 .. n /\ i > 1 /\ (j # 1 => i \in 4 .. n)
    BY <1>1
  <2>2. /\ t[i] = IF i = to THEN h[1] ELSE IF i \in P THEN h[next[i]] ELSE h[i]
        /\ t[j] = IF j = to THEN h[1] ELSE IF j \in P THEN h[next[j]] ELSE h[j]
    BY <1>13, <2>1
  <2>3. \A k \in 4 .. n : ~Above(mem, h[k], h[k \div 2])
    BY <1>1 DEF InHeapOrder
  <2>4. \A a, b \in 1 .. n : Above(mem, h[a], h[b]) => ~Above(mem, h[b], h[a])
    BY <1>1, AboveOrder
  <2>5. /\ next[j] = j \/ (next[j] \in D /\ Above(mem, h[next[j]], h[1]))
        /\ next[j] = j => ~Above(mem, h[i], h[1])
        /\ next[j] # j => ~Above(mem, h[i], h[next[j]])
    <3>1. /\ next[j] = j \/ (next[j] \in {2 * j, 2 * j + 1} /\ next[j] <= n /\ Above(mem, h[next[j]], h[1]))
          /\ next[j] = j => ~Above(mem, h[i], h[1])
          /\ next[j] # j => ~Above(mem, h[i], h[next[j]])
      BY <1>2, <2>1
    <3> QED BY <2>1, <3>1
  <2> HIDE DEF j
  <2>6. CASE i \in P
    <3>1. j \in P /\ j # to /\ next[j] = i /\ next[j] # j
      BY <1>10, <1>12, <2>1, <2>6 DEF j
    <3>2. t[j] = h[i] /\ Above(mem, h[i], h[1])
      BY <2>2, <2>5, <3>1
    <3>3. CASE i = to
      <4>1. t[i] = h[1] /\ 1 \in 1 .. n
        BY <1>1, <2>2, <3>3
      <4> QED BY <2>1, <2>4, <3>2, <4>1 DEF j
    <3>4. CASE i # to
      <4>1. t[i] = h[next[i]] /\ next[i] \in D /\ next[i] \div 2 = i /\ next[i] \in {2 * i, 2 * i + 1}
        BY <1>10, <1>11, <2>2, <2>6, <3>4
      <4>2. next[i] \in 4 .. n
        BY <2>1, <4>1
      <4> QED BY <2>3, <3>2, <4>1, <4>2 DEF j
    <3> QED BY <3>3, <3>4
  <2>7. CASE i \notin P
    <3>1. t[i] = h[i]
      BY <1>10, <2>2, <2>7
    <3>2. CASE j \notin P
      <4>1. j # 1 /\ j # to
        BY <1>9, <1>10, <3>2
      <4> QED BY <2>1, <2>2, <2>3, <3>1, <3>2, <4>1 DEF j
    <3>3. CASE j = to
      <4>1. next[j] = j
        BY <1>10, <2>1, <3>3
      <4> QED BY <2>2, <2>5, <3>1, <3>3, <4>1 DEF j
    <3>4. CASE j \in P /\ j # to
      <4>1. next[j] # j
        BY <1>10, <3>4
      <4> QED BY <2>2, <2>5, <3>1, <3>4, <4>1 DEF j
    <3> QED BY <3>2, <3>3, <3>4
  <2> QED BY <2>6, <2>7
<1> QED BY <1>1, <1>15, <1>16 DEF InHeapOrder, t

----------------------------------------------------------------------------
(* Folds.  A fold of the model is known by its name.                       *)

\* What is left of a long string without its end or its start is dropped (LongOnes).
LongStep(st, id) ==
  [shorter |-> st.shorter \union {Tail(id), Front(id)},
   kept    |-> IF id \in st.shorter \union {Tail(id), Front(id)} THEN st.kept ELSE Append(st.kept, id)]

\* The top of the heap is taken (Drained).
DrainStep(mem, st) == [heap |-> Popped(mem, st.heap), out |-> Append(st.out, Peek(st.heap))]

\* The parse of a text goes one place further to its start (ParseLine).
ParseStep(par, st, x) ==
  Append(st, Choice(par.alpha, par.text, par.list, par.line, Len(par.text) + 1 - x, st))

\* An abbreviation is tried at a place (Choice).
ChoiceStep(par, st, a) ==
  LET with == ReferenceCost + par.behind[Len(par.behind) + 1 - Len(par.list[a].key)].cost
  IN  IF par.i \in par.list[a].occurrences[par.line]
         /\ (Cheaper(st, with) \/ Tied(st, with, par.list, a))
      THEN [cost |-> with, pick |-> a]
      ELSE st

\* A place that the parse does not pass over (Taken).
TakenStep(par, st, i) ==
  IF i < st.next \/ par.parse[i].pick = 0 THEN st
  ELSE [next |-> i + Len(par.list[par.parse[i].pick].key), taken |-> st.taken \union {i}]

\* A piece of the text, an abbreviation or a character (FinishedText).
PieceStep(par, st, i) == FinishedStep(par.text, par.parse, par.list, st, i)

\* What a routine is filled up with (TotalPadding).
PaddingStep(par, st, r) ==
  [from    |-> RoutineLines(par.texts, r - 1, st.from).from,
   padding |-> st.padding + RoutinePadding(par.version,
                 par.sizes[r] + Total([j \in DOMAIN par.texts |->
                   IF j \in RoutineLines(par.texts, r - 1, st.from).lines THEN par.parses[j].bytes ELSE 0]))]

\* One replacement of a pattern that overlaps (RefineOverlapping).
OverlapStep(st, i) ==
  IF st.index = 0 /\ Overlap(pats[RunnerUp].key, pats[best[i]].key) THEN TryInPlace(st, i) ELSE st

\* An argument is looked at for the first time (Prescan), for the second (Getopt).
PrescanStep(args, st, i) ==
  IF i < st.next THEN st
  ELSE LET p == Prescanned(st.s, args, i)
       IN  [s    |-> p.s,
            next |-> IF p.takes = 0 THEN i + 1 ELSE i + p.takes,
            left |-> IF p.takes = 0 THEN Append(st.left, args[i])
                     ELSE st.left \o [j \in 1 .. p.takes |-> "--processed"]]

GetoptStep(par, st, i) ==
  IF i < st.next \/ (Valued(par.args[i]) /\ i = Len(par.args)) THEN st
  ELSE IF Valued(par.args[i])
       THEN [s |-> Option(st.s, par.args[i], par.args[i + 1], par.directories), next |-> i + 2]
       ELSE [s |-> Option(st.s, par.args[i], "", par.directories), next |-> i + 1]

\* The second of two quotes is passed over (ReplaceDoubleQuotes).
QuotesStep(s, st, i) ==
  IF i < st.next THEN st
  ELSE [next |-> IF i < Len(s) /\ s[i] = QuoteReplacement /\ s[i + 1] = QuoteReplacement THEN i + 2 ELSE i + 1,
        out  |-> Append(st.out, s[i])]

\* A character is looked at for a number (Atoi).
AtoiStep(st, c) ==
  CASE st.over -> st
    [] ~st.over /\ c = Space /\ ~st.digits -> st
    [] ~st.over /\ c \in Digits -> [st EXCEPT !.n = 10 * @ + c - 48, !.digits = TRUE]
    [] OTHER -> [st EXCEPT !.over = TRUE]

\* The folds of the reader.
ReaderStep(fold, par, st, x) ==
  IF fold = "prescan" THEN PrescanStep(par, st, x)
  ELSE IF fold = "getopt" THEN GetoptStep(par, st, x)
  ELSE IF fold = "quotes" THEN QuotesStep(par, st, x)
  ELSE AtoiStep(st, x)

\* The folds of the model.
StepOf(fold, par, st, x) ==
  IF fold = "total" THEN st + x
  ELSE IF fold = "cost" THEN st + ZcharCost(par, x)
  ELSE IF fold = "among" THEN (IF x \in par THEN Append(st, x) ELSE st)
  ELSE IF fold = "push" THEN Push(par, st, x)
  ELSE IF fold = "drain" THEN DrainStep(par, st)
  ELSE IF fold = "long" THEN LongStep(st, x)
  ELSE IF fold = "hash" THEN (33 * st + x) % Buckets
  ELSE IF fold = "general" THEN st \o x.text \o <<Separator>>
  ELSE IF fold = "doubled" THEN
    (IF st.k >= 2 * Len(par) THEN st ELSE [k |-> 2 * st.k, suffixes |-> Doubled(st.suffixes, st.k)])
  ELSE IF fold = "parse" THEN ParseStep(par, st, x)
  ELSE IF fold = "choice" THEN ChoiceStep(par, st, x)
  ELSE IF fold = "taken" THEN TakenStep(par, st, x)
  ELSE IF fold = "pieces" THEN PieceStep(par, st, x)
  ELSE IF fold = "padding" THEN PaddingStep(par, st, x)
  ELSE IF fold = "overlap" THEN OverlapStep(st, x)
  ELSE IF fold = "try" THEN TryInPlace(st, x)
  ELSE ReaderStep(fold, par, st, x)

\* h folds over the sets of numbers up to top, the greatest last.
FoldsTo(fold, par, base, seq, top, h) ==
  h = [s \in SUBSET (1..top) |->
         IF s = {} THEN base ELSE StepOf(fold, par, h[s \ {Max(s)}], seq[Max(s)])]

(* There is a function that folds.                                         *)
LEMMA FoldExists ==
  ASSUME NEW fold, NEW par, NEW base, NEW seq, NEW top \in Nat
  PROVE  \E h : FoldsTo(fold, par, base, seq, top, h)
<1> DEFINE Is(m, h) == FoldsTo(fold, par, base, seq, m, h)
           G == {m \in Nat : \E h : Is(m, h)}
<1>1. 0 \in G
  <2> DEFINE h == [s \in SUBSET (1..0) |-> base]
  <2>1. \A s \in SUBSET (1..0) : s = {}
    OBVIOUS
  <2>2. h = [s \in SUBSET (1..0) |->
              IF s = {} THEN base ELSE StepOf(fold, par, h[s \ {Max(s)}], seq[Max(s)])]
    BY Zenon, <2>1
  <2>3. Is(0, h)
    BY <2>2 DEF FoldsTo
  <2> HIDE DEF h, Is
  <2> QED BY <2>3
<1>2. ASSUME NEW m \in Nat, m \in G PROVE m + 1 \in G
  <2>1. PICK h : Is(m, h)
    <3> HIDE DEF Is
    <3> QED BY <1>2
  <2>2. \A s \in SUBSET (1..m) :
          h[s] = IF s = {} THEN base ELSE StepOf(fold, par, h[s \ {Max(s)}], seq[Max(s)])
    <3>1. h = [s \in SUBSET (1..m) |->
                IF s = {} THEN base ELSE StepOf(fold, par, h[s \ {Max(s)}], seq[Max(s)])]
      BY <2>1 DEF FoldsTo
    <3> QED BY Zenon, <3>1
  <2> DEFINE M == m + 1
             D == SUBSET (1..M)
             E == SUBSET (1..m)
             g == [s \in D |-> IF M \in s THEN StepOf(fold, par, h[s \ {M}], seq[M]) ELSE h[s]]
  <2>3. ASSUME NEW s \in D
        PROVE  /\ s \ {M} \in D /\ s \ {M} \in E
               /\ M \notin s => s \in E
    OBVIOUS
  <2>4. ASSUME NEW s \in D
        PROVE  g[s] = IF s = {} THEN base ELSE StepOf(fold, par, g[s \ {Max(s)}], seq[Max(s)])
    <3>1. CASE M \in s
      <4>1. Max(s) = M
        <5>1. M \in Nat /\ s # {}
          BY <3>1
        <5>2. Max(s) \in s /\ \A x \in s : Max(s) >= x
          <6> HIDE DEF M
          <6> QED BY <5>1, MaxFacts
        <5> DEFINE mx == Max(s)
        <5>3. mx \in 1..M /\ mx >= M
          BY <3>1, <5>2
        <5> HIDE DEF mx
        <5>4. mx = M
          BY <5>3
        <5> QED BY <5>4 DEF mx
      <4>2. g[s] = StepOf(fold, par, h[s \ {M}], seq[M])
        <5> HIDE DEF M, D
        <5> QED BY Zenon, <3>1
      <4>3. g[s \ {M}] = h[s \ {M}]
        <5>1. s \ {M} \in D /\ M \notin s \ {M}
          BY <2>3
        <5> HIDE DEF M, D
        <5> QED BY Zenon, <5>1
      <4>4. s # {}
        BY <3>1
      <4> HIDE DEF g, M, D
      <4> QED BY Zenon, <4>1, <4>2, <4>3, <4>4
    <3>2. CASE M \notin s
      <4>1. s \in E
        BY <2>3, <3>2
      <4>2. g[s] = h[s]
        <5> HIDE DEF M, D
        <5> QED BY Zenon, <3>2
      <4>3. CASE s = {}
        <5> HIDE DEF g, M, D, E
        <5> QED BY Zenon, <2>2, <4>1, <4>2, <4>3 DEF E
      <4>4. CASE s # {}
        <5>1. Max(s) \in s
          BY <4>1, <4>4, MaxFacts
        <5>2. s \ {Max(s)} \in D /\ M \notin s \ {Max(s)}
          BY <3>2
        <5>3. g[s \ {Max(s)}] = h[s \ {Max(s)}]
          <6> HIDE DEF M, D
          <6> QED BY Zenon, <5>2
        <5>4. h[s] = StepOf(fold, par, h[s \ {Max(s)}], seq[Max(s)])
          <6> HIDE DEF M, D, g
          <6> QED BY Zenon, <2>2, <4>1, <4>4
        <5> HIDE DEF g, M, D
        <5> QED BY Zenon, <4>2, <4>4, <5>3, <5>4
      <4> QED BY <4>3, <4>4
    <3> QED BY <3>1, <3>2
  <2>5. g = [s \in D |-> IF s = {} THEN base
                         ELSE StepOf(fold, par, g[s \ {Max(s)}], seq[Max(s)])]
    <3> DEFINE F(s) == IF s = {} THEN base ELSE StepOf(fold, par, g[s \ {Max(s)}], seq[Max(s)])
    <3>1. \A s \in D : g[s] = F(s)
      BY <2>4
    <3>2. g = [s \in D |-> g[s]]
      <4> HIDE DEF D, M
      <4> QED BY Zenon
    <3> HIDE DEF g, D, F
    <3>3. [s \in D |-> g[s]] = [s \in D |-> F(s)]
      BY Zenon, <3>1
    <3>4. g = [s \in D |-> F(s)]
      BY Zenon, <3>2, <3>3
    <3> QED BY Zenon, <3>4 DEF F
  <2>6. Is(m + 1, g)
    <3> HIDE DEF g
    <3> QED BY <2>5 DEF FoldsTo
  <2> HIDE DEF Is, g
  <2> QED BY <2>6
<1>3. top \in G
  <2> HIDE DEF G
  <2> QED BY <1>1, <1>2, Induction
<1> HIDE DEF Is
<1>4. \E h : Is(top, h)
  BY <1>3
<1> QED BY <1>4 DEF Is

\* f goes through a sequence, one element after the other.
Unrolls(fold, par, base, seq, f, end) ==
  /\ DOMAIN f = 0..Len(seq)
  /\ f[0] = base
  /\ \A n \in 1..Len(seq) : f[n] = StepOf(fold, par, f[n - 1], seq[n])
  /\ f[Len(seq)] = end

(* A fold in steps.                                                        *)
LEMMA FoldUnrolls ==
  ASSUME NEW fold, NEW par, NEW base, NEW seq, NEW g,
         Len(seq) \in Nat, FoldsTo(fold, par, base, seq, Len(seq), g)
  PROVE  \E f : Unrolls(fold, par, base, seq, f, g[1..Len(seq)])
<1> DEFINE top == Len(seq)
           f == [k \in 0..top |-> g[1..k]]
<1>1. ASSUME NEW s \in SUBSET (1..top)
      PROVE  g[s] = IF s = {} THEN base
                    ELSE StepOf(fold, par, g[s \ {Max(s)}], seq[Max(s)])
  <2>1. g = [s_ \in SUBSET (1..top) |->
              IF s_ = {} THEN base
              ELSE StepOf(fold, par, g[s_ \ {Max(s_)}], seq[Max(s_)])]
    BY DEF FoldsTo
  <2> HIDE DEF top
  <2> QED BY Zenon, <2>1
<1>2. f[0] = base
  <2>1. 1..0 = {} /\ 0 \in 0..top
    OBVIOUS
  <2>2. f[0] = g[{}]
    <3> HIDE DEF top
    <3> QED BY <2>1
  <2>3. g[{}] = base
    <3> HIDE DEF top
    <3> QED BY Zenon, <1>1
  <2> HIDE DEF f
  <2> QED BY <2>2, <2>3
<1>3. ASSUME NEW n \in 1..top PROVE f[n] = StepOf(fold, par, f[n - 1], seq[n])
  <2> DEFINE k == n - 1
             s == 1..(k + 1)
  <2>1. k \in Nat /\ k + 1 = n /\ k \in 0..top /\ n \in 0..top
    OBVIOUS
  <2>2. Max(s) = k + 1 /\ s \ {k + 1} = 1..k /\ s # {}
    <3> HIDE DEF k
    <3> QED BY <2>1, UpToFacts
  <2>3. f[n] = g[s] /\ f[k] = g[1..k]
    <3> HIDE DEF k, top
    <3> QED BY <2>1
  <2>4. s \in SUBSET (1..top)
    <3>1. top \in Nat
      OBVIOUS
    <3> HIDE DEF k, top
    <3> QED BY <2>1, <3>1
  <2>5. g[s] = IF s = {} THEN base
               ELSE StepOf(fold, par, g[s \ {Max(s)}], seq[Max(s)])
    <3> HIDE DEF s, top
    <3> QED BY <1>1, <2>4
  <2> HIDE DEF k, s, f
  <2> QED BY Zenon, <2>1, <2>2, <2>3, <2>5 DEF k
<1>4. f[top] = g[1..top]
  <2>1. top \in 0..top
    OBVIOUS
  <2> HIDE DEF top
  <2> QED BY <2>1
<1>5. DOMAIN f = 0..top
  OBVIOUS
<1>6. Unrolls(fold, par, base, seq, f, g[1..top])
  <2> HIDE DEF f
  <2> QED BY <1>2, <1>3, <1>4, <1>5 DEF Unrolls
<1> HIDE DEF f
<1> QED BY <1>6

(* The program's folds go through their sequences in such steps.           *)

\* The function that a fold is defined by.
Folding(fold, par, base, seq) ==
  CHOOSE h : h = [s \in SUBSET DOMAIN seq |->
                    IF s = {} THEN base ELSE StepOf(fold, par, h[s \ {Max(s)}], seq[Max(s)])]

(* Any of them unrolls.                                                    *)
LEMMA FoldingUnrolls ==
  ASSUME NEW fold, NEW par, NEW base, NEW seq, Len(seq) \in Nat, DOMAIN seq = 1 .. Len(seq)
  PROVE  \E f : Unrolls(fold, par, base, seq, f, Folding(fold, par, base, seq)[DOMAIN seq])
<1> DEFINE top == Len(seq)
           g == Folding(fold, par, base, seq)
<1>1. PICK h : FoldsTo(fold, par, base, seq, top, h)
  BY FoldExists
<1>2. FoldsTo(fold, par, base, seq, top, g)
  <2> HIDE DEF top
  <2>1. h = [s \in SUBSET DOMAIN seq |->
               IF s = {} THEN base ELSE StepOf(fold, par, h[s \ {Max(s)}], seq[Max(s)])]
    BY Zenon, <1>1 DEF FoldsTo, top
  <2>2. g = [s \in SUBSET DOMAIN seq |->
               IF s = {} THEN base ELSE StepOf(fold, par, g[s \ {Max(s)}], seq[Max(s)])]
    BY Zenon, <2>1 DEF Folding
  <2> HIDE DEF g
  <2> QED BY Zenon, <2>2 DEF FoldsTo, top
<1> HIDE DEF g
<1> QED BY <1>2, FoldUnrolls DEF g

(* A sum. *)
LEMMA TotalFold ==
  ASSUME NEW s
  PROVE  Total(s)
         = Folding("total", 0, 0, s)[DOMAIN s]
  BY DEF Total, FoldLeft, MapThenFoldSet, Folding, StepOf

(* The cost of a string. *)
LEMMA CostFold ==
  ASSUME NEW alpha, NEW s
  PROVE  ZstringCost(alpha, s)
         = Folding("cost", alpha, 0, s)[DOMAIN s]
  BY DEF ZstringCost, FoldLeft, MapThenFoldSet, Folding, StepOf

(* What is picked from a sequence. *)
LEMMA AmongFold ==
  ASSUME NEW s, NEW X
  PROVE  Among(s, X)
         = Folding("among", X, <<>>, s)[DOMAIN s]
  BY DEF Among, FoldLeft, MapThenFoldSet, Folding, StepOf

(* Pushing one after the other. *)
LEMMA PushFold ==
  ASSUME NEW mem, NEW h, NEW s
  PROVE  PushAll(mem, h, s)
         = Folding("push", mem, h, s)[DOMAIN s]
  BY DEF PushAll, FoldLeft, MapThenFoldSet, Folding, StepOf

(* The hash of a key. *)
LEMMA HashFold ==
  ASSUME NEW s
  PROVE  HashBucket(s)
         = Folding("hash", 0, 5381, s)[DOMAIN s]
  BY DEF HashBucket, FoldLeft, MapThenFoldSet, Folding, StepOf

(* The texts in one. *)
LEMMA GeneralFold ==
  ASSUME NEW texts
  PROVE  GeneralizedString(texts)
         = Folding("general", 0, <<>>, texts)[DOMAIN texts]
  BY DEF GeneralizedString, FoldLeft, MapThenFoldSet, Folding, StepOf

\* The places of a sequence.
PlacesOf(s) == [i \in DOMAIN s |-> i]

(* Emptying a heap.                                                        *)
LEMMA DrainFold ==
  ASSUME NEW mem, NEW h
  PROVE  Drained(mem, h)
         = Folding("drain", mem, [heap |-> h, out |-> <<>>], PlacesOf(h))[DOMAIN PlacesOf(h)].out
  BY DEF Drained, DrainStep, FoldLeftDomain, FoldLeft, MapThenFoldSet, Folding, StepOf, PlacesOf

\* The order in which long patterns are looked at.
Longest(mem, long) ==
  LET byLength == [id \in DOMAIN mem |-> [mem[id] EXCEPT !.savings = Len(id)]]
  IN  Drained(byLength, PushAll(byLength, <<>>, long))

(* Dropping what is left of longer patterns.                               *)
LEMMA LongFold ==
  ASSUME NEW mem, NEW long
  PROVE  LongOnes(mem, long)
         = Folding("long", 0, [shorter |-> {}, kept |-> <<>>], Longest(mem, long))[DOMAIN Longest(mem, long)].kept
  BY DEF LongOnes, LongStep, Longest, FoldLeft, MapThenFoldSet, Folding, StepOf

\* The rounds of the suffix array.
Rounds(s) ==
  Folding("doubled", s, [k |-> 4, suffixes |-> FirstSuffixes(s)], PlacesOf(s))[DOMAIN PlacesOf(s)].suffixes

(* The suffix array is what they come to.                                  *)
LEMMA DoubledFold ==
  ASSUME NEW s
  PROVE  SuffixArray(s) = [i \in 0 .. Len(s) - 1 |-> Rounds(s)[i + 1].index]
  BY DEF SuffixArray, Rounds, FoldLeftDomain, FoldLeft, MapThenFoldSet, Folding, StepOf, PlacesOf

(* The tries of a refinement.                                              *)
LEMMA TriesFold ==
  FoldLeftDomain(TryInPlace, Tries, best)
  = Folding("try", 0, Tries, PlacesOf(best))[DOMAIN PlacesOf(best)]
  BY DEF FoldLeftDomain, FoldLeft, MapThenFoldSet, Folding, StepOf, PlacesOf

(* Of the places of patterns that overlap with it.                          *)
LEMMA OverlapFold ==
  FoldLeftDomain(OverlapStep, Tries, best)
  = Folding("overlap", 0, Tries, PlacesOf(best))[DOMAIN PlacesOf(best)]
  BY DEF FoldLeftDomain, FoldLeft, MapThenFoldSet, Folding, StepOf, PlacesOf

(* The parse of a text.                                                    *)
LEMMA ParseFold ==
  ASSUME NEW alpha, NEW text, NEW list, NEW line
  PROVE  ParseLine(alpha, text, list, line)
         = Reverse(Folding("parse", [alpha |-> alpha, text |-> text, list |-> list, line |-> line],
                           <<[cost |-> 0, pick |-> 0]>>, PlacesOf(text))[DOMAIN PlacesOf(text)])
  BY DEF ParseLine, ParseStep, FoldLeftDomain, FoldLeft, MapThenFoldSet, Folding, StepOf, PlacesOf

(* The choice at a place.                                                  *)
LEMMA ChoiceFold ==
  ASSUME NEW alpha, NEW text, NEW list, NEW line, NEW i, NEW behind
  PROVE  Choice(alpha, text, list, line, i, behind)
         = Folding("choice", [list |-> list, line |-> line, i |-> i, behind |-> behind],
                   [cost |-> behind[Len(behind)].cost + ZcharCost(alpha, text[i]), pick |-> 0],
                   PlacesOf(list))[DOMAIN PlacesOf(list)]
  BY DEF Choice, ChoiceStep, FoldLeftDomain, FoldLeft, MapThenFoldSet, Folding, StepOf, PlacesOf

(* The places at which abbreviations are taken.                            *)
LEMMA TakenFold ==
  ASSUME NEW parse, NEW list
  PROVE  Taken(parse, list)
         = Folding("taken", [parse |-> parse, list |-> list], [next |-> 1, taken |-> {}],
                   PlacesOf(parse))[DOMAIN PlacesOf(parse)].taken
  BY DEF Taken, TakenStep, FoldLeftDomain, FoldLeft, MapThenFoldSet, Folding, StepOf, PlacesOf

(* The pieces of a text.                                                   *)
LEMMA PiecesFold ==
  ASSUME NEW text, NEW parse, NEW list
  PROVE  FinishedText(text, parse, list)
         = Folding("pieces", [text |-> text, parse |-> parse, list |-> list], [next |-> 1, pieces |-> <<>>],
                   PlacesOf(text))[DOMAIN PlacesOf(text)].pieces
  BY DEF FinishedText, PieceStep, FoldLeftDomain, FoldLeft, MapThenFoldSet, Folding, StepOf, PlacesOf

(* What routines are filled up with.                                       *)
LEMMA PaddingFold ==
  ASSUME NEW version, NEW texts, NEW parse, NEW sizes
  PROVE  TotalPadding(version, texts, parse, sizes)
         = Folding("padding", [version |-> version, texts |-> texts, parses |-> parse, sizes |-> sizes],
                   [from |-> 1, padding |-> 0], PlacesOf(sizes))[DOMAIN PlacesOf(sizes)].padding
  BY DEF TotalPadding, PaddingStep, FoldLeftDomain, FoldLeft, MapThenFoldSet, Folding, StepOf, PlacesOf

(* The places of a sequence are a sequence.                                *)
LEMMA PlacesFacts ==
  ASSUME NEW S, NEW s \in Seq(S)
  PROVE  /\ PlacesOf(s) \in Seq(Nat) /\ Len(PlacesOf(s)) = Len(s) /\ DOMAIN PlacesOf(s) = 1 .. Len(s)
         /\ Len(s) \in Nat /\ DOMAIN s = 1 .. Len(s) /\ \A i \in 1 .. Len(s) : PlacesOf(s)[i] = i
  BY DEF PlacesOf

----------------------------------------------------------------------------
(* What heaps have.                                                        *)

\* A heap of different patterns in its order.
HeapOk(mem, h) == h \in Seq(DOMAIN mem) /\ Once(h) /\ InHeapOrder(mem, h, 2 .. Len(h))

(* Pushing adds a pattern.                                                 *)
LEMMA PushFacts ==
  ASSUME NEW mem, Keyed(mem), NEW h, HeapOk(mem, h), NEW a \in DOMAIN mem, a \notin Range(h)
  PROVE  /\ HeapOk(mem, Push(mem, h, a)) /\ Range(Push(mem, h, a)) = Range(h) \union {a}
         /\ Len(Push(mem, h, a)) = Len(h) + 1
<1> DEFINE t == Append(h, a)
           u == SiftUp(mem, t)
<1>1. h \in Seq(DOMAIN mem) /\ Once(h) /\ InHeapOrder(mem, h, 2 .. Len(h))
  BY DEF HeapOk
<1>2. /\ t \in Seq(DOMAIN mem) /\ Len(t) = Len(h) + 1 /\ Len(h) \in Nat /\ DOMAIN h = 1 .. Len(h)
      /\ \A i \in DOMAIN h : t[i] = h[i]
      /\ Range(t) = Range(h) \union {a} /\ Once(t)
  BY <1>1, AppendFacts
<1>3. t # <<>>
  BY <1>2
<1> HIDE DEF t
<1>4. InHeapOrder(mem, t, 2 .. Len(t) - 1)
  <2> SUFFICES ASSUME NEW i \in 2 .. Len(h) PROVE ~Above(mem, t[i], t[i \div 2])
    BY <1>2 DEF InHeapOrder
  <2>1. i \in DOMAIN h /\ i \div 2 \in DOMAIN h
    BY <1>2
  <2> QED BY <1>1, <1>2, <2>1 DEF InHeapOrder
<1>5. u \in Seq(DOMAIN mem) /\ SameElements(u, t) /\ InHeapOrder(mem, u, 2 .. Len(t))
  BY <1>2, <1>3, <1>4, SiftUpFacts
<1>6. Push(mem, h, a) = u
  BY DEF Push, t
<1> HIDE DEF u
<1> QED BY <1>2, <1>5, <1>6 DEF SameElements, HeapOk

(* So does pushing all of a list.                                          *)
LEMMA PushAllFacts ==
  ASSUME NEW mem, Keyed(mem), NEW h, HeapOk(mem, h), NEW s \in Seq(DOMAIN mem), Once(s),
         Range(s) \intersect Range(h) = {}
  PROVE  HeapOk(mem, PushAll(mem, h, s)) /\ Range(PushAll(mem, h, s)) = Range(h) \union Range(s)
<1> DEFINE n == Len(s)
           end == PushAll(mem, h, s)
<1>1. n \in Nat /\ DOMAIN s = 1 .. n /\ \A i \in 1 .. n : s[i] \in DOMAIN mem /\ s[i] \notin Range(h)
  BY DEF Range
<1>2. PICK f : Unrolls("push", mem, h, s, f, end)
  BY <1>1, PushFold, FoldingUnrolls
<1> HIDE DEF end
<1>3. f[0] = h /\ f[n] = end /\ \A k \in 1 .. n : f[k] = Push(mem, f[k - 1], s[k])
  BY <1>2 DEF Unrolls, StepOf
<1> HIDE DEF n
<1> DEFINE G == {k \in Nat : k <= n => /\ HeapOk(mem, f[k])
                                       /\ Range(f[k]) = Range(h) \union {s[i] : i \in 1 .. k}}
<1>4. 0 \in G
  BY <1>3
<1>5. ASSUME NEW k \in Nat, k \in G PROVE k + 1 \in G
  <2> SUFFICES ASSUME k + 1 <= n
               PROVE  /\ HeapOk(mem, f[k + 1])
                      /\ Range(f[k + 1]) = Range(h) \union {s[i] : i \in 1 .. k + 1}
    OBVIOUS
  <2>1. HeapOk(mem, f[k]) /\ Range(f[k]) = Range(h) \union {s[i] : i \in 1 .. k}
    BY <1>1, <1>5
  <2>2. k + 1 \in 1 .. n /\ (k + 1) - 1 = k /\ \A i \in 1 .. k : i \in 1 .. n /\ i # k + 1
    BY <1>1
  <2>3. f[k + 1] = Push(mem, f[k], s[k + 1])
    BY <1>3, <2>2
  <2>4. s[k + 1] \in DOMAIN mem /\ s[k + 1] \notin Range(f[k])
    BY <1>1, <2>1, <2>2 DEF Once
  <2>5. HeapOk(mem, f[k + 1]) /\ Range(f[k + 1]) = Range(f[k]) \union {s[k + 1]}
    BY <2>1, <2>3, <2>4, PushFacts
  <2>6. {s[i] : i \in 1 .. k + 1} = {s[i] : i \in 1 .. k} \union {s[k + 1]}
    <3>1. 1 .. k + 1 = (1 .. k) \union {k + 1}
      OBVIOUS
    <3> QED BY <3>1
  <2> QED BY <2>1, <2>5, <2>6
<1>6. \A k \in Nat : k \in G
  <2> HIDE DEF G
  <2> QED BY <1>4, <1>5, Induction
<1>7. HeapOk(mem, f[n]) /\ Range(f[n]) = Range(h) \union {s[i] : i \in 1 .. n}
  <2>1. n \in G
    BY <1>1, <1>6
  <2> QED BY <1>1, <2>1
<1>8. Range(s) = {s[i] : i \in 1 .. n}
  BY <1>1 DEF Range
<1> QED BY <1>3, <1>7, <1>8 DEF end

(* Popping takes the top away.                                             *)
LEMMA PoppedFacts ==
  ASSUME NEW mem, Keyed(mem), NEW h, HeapOk(mem, h), h # <<>>
  PROVE  /\ HeapOk(mem, Popped(mem, h)) /\ Range(Popped(mem, h)) = Range(h) \ {Peek(h)}
         /\ Len(Popped(mem, h)) = Len(h) - 1 /\ Peek(h) \in Range(h)
<1>1. PICK n \in Nat : n = Len(h) /\ n >= 1 /\ DOMAIN h = 1 .. n /\ \A i \in 1 .. n : h[i] \in DOMAIN mem
  <2>1. h \in Seq(DOMAIN mem)
    BY DEF HeapOk
  <2> QED BY <2>1
<1>2. h \in Seq(DOMAIN mem) /\ Once(h) /\ InHeapOrder(mem, h, 2 .. n)
  BY <1>1 DEF HeapOk
<1>3. Peek(h) = h[1] /\ Peek(h) \in Range(h)
  BY <1>1 DEF Peek, Range
<1>4. CASE n = 1
  <2>1. Popped(mem, h) = <<>>
    <3>1. Popped(mem, h) = SiftDown(mem, <<>>)
      BY <1>1, <1>4 DEF Popped
    <3> QED BY <3>1 DEF SiftDown
  <2>2. Range(h) = {h[1]}
    BY <1>1, <1>4 DEF Range
  <2>3. HeapOk(mem, <<>>) /\ Range(<<>>) = {} /\ Len(<<>>) = 0
    BY DEF HeapOk, InHeapOrder, Once, Range
  <2> QED BY <1>1, <1>3, <1>4, <2>1, <2>2, <2>3
<1>5. CASE n > 1
  <2> DEFINE t == <<Last(h)>> \o SubSeq(h, 2, n - 1)
             u == SiftDown(mem, t)
             mid == SubSeq(h, 2, n - 1)
  <2>1. /\ mid \in Seq(DOMAIN mem) /\ Len(mid) = n - 2 /\ DOMAIN mid = 1 .. n - 2
        /\ \A i \in DOMAIN mid : i + 1 \in DOMAIN h /\ mid[i] = h[i + 1]
    <3>1. /\ mid \in Seq(DOMAIN mem) /\ Len(mid) = (n - 1) - 2 + 1 /\ DOMAIN mid = 1 .. (n - 1) - 2 + 1
          /\ \A i \in DOMAIN mid : 2 - 1 + i \in DOMAIN h /\ mid[i] = h[2 - 1 + i]
      <4>1. 2 \in Nat \ {0} /\ n - 1 \in Nat /\ n - 1 <= Len(h) /\ 2 <= (n - 1) + 1
        BY <1>1, <1>5
      <4> QED BY <1>2, <4>1, SubSeqFacts
    <3>2. (n - 1) - 2 + 1 = n - 2 /\ \A i \in Nat : 2 - 1 + i = i + 1
      OBVIOUS
    <3> QED BY <3>1, <3>2
  <2> HIDE DEF mid
  <2>2. Last(h) = h[n] /\ <<h[n]>> \in Seq(DOMAIN mem) /\ Len(<<h[n]>>) = 1 /\ DOMAIN <<h[n]>> = {1} /\ <<h[n]>>[1] = h[n]
    BY <1>1 DEF Last
  <2>3. t = <<h[n]>> \o mid
    BY <2>2 DEF mid
  <2> HIDE DEF t
  <2>4. t \in Seq(DOMAIN mem) /\ Len(t) = n - 1 /\ DOMAIN t = 1 .. n - 1
    <3>1. t \in Seq(DOMAIN mem) /\ Len(t) = 1 + (n - 2)
      BY <2>1, <2>2, <2>3
    <3> QED BY <1>1, <1>5, <3>1
  <2>5. t[1] = h[n] /\ \A i \in 2 .. n - 1 : t[i] = h[i]
    <3>1. t[1] = h[n]
      BY <2>2, <2>3, <2>1, ConcatFacts
    <3>2. ASSUME NEW i \in 2 .. n - 1 PROVE t[i] = h[i]
      <4>1. i - 1 \in DOMAIN mid /\ 1 + (i - 1) = i /\ (i - 1) + 1 = i
        BY <2>1
      <4>2. t[1 + (i - 1)] = mid[i - 1]
        BY <2>1, <2>2, <2>3, <4>1, ConcatFacts
      <4> QED BY <2>1, <4>1, <4>2
    <3> QED BY <3>1, <3>2
  <2>6. InHeapOrder(mem, t, 4 .. Len(t))
    <3> SUFFICES ASSUME NEW i \in 4 .. n - 1 PROVE ~Above(mem, t[i], t[i \div 2])
      BY <2>4 DEF InHeapOrder
    <3>1. i \in 2 .. n /\ i \in 2 .. n - 1 /\ i \div 2 \in 2 .. n - 1
      OBVIOUS
    <3> QED BY <1>2, <2>5, <3>1 DEF InHeapOrder
  <2>7. Once(t)
    <3> SUFFICES ASSUME NEW i \in 1 .. n - 1, NEW j \in 1 .. n - 1, t[i] = t[j] PROVE i = j
      BY <2>4 DEF Once
    <3>1. n \in 1 .. n /\ i \in 1 .. n /\ j \in 1 .. n /\ i # n /\ j # n
      BY <1>1
    <3>2. \A k \in 1 .. n - 1 : k # 1 => k \in 2 .. n - 1
      OBVIOUS
    <3> QED BY <1>1, <1>2, <2>5, <3>1, <3>2 DEF Once
  <2>8. Range(t) = Range(h) \ {h[1]}
    <3>1. ASSUME NEW x \in Range(t) PROVE x \in Range(h) /\ x # h[1]
      <4>1. PICK i \in 1 .. n - 1 : x = t[i]
        BY <2>4 DEF Range
      <4>2. PICK j \in 1 .. n : x = h[j] /\ j # 1
        <5>1. n \in 1 .. n /\ n # 1 /\ (i # 1 => i \in 2 .. n - 1 /\ i \in 1 .. n)
          BY <1>5
        <5> QED BY <2>5, <4>1, <5>1
      <4>3. 1 \in 1 .. n
        BY <1>1
      <4> QED BY <1>1, <1>2, <4>2, <4>3 DEF Range, Once
    <3>2. ASSUME NEW x \in Range(h), x # h[1] PROVE x \in Range(t)
      <4>1. PICK j \in 1 .. n : x = h[j] /\ j # 1
        BY <1>1, <3>2 DEF Range
      <4>2. PICK i \in 1 .. n - 1 : x = t[i]
        <5>1. 1 \in 1 .. n - 1 /\ (j # n => j \in 2 .. n - 1 /\ j \in 1 .. n - 1)
          BY <1>5, <4>1
        <5> QED BY <2>5, <4>1, <5>1
      <4> QED BY <2>4, <4>2 DEF Range
    <3> QED BY <3>1, <3>2
  <2>9. t # <<>>
    BY <1>5, <2>4
  <2>10. u \in Seq(DOMAIN mem) /\ SameElements(u, t) /\ InHeapOrder(mem, u, 2 .. Len(t))
    BY <2>4, <2>6, <2>9, SiftDownFacts
  <2>11. Popped(mem, h) = u
    BY <1>1, <1>5 DEF Popped, t
  <2> HIDE DEF u
  <2> QED BY <1>1, <1>3, <2>4, <2>7, <2>8, <2>10, <2>11 DEF SameElements, HeapOk
<1> QED BY <1>1, <1>4, <1>5

(* A heap stays one as long as the patterns in it do not change.           *)
LEMMA HeapOkElsewhere ==
  ASSUME NEW mem, NEW new, NEW h, HeapOk(mem, h), DOMAIN mem = DOMAIN new,
         \A p \in Range(h) : new[p].key = mem[p].key /\ new[p].savings = mem[p].savings
  PROVE  HeapOk(new, h)
<1>1. h \in Seq(DOMAIN mem) /\ DOMAIN h = 1 .. Len(h) /\ Len(h) \in Nat
  BY DEF HeapOk
<1>2. ASSUME NEW i \in 2 .. Len(h) PROVE ~Above(new, h[i], h[i \div 2])
  <2>1. i \in 1 .. Len(h) /\ i \div 2 \in 1 .. Len(h)
    OBVIOUS
  <2>2. ~Above(mem, h[i], h[i \div 2])
    BY DEF HeapOk, InHeapOrder
  <2>3. h[i] \in Range(h) /\ h[i \div 2] \in Range(h)
    BY <1>1, <2>1 DEF Range
  <2> QED BY <2>2, <2>3 DEF Above
<1> QED BY <1>1, <1>2 DEF HeapOk, InHeapOrder

(* The top of a heap is not below any of it.                               *)
LEMMA PeekGreatest ==
  ASSUME NEW mem, Keyed(mem), NEW h, HeapOk(mem, h), NEW i \in DOMAIN h
  PROVE  ~Above(mem, h[i], Peek(h))
<1>1. PICK n \in Nat : n = Len(h) /\ DOMAIN h = 1 .. n /\ \A k \in 1 .. n : h[k] \in DOMAIN mem
  <2>1. h \in Seq(DOMAIN mem)
    BY DEF HeapOk
  <2> QED BY <2>1
<1> DEFINE G == {m \in Nat : \A k \in 1 .. n : k <= m => ~Above(mem, h[k], h[1])}
<1>2. 0 \in G
  OBVIOUS
<1>3. ASSUME NEW m \in Nat, m \in G PROVE m + 1 \in G
  <2> SUFFICES ASSUME NEW k \in 1 .. n, k = m + 1 PROVE ~Above(mem, h[k], h[1])
    BY <1>3
  <2>1. CASE k = 1
    BY <1>1, <2>1, AboveOrder
  <2>2. CASE k > 1
    <3>1. k \div 2 \in 1 .. n /\ k \div 2 <= m /\ k \in 2 .. n /\ 1 \in 1 .. n
      BY <2>2
    <3>2. ~Above(mem, h[k \div 2], h[1]) /\ ~Above(mem, h[k], h[k \div 2])
      BY <1>1, <1>3, <3>1 DEF HeapOk, InHeapOrder
    <3> QED BY <1>1, <3>1, <3>2, AboveOrder
  <2> QED BY <2>1, <2>2
<1>4. \A m \in Nat : m \in G
  <2> HIDE DEF G
  <2> QED BY <1>2, <1>3, Induction
<1>5. i \in 1 .. n /\ i \in Nat /\ i <= i
  BY <1>1
<1>6. i \in G
  BY <1>4, <1>5
<1> QED BY <1>5, <1>6 DEF Peek

(* Induction up to a bound.                                                *)
LEMMA BoundedInduction ==
  ASSUME NEW n \in Nat, NEW G, 0 \in G, \A k \in 1 .. n : k - 1 \in G => k \in G
  PROVE  \A k \in 0 .. n : k \in G
<1> DEFINE H == {k \in Nat : k <= n => k \in G}
<1>1. 0 \in H
  OBVIOUS
<1>2. ASSUME NEW k \in Nat, k \in H PROVE k + 1 \in H
  <2>1. k + 1 <= n => k + 1 \in 1 .. n /\ (k + 1) - 1 = k /\ k <= n
    OBVIOUS
  <2> QED BY <1>2, <2>1
<1>3. \A k \in Nat : k \in H
  <2> HIDE DEF H
  <2> QED BY <1>1, <1>2, Induction
<1> QED BY <1>3

(* What Among picks.                                                       *)
LEMMA AmongFacts ==
  ASSUME NEW S, NEW s \in Seq(S), NEW X
  PROVE  /\ Among(s, X) \in Seq(S)
         /\ Range(Among(s, X)) = Range(s) \intersect X
         /\ Once(s) => Once(Among(s, X))
         /\ Len(Among(s, X)) <= Len(s)
<1>1. PICK n \in Nat : n = Len(s) /\ DOMAIN s = 1 .. n /\ \A i \in 1 .. n : s[i] \in S
  OBVIOUS
<1> DEFINE end == Among(s, X)
<1>2. PICK f : Unrolls("among", X, <<>>, s, f, end)
  BY <1>1, AmongFold, FoldingUnrolls
<1> HIDE DEF end
<1>3. /\ f[0] = <<>> /\ f[n] = end
      /\ \A k \in 1 .. n : f[k] = IF s[k] \in X THEN Append(f[k - 1], s[k]) ELSE f[k - 1]
  BY <1>1, <1>2 DEF Unrolls, StepOf
<1> DEFINE P(k) == /\ f[k] \in Seq(S)
                   /\ Range(f[k]) = {s[i] : i \in 1 .. k} \intersect X
                   /\ Once(s) => Once(f[k])
                   /\ Len(f[k]) <= k
           G == {k \in 0 .. n : P(k)}
<1>4. 0 \in G
  <2>1. P(0)
    <3>1. <<>> \in Seq(S) /\ Range(<<>>) = {} /\ Once(<<>>) /\ Len(<<>>) = 0 /\ 1 .. 0 = {}
      BY DEF Range, Once
    <3> QED BY <1>3, <3>1
  <2> QED BY <2>1
<1>5. ASSUME NEW k \in 1 .. n, k - 1 \in G PROVE k \in G
  <2>1. f[k - 1] \in Seq(S) /\ Range(f[k - 1]) = {s[i] : i \in 1 .. (k - 1)} \intersect X
        /\ (Once(s) => Once(f[k - 1])) /\ Len(f[k - 1]) <= k - 1
    BY <1>5
  <2>2. {s[i] : i \in 1 .. k} = {s[i] : i \in 1 .. (k - 1)} \union {s[k]}
    <3>1. 1 .. k = (1 .. (k - 1)) \union {k}
      OBVIOUS
    <3> QED BY <3>1
  <2>3. CASE s[k] \in X
    <3>1. f[k] = Append(f[k - 1], s[k]) /\ s[k] \in S
      BY <1>1, <1>3, <2>3
    <3>2. Once(s) => s[k] \notin Range(f[k - 1])
      <4>1. k \in 1 .. n /\ \A i \in 1 .. (k - 1) : i \in 1 .. n /\ i # k
        OBVIOUS
      <4> QED BY <1>1, <2>1, <4>1 DEF Once
    <3>3. f[k] \in Seq(S) /\ Range(f[k]) = Range(f[k - 1]) \union {s[k]} /\ Len(f[k]) = Len(f[k - 1]) + 1
          /\ (Once(f[k - 1]) /\ s[k] \notin Range(f[k - 1]) => Once(f[k])) /\ Len(f[k - 1]) \in Nat
      BY <2>1, <3>1, AppendFacts
    <3>4. Range(f[k]) = {s[i] : i \in 1 .. k} \intersect X
      BY <2>1, <2>2, <2>3, <3>3
    <3> QED BY <2>1, <3>2, <3>3, <3>4
  <2>4. CASE s[k] \notin X
    <3>1. f[k] = f[k - 1]
      BY <1>3, <2>4
    <3>2. Range(f[k]) = {s[i] : i \in 1 .. k} \intersect X
      BY <2>1, <2>2, <2>4, <3>1
    <3>3. Len(f[k]) <= k
      <4>1. Len(f[k - 1]) \in Nat /\ Len(f[k - 1]) <= k - 1
        BY <2>1
      <4> QED BY <3>1, <4>1
    <3> QED BY <2>1, <3>1, <3>2, <3>3
  <2> QED BY <2>3, <2>4
<1>6. n \in G
  <2> HIDE DEF G
  <2>1. \A k \in 0 .. n : k \in G
    BY <1>4, <1>5, BoundedInduction
  <2> QED BY <2>1
<1>7. Range(s) = {s[i] : i \in 1 .. n}
  BY <1>1 DEF Range
<1> QED BY <1>1, <1>3, <1>6, <1>7 DEF end

(* What comes out of a heap is what was in it.                             *)
LEMMA DrainedFacts ==
  ASSUME NEW mem, Keyed(mem), NEW h, HeapOk(mem, h)
  PROVE  /\ Drained(mem, h) \in Seq(DOMAIN mem) /\ Once(Drained(mem, h))
         /\ Range(Drained(mem, h)) = Range(h)
<1>1. PICK n \in Nat : n = Len(h) /\ h \in Seq(DOMAIN mem) /\ Once(h)
  <2>1. h \in Seq(DOMAIN mem) /\ Once(h)
    BY DEF HeapOk
  <2> QED BY <2>1
<1>2. PICK seq : seq = PlacesOf(h) /\ Len(seq) = n /\ DOMAIN seq = 1 .. n
  BY <1>1, PlacesFacts
<1>3. PICK end : end = Folding("drain", mem, [heap |-> h, out |-> <<>>], seq)[DOMAIN seq]
                 /\ Drained(mem, h) = end.out
  BY <1>2, DrainFold
<1>4. PICK f : Unrolls("drain", mem, [heap |-> h, out |-> <<>>], seq, f, end)
  <2>1. Len(seq) \in Nat /\ DOMAIN seq = 1 .. Len(seq)
    BY <1>2
  <2> QED BY <1>3, <2>1, FoldingUnrolls
<1>5. /\ f[0] = [heap |-> h, out |-> <<>>] /\ f[n] = end
      /\ \A k \in 1 .. n : /\ f[k].heap = Popped(mem, f[k - 1].heap)
                           /\ f[k].out = Append(f[k - 1].out, Peek(f[k - 1].heap))
  <2>1. /\ f[0] = [heap |-> h, out |-> <<>>] /\ f[n] = end
        /\ \A k \in 1 .. n : f[k] = DrainStep(mem, f[k - 1])
    BY <1>2, <1>4, Zenon DEF Unrolls, StepOf
  <2>2. \A st : /\ DrainStep(mem, st).heap = Popped(mem, st.heap)
                /\ DrainStep(mem, st).out = Append(st.out, Peek(st.heap))
    BY DEF DrainStep
  <2> QED BY <2>1, <2>2, Zenon
<1> DEFINE P(k) == /\ HeapOk(mem, f[k].heap) /\ Len(f[k].heap) = n - k
                   /\ f[k].out \in Seq(DOMAIN mem) /\ Once(f[k].out)
                   /\ Range(f[k].out) \union Range(f[k].heap) = Range(h)
                   /\ Range(f[k].out) \intersect Range(f[k].heap) = {}
           G == {k \in 0 .. n : P(k)}
<1>6. 0 \in G
  <2>1. P(0)
    <3>1. f[0].heap = h /\ f[0].out = <<>>
      BY <1>5
    <3>2. <<>> \in Seq(DOMAIN mem) /\ Range(<<>>) = {} /\ Once(<<>>)
      BY DEF Range, Once
    <3> QED BY <1>1, <3>1, <3>2
  <2> QED BY <2>1
<1>7. ASSUME NEW k \in 1 .. n, k - 1 \in G PROVE k \in G
  <2>1. PICK a, b, c, d : a = f[k - 1].heap /\ b = f[k - 1].out /\ c = f[k].heap /\ d = f[k].out
    OBVIOUS
  <2>2. /\ HeapOk(mem, a) /\ Len(a) = n - (k - 1) /\ b \in Seq(DOMAIN mem) /\ Once(b)
        /\ Range(b) \union Range(a) = Range(h) /\ Range(b) \intersect Range(a) = {}
    BY <1>7, <2>1
  <2>3. a # <<>>
    BY <2>2
  <2>4. c = Popped(mem, a) /\ d = Append(b, Peek(a))
    BY <1>5, <2>1
  <2>5. /\ HeapOk(mem, c) /\ Range(c) = Range(a) \ {Peek(a)}
        /\ Len(c) = Len(a) - 1 /\ Peek(a) \in Range(a)
    BY <2>2, <2>3, <2>4, PoppedFacts
  <2>6. Peek(a) \in DOMAIN mem
    BY <2>2, <2>5, SeqFacts DEF HeapOk
  <2>7. d \in Seq(DOMAIN mem) /\ Range(d) = Range(b) \union {Peek(a)} /\ Once(d)
    BY <2>2, <2>4, <2>5, <2>6, AppendFacts
  <2>8. P(k)
    BY <2>1, <2>2, <2>5, <2>7
  <2> QED BY <2>8
<1>8. n \in G
  <2> HIDE DEF G
  <2>1. \A k \in 0 .. n : k \in G
    BY <1>6, <1>7, BoundedInduction
  <2> QED BY <2>1
<1>9. PICK a : a = f[n].heap /\ HeapOk(mem, a) /\ Len(a) = 0
  BY <1>8
<1>10. Range(a) = {}
  <2>1. a = <<>>
    BY <1>9 DEF HeapOk
  <2> QED BY <2>1 DEF Range
<1> QED BY <1>3, <1>5, <1>8, <1>9, <1>10

\* What is below each element in a strict total order.
TotalOrder(S, below) ==
  \A x \in S, y \in S :
    /\ below[x] \subseteq S /\ x \notin below[x]
    /\ x \in below[y] => below[x] \subseteq below[y]
    /\ x = y \/ x \in below[y] \/ y \in below[x]

(* The numbers of those below number a finite set.                         *)
LEMMA RankFacts ==
  ASSUME NEW S, IsFiniteSet(S), NEW below, TotalOrder(S, below),
         NEW rank, rank = [x \in S |-> Cardinality(below[x])]
  PROVE  /\ Cardinality(S) \in Nat
         /\ \A x \in S : rank[x] \in 0 .. Cardinality(S) - 1
         /\ \A x \in S, y \in S : rank[x] = rank[y] => x = y
         /\ \A i \in 0 .. Cardinality(S) - 1 : \E x \in S : rank[x] = i
<1>1. PICK n \in Nat : n = Cardinality(S)
  BY FS_CardinalityType
<1>2. ASSUME NEW x \in S PROVE rank[x] \in 0 .. n - 1
  <2>1. below[x] \in SUBSET (S \ {x}) /\ rank[x] = Cardinality(below[x])
    BY DEF TotalOrder
  <2>2. IsFiniteSet(S \ {x}) /\ Cardinality(S \ {x}) = n - 1
    BY <1>1, FS_RemoveElement
  <2>3. IsFiniteSet(below[x]) /\ Cardinality(below[x]) <= n - 1
    BY <2>1, <2>2, FS_Subset
  <2>4. Cardinality(below[x]) \in Nat
    BY <2>3, FS_CardinalityType
  <2> QED BY <2>1, <2>3, <2>4
<1>3. ASSUME NEW x \in S, NEW y \in S, x \in below[y] PROVE rank[x] # rank[y]
  <2>1. below[x] \in SUBSET below[y] /\ below[x] # below[y] /\ below[y] \in SUBSET S
    BY <1>3 DEF TotalOrder
  <2>2. IsFiniteSet(below[y])
    BY <2>1, FS_Subset
  <2>3. Cardinality(below[x]) # Cardinality(below[y])
    BY <2>1, <2>2, FS_Subset
  <2> QED BY <2>3
<1>4. ASSUME NEW x \in S, NEW y \in S, rank[x] = rank[y] PROVE x = y
  <2>1. x \notin below[y] /\ y \notin below[x]
    BY <1>3, <1>4
  <2> QED BY <2>1 DEF TotalOrder
<1>5. rank \in Injection(S, 0 .. n - 1)
  <2>1. rank = [x \in S |-> rank[x]] /\ DOMAIN rank = S
    OBVIOUS
  <2>2. rank \in [S -> 0 .. n - 1]
    BY <1>2, <2>1
  <2> QED BY <1>4, <2>2 DEF Injection, IsInjective
<1>6. IsFiniteSet(0 .. n - 1) /\ Cardinality(0 .. n - 1) = n
  BY FS_Interval
<1>7. rank \in Surjection(S, 0 .. n - 1)
  BY <1>1, <1>5, <1>6, FS_Injection
<1> QED BY <1>1, <1>2, <1>4, <1>7 DEF Surjection

\* A set in the order of its ranks.
InRankOrder(S, rank, s) ==
  s = <<>> \o [i \in 1 .. Cardinality(S) |-> CHOOSE x \in S : rank[x] = i - 1]

(* Each element of a finite set is once in its order.                      *)
LEMMA OrderedFacts ==
  ASSUME NEW S, IsFiniteSet(S), NEW below, TotalOrder(S, below),
         NEW rank, rank = [x \in S |-> Cardinality(below[x])],
         NEW s, InRankOrder(S, rank, s)
  PROVE  /\ s \in Seq(S) /\ Len(s) = Cardinality(S) /\ Once(s) /\ Range(s) = S
         /\ Cardinality(S) \in Nat
         /\ \A i \in DOMAIN s : rank[s[i]] = i - 1
<1>1. PICK n \in Nat : n = Cardinality(S)
  BY FS_CardinalityType
<1>2. /\ \A x \in S : rank[x] \in 0 .. n - 1
      /\ \A x \in S, y \in S : rank[x] = rank[y] => x = y
      /\ \A i \in 0 .. n - 1 : \E x \in S : rank[x] = i
  BY <1>1, RankFacts
<1> DEFINE t == [i \in 1 .. n |-> CHOOSE x \in S : rank[x] = i - 1]
<1>3. ASSUME NEW i \in 1 .. n PROVE t[i] \in S /\ rank[t[i]] = i - 1
  <2>1. i - 1 \in 0 .. n - 1
    OBVIOUS
  <2>2. PICK k : k = i - 1 /\ k \in 0 .. n - 1
    BY <2>1
  <2>3. t[i] = CHOOSE x \in S : rank[x] = k
    BY <2>2
  <2> HIDE DEF t
  <2>4. \E x \in S : rank[x] = k
    BY <1>2, <2>2
  <2> QED BY <2>2, <2>3, <2>4
<1>4. t \in [1 .. n -> S]
  <2>1. t = [i \in 1 .. n |-> t[i]]
    OBVIOUS
  <2> HIDE DEF t
  <2> QED BY <1>3, <2>1
<1>5. s = <<>> \o t
  BY <1>1 DEF InRankOrder
<1> HIDE DEF t
<1>6. t \in Seq(S) /\ Len(t) = n /\ DOMAIN t = 1 .. n
  BY <1>4, FunctionIsSeq
<1>7. s \in Seq(S) /\ Len(s) = n /\ DOMAIN s = 1 .. n /\ \A i \in 1 .. n : s[i] = t[i]
  <2>1. PICK e : e = <<>> /\ e \in Seq(S) /\ Len(e) = 0
    <3>1. <<>> \in Seq(S) /\ Len(<<>>) = 0
      OBVIOUS
    <3> QED BY <3>1, Zenon
  <2>2. s = e \o t
    BY <1>5, <2>1
  <2>3. /\ s \in Seq(S) /\ Len(s) = 0 + n /\ DOMAIN s = 1 .. 0 + n
        /\ \A i \in 1 .. n : s[0 + i] = t[i]
    BY <1>6, <2>1, <2>2, ConcatFacts
  <2> QED BY <2>3
<1>8. Once(s)
  <2> SUFFICES ASSUME NEW i \in 1 .. n, NEW j \in 1 .. n, s[i] = s[j] PROVE i = j
    BY <1>7 DEF Once
  <2>1. i - 1 = j - 1
    BY <1>3, <1>7
  <2> QED BY <2>1
<1>9. Range(s) = S
  <2>1. ASSUME NEW x \in S PROVE x \in Range(s)
    <3>1. rank[x] + 1 \in 1 .. n /\ (rank[x] + 1) - 1 = rank[x]
      BY <1>2
    <3>2. s[rank[x] + 1] \in S /\ rank[s[rank[x] + 1]] = rank[x]
      BY <1>3, <1>7, <3>1
    <3>3. s[rank[x] + 1] = x
      BY <1>2, <3>2
    <3> QED BY <1>7, <3>1, <3>3 DEF Range
  <2>2. Range(s) \subseteq S
    BY <1>7, SeqFacts
  <2> QED BY <2>1, <2>2
<1> QED BY <1>1, <1>3, <1>7, <1>8, <1>9

(* The bucket of a key is a number.                                        *)
LEMMA HashFacts ==
  ASSUME NEW s \in Seq(Int)
  PROVE  HashBucket(s) \in Int
<1>1. PICK n \in Nat : n = Len(s) /\ DOMAIN s = 1 .. n /\ \A i \in 1 .. n : s[i] \in Int
  OBVIOUS
<1> DEFINE end == HashBucket(s)
<1>2. PICK f : Unrolls("hash", 0, 5381, s, f, end)
  BY <1>1, HashFold, FoldingUnrolls
<1> HIDE DEF end
<1>3. /\ f[0] = 5381 /\ f[n] = end
      /\ \A k \in 1 .. n : f[k] = (33 * f[k - 1] + s[k]) % Buckets
  BY <1>1, <1>2 DEF Unrolls, StepOf
<1> DEFINE G == {k \in 0 .. n : f[k] \in Int}
<1>4. 0 \in G
  BY <1>3
<1>5. ASSUME NEW k \in 1 .. n, k - 1 \in G PROVE k \in G
  <2>1. Buckets \in Nat \ {0}
    BY DEF Buckets
  <2>2. f[k - 1] \in Int /\ s[k] \in Int /\ f[k] = (33 * f[k - 1] + s[k]) % Buckets
    BY <1>1, <1>3, <1>5
  <2>3. PICK a \in Int : a = 33 * f[k - 1] + s[k]
    BY <2>2
  <2>4. a % Buckets \in Int
    BY <2>1
  <2> QED BY <2>2, <2>3, <2>4
<1>6. n \in G
  <2> HIDE DEF G
  <2>1. \A k \in 0 .. n : k \in G
    BY <1>4, <1>5, BoundedInduction
  <2> QED BY <2>1
<1> QED BY <1>3, <1>6 DEF end

(* Each key is once in the table.                                          *)
LEMMA TableFacts ==
  ASSUME NEW S \in SUBSET Seq(Int), IsFiniteSet(S)
  PROVE  InTableOrder(S) \in Seq(S) /\ Once(InTableOrder(S)) /\ Range(InTableOrder(S)) = S
<1> DEFINE Before(s, t) == \/ HashBucket(s) < HashBucket(t)
                           \/ HashBucket(s) = HashBucket(t) /\ StringBefore(t, s)
           below == [x \in S |-> {y \in S : Before(y, x)}]
           rank == [x \in S |-> Cardinality({y \in S : Before(y, x)})]
           order == <<>> \o [i \in 1 .. Cardinality(S) |-> CHOOSE x \in S : rank[x] = i - 1]
<1>1. InTableOrder(S) = order
  BY DEF InTableOrder, Ordered
<1>2. rank = [x \in S |-> Cardinality(below[x])]
  <2>1. \A x \in S : rank[x] = Cardinality(below[x])
    BY Zenon
  <2>2. rank = [x \in S |-> rank[x]]
    OBVIOUS
  <2> HIDE DEF below, rank
  <2> QED BY <2>1, <2>2
<1>3. \A x \in S, y \in S : y \in below[x] <=> Before(y, x)
  OBVIOUS
<1>4. \A x \in S : below[x] \subseteq S
  OBVIOUS
<1> HIDE DEF below, rank
<1>5. TotalOrder(S, below)
  <2>1. ASSUME NEW x \in S, NEW y \in S, NEW z \in S
        PROVE  /\ ~Before(x, x)
               /\ Before(x, y) /\ Before(z, x) => Before(z, y)
               /\ x = y \/ Before(x, y) \/ Before(y, x)
    <3>1. HashBucket(x) \in Int /\ HashBucket(y) \in Int /\ HashBucket(z) \in Int
      BY HashFacts
    <3>2. /\ ~StringBefore(x, x)
          /\ StringBefore(y, x) /\ StringBefore(x, z) => StringBefore(y, z)
          /\ x = y \/ StringBefore(x, y) \/ StringBefore(y, x)
      <4>1. x \in Seq(Int) /\ y \in Seq(Int) /\ z \in Seq(Int)
        OBVIOUS
      <4> QED BY <4>1, KeyOrder
    <3> QED BY <3>1, <3>2
  <2> HIDE DEF Before
  <2>2. ASSUME NEW x \in S, NEW y \in S, x \in below[y], NEW z \in below[x] PROVE z \in below[y]
    <3>1. z \in S
      BY <1>4
    <3> QED BY <1>3, <2>1, <2>2, <3>1
  <2> QED BY <1>3, <1>4, <2>1, <2>2 DEF TotalOrder
<1>6. InRankOrder(S, rank, order)
  BY DEF InRankOrder
<1> HIDE DEF order
<1>7. order \in Seq(S) /\ Once(order) /\ Range(order) = S
  BY <1>2, <1>5, <1>6, OrderedFacts
<1> QED BY <1>1, <1>7

(* The empty heap.                                                         *)
LEMMA EmptyHeap ==
  ASSUME NEW mem
  PROVE  HeapOk(mem, <<>>) /\ Range(<<>>) = {} /\ Once(<<>>) /\ <<>> \in Seq(DOMAIN mem)
  BY DEF HeapOk, InHeapOrder, Once, Range

\* What patterns are when they are found.
Named(mem) ==
  \A p \in DOMAIN mem :
    /\ p \in Seq(Int) /\ p # <<>>
    /\ mem[p].key \in Seq(Int) /\ mem[p].savings \in Int
    /\ {"key", "savings"} \subseteq DOMAIN mem[p]

(* The order of long patterns has each once.                               *)
LEMMA LongestFacts ==
  ASSUME NEW mem, Named(mem), NEW long \in Seq(DOMAIN mem), Once(long)
  PROVE  Longest(mem, long) \in Seq(DOMAIN mem) /\ Once(Longest(mem, long))
         /\ Range(Longest(mem, long)) = Range(long)
<1> DEFINE byLength == [id \in DOMAIN mem |-> [mem[id] EXCEPT !.savings = Len(id)]]
           h == PushAll(byLength, <<>>, long)
<1>1. Keyed(byLength) /\ DOMAIN byLength = DOMAIN mem
  <2>1. ASSUME NEW p \in DOMAIN mem PROVE byLength[p].savings \in Int /\ byLength[p].key \in Seq(Int)
    <3>1. byLength[p] = [mem[p] EXCEPT !.savings = Len(p)]
      OBVIOUS
    <3>2. {"key", "savings"} \subseteq DOMAIN mem[p] /\ mem[p].key \in Seq(Int) /\ p \in Seq(Int)
      BY DEF Named
    <3>3. Len(p) \in Int
      BY <3>2
    <3>4. byLength[p].savings = Len(p) /\ byLength[p].key = mem[p].key
      BY <3>1, <3>2
    <3> QED BY <3>2, <3>3, <3>4
  <2>2. DOMAIN byLength = DOMAIN mem
    OBVIOUS
  <2> HIDE DEF byLength
  <2> QED BY <2>1, <2>2 DEF Keyed
<1>2. Longest(mem, long) = Drained(byLength, h)
  BY DEF Longest
<1> HIDE DEF byLength
<1>3. HeapOk(byLength, <<>>) /\ Range(<<>>) = {}
  BY EmptyHeap
<1>4. HeapOk(byLength, h) /\ Range(h) = Range(<<>>) \union Range(long)
  BY <1>1, <1>3, PushAllFacts
<1> HIDE DEF h
<1>5. Drained(byLength, h) \in Seq(DOMAIN byLength) /\ Once(Drained(byLength, h))
      /\ Range(Drained(byLength, h)) = Range(h)
  BY <1>1, <1>4, DrainedFacts
<1> QED BY <1>1, <1>2, <1>3, <1>4, <1>5

(* The long patterns that are kept are some of them, each once.            *)
LEMMA LongOnesFacts ==
  ASSUME NEW mem, Named(mem), NEW long \in Seq(DOMAIN mem), Once(long)
  PROVE  LongOnes(mem, long) \in Seq(DOMAIN mem) /\ Once(LongOnes(mem, long))
         /\ Range(LongOnes(mem, long)) \subseteq Range(long)
<1>1. PICK s : /\ s = Longest(mem, long) /\ s \in Seq(DOMAIN mem) /\ Once(s)
               /\ Range(s) = Range(long)
  BY LongestFacts
<1>2. PICK n \in Nat : n = Len(s) /\ DOMAIN s = 1 .. n /\ \A i \in 1 .. n : s[i] \in DOMAIN mem
  BY <1>1
<1>3. PICK end : end = Folding("long", 0, [shorter |-> {}, kept |-> <<>>], s)[DOMAIN s]
                 /\ LongOnes(mem, long) = end.kept
  BY <1>1, LongFold
<1>4. PICK f : Unrolls("long", 0, [shorter |-> {}, kept |-> <<>>], s, f, end)
  BY <1>2, <1>3, FoldingUnrolls
<1>5. /\ f[0] = [shorter |-> {}, kept |-> <<>>] /\ f[n] = end
      /\ \A k \in 1 .. n : f[k] = LongStep(f[k - 1], s[k])
  BY <1>2, <1>4, Zenon DEF Unrolls, StepOf
<1>6. \A k \in 1 .. n : f[k].kept = f[k - 1].kept \/ f[k].kept = Append(f[k - 1].kept, s[k])
  <2>1. \A st, id : LongStep(st, id).kept = st.kept \/ LongStep(st, id).kept = Append(st.kept, id)
    BY DEF LongStep
  <2> QED BY <1>5, <2>1, Zenon
<1>7. f[0].kept = <<>>
  BY <1>5
<1> DEFINE P(k) == /\ f[k].kept \in Seq(DOMAIN mem) /\ Once(f[k].kept)
                   /\ Range(f[k].kept) \subseteq {s[i] : i \in 1 .. k}
           G == {k \in 0 .. n : P(k)}
<1>8. 0 \in G
  <2>1. P(0)
    BY <1>7, EmptyHeap
  <2> QED BY <2>1
<1>9. ASSUME NEW k \in 1 .. n, k - 1 \in G PROVE k \in G
  <2>1. PICK b, d : b = f[k - 1].kept /\ d = f[k].kept
    OBVIOUS
  <2>2. b \in Seq(DOMAIN mem) /\ Once(b) /\ Range(b) \subseteq {s[i] : i \in 1 .. (k - 1)}
    BY <1>9, <2>1
  <2>3. {s[i] : i \in 1 .. k} = {s[i] : i \in 1 .. (k - 1)} \union {s[k]}
    <3>1. 1 .. k = (1 .. (k - 1)) \union {k}
      OBVIOUS
    <3> QED BY <3>1
  <2>4. d = b \/ d = Append(b, s[k])
    BY <1>6, <2>1
  <2>5. s[k] \in DOMAIN mem /\ s[k] \notin Range(b)
    <3>1. \A i \in 1 .. (k - 1) : i \in 1 .. n /\ i # k
      OBVIOUS
    <3> QED BY <1>1, <1>2, <2>2, <3>1 DEF Once
  <2>6. CASE d = b
    <3>1. d \in Seq(DOMAIN mem) /\ Once(d) /\ Range(d) \subseteq {s[i] : i \in 1 .. k}
      BY <2>2, <2>3, <2>6
    <3>2. P(k)
      BY <2>1, <3>1
    <3> QED BY <3>2
  <2>7. CASE d = Append(b, s[k])
    <3>1. d \in Seq(DOMAIN mem) /\ Range(d) = Range(b) \union {s[k]} /\ Once(d)
      BY <2>2, <2>5, <2>7, AppendFacts
    <3> QED BY <2>1, <2>2, <2>3, <3>1
  <2> QED BY <2>4, <2>6, <2>7
<1>10. n \in G
  <2> HIDE DEF G
  <2>1. \A k \in 0 .. n : k \in G
    BY <1>8, <1>9, BoundedInduction
  <2> QED BY <2>1
<1>11. Range(s) = {s[i] : i \in 1 .. n}
  BY <1>2 DEF Range
<1> QED BY <1>1, <1>3, <1>5, <1>10, <1>11

(* The heaps that patterns found go into.                                  *)
LEMMA FirstHeaps ==
  ASSUME NEW mem, Named(mem), IsFiniteSet(DOMAIN mem), NEW low \in SUBSET DOMAIN mem
  PROVE  LET table == InTableOrder(DOMAIN mem)
             short == Among(table, low)
             long  == LongOnes(mem, Among(table, DOMAIN mem \ low))
             h     == PushAll(mem, PushAll(mem, <<>>, short), long)
             r     == PushAll(mem, <<>>, long)
         IN  HeapOk(mem, h) /\ low \subseteq Range(h) /\ HeapOk(mem, r)
<1> DEFINE table == InTableOrder(DOMAIN mem)
           short == Among(table, low)
           rest  == Among(table, DOMAIN mem \ low)
           long  == LongOnes(mem, rest)
           g     == PushAll(mem, <<>>, short)
<1>1. table \in Seq(DOMAIN mem) /\ Once(table) /\ Range(table) = DOMAIN mem
  <2>1. DOMAIN mem \in SUBSET Seq(Int)
    BY DEF Named
  <2> QED BY <2>1, TableFacts
<1> HIDE DEF table
<1>2. short \in Seq(DOMAIN mem) /\ Once(short) /\ Range(short) = low
  <2>1. short \in Seq(DOMAIN mem) /\ Once(short) /\ Range(short) = Range(table) \intersect low
    BY <1>1, AmongFacts
  <2> QED BY <1>1, <2>1
<1>3. rest \in Seq(DOMAIN mem) /\ Once(rest) /\ Range(rest) = DOMAIN mem \ low
  <2>1. rest \in Seq(DOMAIN mem) /\ Once(rest) /\ Range(rest) = Range(table) \intersect (DOMAIN mem \ low)
    BY <1>1, AmongFacts
  <2> QED BY <1>1, <2>1
<1> HIDE DEF short, rest
<1>4. long \in Seq(DOMAIN mem) /\ Once(long) /\ Range(long) \subseteq Range(rest)
  BY <1>3, LongOnesFacts
<1> HIDE DEF long
<1>5. Keyed(mem)
  BY DEF Named, Keyed
<1>6. HeapOk(mem, <<>>) /\ Range(<<>>) = {}
  BY EmptyHeap
<1>7. HeapOk(mem, g) /\ Range(g) = Range(<<>>) \union Range(short)
  BY <1>2, <1>5, <1>6, PushAllFacts
<1> HIDE DEF g
<1>8. HeapOk(mem, PushAll(mem, g, long)) /\ Range(PushAll(mem, g, long)) = Range(g) \union Range(long)
  <2>1. Range(long) \intersect Range(g) = {}
    BY <1>2, <1>3, <1>4, <1>6, <1>7
  <2> QED BY <1>4, <1>5, <1>7, <2>1, PushAllFacts
<1>9. HeapOk(mem, PushAll(mem, <<>>, long))
  BY <1>4, <1>5, <1>6, PushAllFacts
<1> QED BY <1>2, <1>7, <1>8, <1>9 DEF g, long, rest, short, table

\* The numbers at the first n places.
Numbers(s, n) == n \in Nat /\ DOMAIN s = 1 .. n /\ Len(s) = n /\ \A i \in 1 .. n : s[i] \in Int

(* Functions on the first n places are sequences.                          *)
LEMMA NumbersFrom ==
  ASSUME NEW n \in Nat, NEW s, s = [i \in 1 .. n |-> s[i]], \A i \in 1 .. n : s[i] \in Int
  PROVE  Numbers(s, n)
<1>1. s \in [1 .. n -> Int]
  OBVIOUS
<1>2. Len(s) = n /\ DOMAIN s = 1 .. n
  BY <1>1, FunctionIsSeq
<1> QED BY <1>2 DEF Numbers

\* Sums of the first numbers.
Sums(s, n, f) == f[0] = 0 /\ \A k \in 1 .. n : f[k] = f[k - 1] + s[k] /\ f[k - 1] \in Int /\ f[k] \in Int

(* A total is the last of them.                                            *)
LEMMA TotalSums ==
  ASSUME NEW n, NEW s, Numbers(s, n)
  PROVE  Total(s) \in Int /\ \E f : Sums(s, n, f) /\ f[n] = Total(s)
<1>1. n \in Nat /\ DOMAIN s = 1 .. n /\ Len(s) = n /\ \A i \in 1 .. n : s[i] \in Int
  BY DEF Numbers
<1>2. PICK end : end = Total(s)
  OBVIOUS
<1>3. PICK f : Unrolls("total", 0, 0, s, f, end)
  BY <1>1, <1>2, TotalFold, FoldingUnrolls
<1>4. /\ f[0] = 0 /\ f[n] = end
      /\ \A k \in 1 .. n : f[k] = f[k - 1] + s[k]
  BY <1>1, <1>3 DEF Unrolls, StepOf
<1> DEFINE G == {k \in 0 .. n : f[k] \in Int}
<1>5. 0 \in G
  BY <1>1, <1>4
<1>6. ASSUME NEW k \in 1 .. n, k - 1 \in G PROVE k \in G
  <2>1. f[k - 1] \in Int /\ s[k] \in Int /\ f[k] = f[k - 1] + s[k]
    BY <1>1, <1>4, <1>6
  <2> QED BY <2>1
<1>7. \A k \in 0 .. n : f[k] \in Int
  <2> HIDE DEF G
  <2>1. \A k \in 0 .. n : k \in G
    BY <1>1, <1>5, <1>6, BoundedInduction
  <2> QED BY <2>1 DEF G
<1>8. \A k \in 1 .. n : f[k - 1] \in Int /\ f[k] \in Int
  BY <1>1, <1>7
<1>9. Sums(s, n, f)
  BY <1>4, <1>8 DEF Sums
<1>10. n \in 0 .. n
  BY <1>1
<1> QED BY <1>2, <1>4, <1>7, <1>9, <1>10

(* Sums are the same whoever makes them.                                   *)
LEMMA SumsAgree ==
  ASSUME NEW n \in Nat, NEW s, NEW t, NEW f, NEW g, NEW m \in Nat, m <= n,
         Sums(s, n, f), Sums(t, m, g), \A i \in 1 .. m : s[i] = t[i]
  PROVE  f[m] = g[m]
<1> DEFINE G == {k \in 0 .. m : f[k] = g[k]}
<1>1. 0 \in G
  BY DEF Sums
<1>2. ASSUME NEW k \in 1 .. m, k - 1 \in G PROVE k \in G
  <2>1. k \in 1 .. n
    OBVIOUS
  <2>2. f[k] = f[k - 1] + s[k] /\ g[k] = g[k - 1] + t[k] /\ s[k] = t[k] /\ f[k - 1] = g[k - 1]
    BY <1>2, <2>1 DEF Sums
  <2> QED BY <2>2
<1>3. \A k \in 0 .. m : k \in G
  <2> HIDE DEF G
  <2> QED BY <1>1, <1>2, BoundedInduction
<1> QED BY <1>3

(* The total of one more, of none and of non-negative numbers.             *)
LEMMA TotalNone ==
  ASSUME NEW s, Numbers(s, 0)
  PROVE  Total(s) = 0
<1>1. PICK f : Sums(s, 0, f) /\ f[0] = Total(s)
  BY TotalSums
<1> QED BY <1>1 DEF Sums

(* A total with one number more.                                           *)
LEMMA TotalNext ==
  ASSUME NEW n \in Nat, NEW s, Numbers(s, n + 1), NEW t, Numbers(t, n), \A i \in 1 .. n : s[i] = t[i]
  PROVE  Total(s) = Total(t) + s[n + 1]
<1>1. PICK f : Sums(s, n + 1, f) /\ f[n + 1] = Total(s)
  BY TotalSums
<1>2. PICK g : Sums(t, n, g) /\ g[n] = Total(t)
  BY TotalSums
<1>3. f[n] = g[n]
  <2>1. n + 1 \in Nat /\ n <= n + 1
    OBVIOUS
  <2> QED BY <1>1, <1>2, <2>1, SumsAgree
<1>4. n + 1 \in 1 .. n + 1 /\ (n + 1) - 1 = n
  OBVIOUS
<1>5. f[n + 1] = f[n] + s[n + 1]
  BY <1>1, <1>4 DEF Sums
<1> QED BY <1>1, <1>2, <1>3, <1>5

(* A total of natural numbers.                                             *)
LEMMA TotalNatural ==
  ASSUME NEW n, NEW s, Numbers(s, n), \A i \in 1 .. n : s[i] \in Nat
  PROVE  Total(s) \in Nat
<1>1. PICK f : Sums(s, n, f) /\ f[n] = Total(s)
  BY TotalSums
<1>2. n \in Nat
  BY DEF Numbers
<1> DEFINE G == {k \in 0 .. n : f[k] \in Nat}
<1>3. 0 \in G
  BY <1>1, <1>2 DEF Sums
<1>4. ASSUME NEW k \in 1 .. n, k - 1 \in G PROVE k \in G
  <2>1. f[k] = f[k - 1] + s[k] /\ s[k] \in Nat /\ f[k - 1] \in Nat
    BY <1>1, <1>4 DEF Sums
  <2> QED BY <2>1
<1>5. \A k \in 0 .. n : k \in G
  <2> HIDE DEF G
  <2> QED BY <1>2, <1>3, <1>4, BoundedInduction
<1> QED BY <1>1, <1>2, <1>5

(* The total of sums and of differences.                                   *)
LEMMA TotalOfSums ==
  ASSUME NEW n, NEW s, NEW t, NEW u, Numbers(s, n), Numbers(t, n), Numbers(u, n),
         \A i \in 1 .. n : u[i] = s[i] + t[i]
  PROVE  Total(u) = Total(s) + Total(t)
<1>1. PICK f : Sums(s, n, f) /\ f[n] = Total(s)
  BY TotalSums
<1>2. PICK g : Sums(t, n, g) /\ g[n] = Total(t)
  BY TotalSums
<1>3. PICK h : Sums(u, n, h) /\ h[n] = Total(u)
  BY TotalSums
<1>4. n \in Nat
  BY DEF Numbers
<1> DEFINE G == {k \in 0 .. n : h[k] = f[k] + g[k]}
<1>5. 0 \in G
  BY <1>1, <1>2, <1>3, <1>4 DEF Sums
<1>6. ASSUME NEW k \in 1 .. n, k - 1 \in G PROVE k \in G
  <2>1. /\ f[k] = f[k - 1] + s[k] /\ g[k] = g[k - 1] + t[k] /\ h[k] = h[k - 1] + u[k]
        /\ f[k - 1] \in Int /\ g[k - 1] \in Int
    BY <1>1, <1>2, <1>3 DEF Sums
  <2>2. h[k - 1] = f[k - 1] + g[k - 1] /\ u[k] = s[k] + t[k] /\ s[k] \in Int /\ t[k] \in Int
    BY <1>6 DEF Numbers
  <2> QED BY <2>1, <2>2
<1>7. \A k \in 0 .. n : k \in G
  <2> HIDE DEF G
  <2> QED BY <1>4, <1>5, <1>6, BoundedInduction
<1> QED BY <1>1, <1>2, <1>3, <1>4, <1>7

(* The total of equal numbers.                                             *)
LEMMA TotalSame ==
  ASSUME NEW n, NEW s, NEW t, Numbers(s, n), Numbers(t, n), \A i \in 1 .. n : s[i] = t[i]
  PROVE  Total(s) = Total(t)
<1>1. PICK f : Sums(s, n, f) /\ f[n] = Total(s)
  BY TotalSums
<1>2. PICK g : Sums(t, n, g) /\ g[n] = Total(t)
  BY TotalSums
<1>3. n \in Nat /\ n <= n
  BY DEF Numbers
<1> QED BY <1>1, <1>2, <1>3, SumsAgree

----------------------------------------------------------------------------
(* The cost of strings.                                                    *)

(* A character costs something.                                            *)
LEMMA CharCost ==
  ASSUME NEW alpha, NEW c
  PROVE  ZcharCost(alpha, c) \in {1, 2, 4}
<1> DEFINE in0 == c \in alpha.a0 \union {Space}
           in12 == c \in alpha.a1 \union alpha.a2 \union {QuoteReplacement, LfReplacement}
<1>1. ZcharCost(alpha, c) = CASE in0 -> 1 [] ~in0 /\ in12 -> 2 [] OTHER -> 4
  BY DEF ZcharCost
<1> HIDE DEF in0, in12
<1>2. CASE in0
  BY <1>1, <1>2
<1>3. CASE ~in0 /\ in12
  BY <1>1, <1>3
<1>4. CASE ~in0 /\ ~in12
  BY <1>1, <1>4
<1> QED BY <1>2, <1>3, <1>4

\* What the characters cost.
Costs(alpha, s) == [i \in DOMAIN s |-> ZcharCost(alpha, s[i])]

(* The cost of a string is their total.                                    *)
LEMMA CostTotal ==
  ASSUME NEW alpha, NEW S, NEW s \in Seq(S)
  PROVE  /\ Numbers(Costs(alpha, s), Len(s)) /\ ZstringCost(alpha, s) = Total(Costs(alpha, s))
         /\ ZstringCost(alpha, s) \in Nat
<1>1. PICK n \in Nat : n = Len(s) /\ DOMAIN s = 1 .. n
  OBVIOUS
<1>2. PICK c : c = Costs(alpha, s)
  OBVIOUS
<1>3. c = [i \in 1 .. n |-> ZcharCost(alpha, s[i])] /\ \A i \in 1 .. n : c[i] = ZcharCost(alpha, s[i])
  BY <1>1, <1>2 DEF Costs
<1>4. Numbers(c, n) /\ \A i \in 1 .. n : c[i] \in Nat
  <2>1. \A i \in 1 .. n : c[i] \in Nat
    BY <1>3, CharCost
  <2>2. c = [i \in 1 .. n |-> c[i]]
    BY <1>3, Zenon
  <2> QED BY <2>1, <2>2, NumbersFrom
<1>5. PICK end : end = ZstringCost(alpha, s)
  OBVIOUS
<1>6. PICK f : Unrolls("cost", alpha, 0, s, f, end)
  BY <1>1, <1>5, CostFold, FoldingUnrolls
<1>7. f[0] = 0 /\ f[n] = end /\ \A k \in 1 .. n : f[k] = f[k - 1] + c[k]
  BY <1>1, <1>3, <1>6 DEF Unrolls, StepOf
<1>8. PICK g : Sums(c, n, g) /\ g[n] = Total(c)
  BY <1>4, TotalSums
<1> DEFINE G == {k \in 0 .. n : f[k] = g[k]}
<1>9. 0 \in G
  BY <1>7, <1>8 DEF Sums
<1>10. ASSUME NEW k \in 1 .. n, k - 1 \in G PROVE k \in G
  <2>1. f[k] = f[k - 1] + c[k] /\ g[k] = g[k - 1] + c[k] /\ f[k - 1] = g[k - 1]
    BY <1>7, <1>8, <1>10 DEF Sums
  <2> QED BY <2>1
<1>11. n \in G
  <2> HIDE DEF G
  <2>1. \A k \in 0 .. n : k \in G
    BY <1>9, <1>10, BoundedInduction
  <2> QED BY <2>1
<1>12. Total(c) \in Nat
  BY <1>4, TotalNatural
<1> QED BY <1>1, <1>2, <1>4, <1>5, <1>7, <1>8, <1>11, <1>12

\* q is the sum of m and n.
IsSum(q, m, n) == q = m + n

\* A sequence that starts with another and goes on with a third.
Joined(u, m, s, n, t) ==
  (\A i \in 1 .. m : u[i] = s[i]) /\ (\A i \in 1 .. n : u[m + i] = t[i])

(* The total of numbers behind others.                                     *)
LEMMA TotalConcat ==
  ASSUME NEW m, NEW n, NEW q, IsSum(q, m, n), NEW s, NEW t, NEW u, Numbers(s, m), Numbers(t, n), Numbers(u, q),
         Joined(u, m, s, n, t)
  PROVE  Total(u) = Total(s) + Total(t)
<1>1. m \in Nat /\ n \in Nat
  BY DEF Numbers
<1>2. PICK f : Sums(u, q, f) /\ f[q] = Total(u)
  BY TotalSums
<1>3. PICK g : Sums(s, m, g) /\ g[m] = Total(s) /\ Total(s) \in Int
  BY TotalSums
<1>4. PICK h : Sums(t, n, h) /\ h[n] = Total(t) /\ Total(t) \in Int
  BY TotalSums
<1>5. f[m] = g[m]
  <2>1. q \in Nat /\ m <= q
    BY <1>1 DEF IsSum
  <2>2. \A i \in 1 .. m : u[i] = s[i]
    BY DEF Joined
  <2> QED BY <1>1, <1>2, <1>3, <2>1, <2>2, SumsAgree
<1> DEFINE G == {k \in 0 .. n : f[m + k] = g[m] + h[k]}
<1>6. 0 \in G
  <2>1. m + 0 = m /\ h[0] = 0 /\ g[m] \in Int
    BY <1>1, <1>3, <1>4 DEF Sums
  <2>2. f[m + 0] = g[m] + h[0]
    BY <1>5, <2>1
  <2> QED BY <1>1, <2>2
<1>7. ASSUME NEW k \in 1 .. n, k - 1 \in G PROVE k \in G
  <2>1. m + k \in 1 .. q /\ (m + k) - 1 = m + (k - 1)
    BY <1>1 DEF IsSum
  <2>2. f[m + k] = f[m + (k - 1)] + u[m + k]
    BY <1>2, <2>1 DEF Sums
  <2>3. h[k] = h[k - 1] + t[k] /\ h[k - 1] \in Int
    BY <1>4 DEF Sums
  <2>4. f[m + (k - 1)] = g[m] + h[k - 1] /\ u[m + k] = t[k] /\ t[k] \in Int /\ g[m] \in Int
    BY <1>3, <1>7 DEF Numbers, Joined
  <2>5. f[m + k] = g[m] + h[k]
    BY <2>2, <2>3, <2>4
  <2> QED BY <2>5
<1>8. n \in G
  <2> HIDE DEF G
  <2>1. \A k \in 0 .. n : k \in G
    BY <1>1, <1>6, <1>7, BoundedInduction
  <2> QED BY <1>1, <2>1
<1> QED BY <1>2, <1>3, <1>4, <1>8 DEF IsSum

(* Strings cost together what they cost each.                              *)
LEMMA CostConcat ==
  ASSUME NEW alpha, NEW S, NEW s \in Seq(S), NEW t \in Seq(S)
  PROVE  ZstringCost(alpha, s \o t) = ZstringCost(alpha, s) + ZstringCost(alpha, t)
<1>1. PICK m \in Nat, n \in Nat : m = Len(s) /\ n = Len(t) /\ DOMAIN s = 1 .. m /\ DOMAIN t = 1 .. n
  OBVIOUS
<1> DEFINE u == s \o t
           q == m + n
<1>2. /\ u \in Seq(S) /\ Len(u) = q /\ DOMAIN u = 1 .. q
      /\ \A i \in 1 .. m : i \in DOMAIN u /\ u[i] = s[i]
      /\ \A i \in 1 .. n : m + i \in DOMAIN u /\ u[m + i] = t[i]
  BY <1>1, ConcatFacts
<1> HIDE DEF u
<1>3. PICK a, b, c : a = Costs(alpha, s) /\ b = Costs(alpha, t) /\ c = Costs(alpha, u)
  OBVIOUS
<1>4. /\ Numbers(a, m) /\ ZstringCost(alpha, s) = Total(a)
      /\ Numbers(b, n) /\ ZstringCost(alpha, t) = Total(b)
      /\ Numbers(c, q) /\ ZstringCost(alpha, u) = Total(c)
  BY <1>1, <1>2, <1>3, CostTotal
<1>5. \A i \in 1 .. m : c[i] = a[i]
  BY <1>1, <1>2, <1>3 DEF Costs
<1>6. \A i \in 1 .. n : c[m + i] = b[i]
  BY <1>1, <1>2, <1>3 DEF Costs
<1>7. Total(c) = Total(a) + Total(b)
  <2>1. IsSum(q, m, n) /\ Joined(c, m, a, n, b)
    BY <1>5, <1>6 DEF IsSum, Joined
  <2> HIDE DEF q
  <2> QED BY <1>4, <2>1, TotalConcat
<1> QED BY <1>4, <1>7 DEF u

(* A string of one character, and of none.                                 *)
LEMMA CostOne ==
  ASSUME NEW alpha, NEW c
  PROVE  ZstringCost(alpha, <<c>>) = ZcharCost(alpha, c) /\ ZstringCost(alpha, <<>>) = 0
<1>1. PICK s : s = <<c>> /\ s \in Seq({c}) /\ Len(s) = 1 /\ DOMAIN s = 1 .. 1 /\ s[1] = c
  <2>1. <<c>> \in Seq({c}) /\ Len(<<c>>) = 1 /\ DOMAIN <<c>> = 1 .. 1 /\ <<c>>[1] = c
    OBVIOUS
  <2> QED BY <2>1, Zenon
<1>2. PICK e : e = <<>> /\ e \in Seq({c}) /\ Len(e) = 0
  <2>1. <<>> \in Seq({c}) /\ Len(<<>>) = 0
    OBVIOUS
  <2> QED BY <2>1, Zenon
<1>3. PICK a : a = Costs(alpha, s) /\ a[1] = ZcharCost(alpha, c)
  <2>1. 1 \in DOMAIN s /\ s[1] = c
    BY <1>1
  <2>2. Costs(alpha, s)[1] = ZcharCost(alpha, c)
    BY <2>1 DEF Costs
  <2> QED BY <2>2, Zenon
<1>4. PICK b : b = Costs(alpha, e)
  OBVIOUS
<1>5. Numbers(a, 1) /\ ZstringCost(alpha, s) = Total(a) /\ Numbers(b, 0) /\ ZstringCost(alpha, e) = Total(b)
  BY <1>1, <1>2, <1>3, <1>4, CostTotal
<1>6. Total(b) = 0
  BY <1>5, TotalNone
<1>7. Total(a) = Total(b) + a[0 + 1]
  <2>1. 0 \in Nat /\ Numbers(a, 0 + 1) /\ \A i \in 1 .. 0 : a[i] = b[i]
    BY <1>5
  <2> QED BY <1>5, <2>1, TotalNext
<1>8. a[1] \in Int
  BY <1>5 DEF Numbers
<1> QED BY <1>1, <1>2, <1>3, <1>5, <1>6, <1>7, <1>8

(* The choice at a place.                                                  *)

\* What the rest of the line costs m places further on.
CostAhead(behind, m) == behind[Len(behind) + 1 - m].cost

\* Where an abbreviation may be used, the costs behind it are known.
Known(list, line, i, behind) ==
  /\ behind[Len(behind)].cost \in Nat
  /\ \A a \in DOMAIN list : i \in list[a].occurrences[line] => CostAhead(behind, Len(list[a].key)) \in Nat

\* What a choice is made from: a character, or an abbreviation.
IsChoice(alpha, text, list, line, i, behind, c) ==
  \/ c.pick = 0 /\ c.cost = behind[Len(behind)].cost + ZcharCost(alpha, text[i])
  \/ /\ c.pick \in DOMAIN list /\ i \in list[c.pick].occurrences[line]
     /\ c.cost = ReferenceCost + CostAhead(behind, Len(list[c.pick].key))

(* It is the cheapest of what is possible.                                 *)
LEMMA ChoiceFacts ==
  ASSUME NEW alpha, NEW text, NEW S, NEW list \in Seq(S), NEW line, NEW i, NEW behind,
         Known(list, line, i, behind)
  PROVE  LET c == Choice(alpha, text, list, line, i, behind)
         IN  /\ c \in [cost : Nat, pick : 0 .. Len(list)]
             /\ IsChoice(alpha, text, list, line, i, behind, c)
             /\ c.cost <= behind[Len(behind)].cost + ZcharCost(alpha, text[i])
             /\ \A a \in DOMAIN list : i \in list[a].occurrences[line]
                  => c.cost <= ReferenceCost + CostAhead(behind, Len(list[a].key))
<1>1. PICK n \in Nat : n = Len(list) /\ DOMAIN list = 1 .. n
  OBVIOUS
<1>2. PICK seq : seq = PlacesOf(list) /\ Len(seq) = n /\ DOMAIN seq = 1 .. n /\ \A k \in 1 .. n : seq[k] = k
  BY <1>1, PlacesFacts
<1> DEFINE par == [list |-> list, line |-> line, i |-> i, behind |-> behind]
           first == behind[Len(behind)].cost + ZcharCost(alpha, text[i])
           base == [cost |-> first, pick |-> 0]
<1>3. PICK end : end = Choice(alpha, text, list, line, i, behind)
  OBVIOUS
<1>4. end = Folding("choice", par, base, seq)[DOMAIN seq]
  BY <1>2, <1>3, ChoiceFold
<1>5. par.list = list /\ par.line = line /\ par.i = i /\ par.behind = behind
  OBVIOUS
<1>6. first \in Nat
  BY CharCost DEF Known
<1>7. base.cost = first /\ base.pick = 0 /\ base \in [cost : Nat, pick : 0 .. n]
  BY <1>1, <1>6
<1> HIDE DEF par, base
<1>8. PICK f : Unrolls("choice", par, base, seq, f, end)
  <2>1. Len(seq) \in Nat /\ DOMAIN seq = 1 .. Len(seq)
    BY <1>2
  <2> QED BY <1>4, <2>1, FoldingUnrolls
<1>9. f[0] = base /\ f[n] = end /\ \A k \in 1 .. n : f[k] = ChoiceStep(par, f[k - 1], k)
  <2>1. f[0] = base /\ f[n] = end /\ \A k \in 1 .. n : f[k] = ChoiceStep(par, f[k - 1], seq[k])
    BY <1>2, <1>8, Zenon DEF Unrolls, StepOf
  <2> QED BY <1>2, <2>1, Zenon
<1> DEFINE with(a) == ReferenceCost + CostAhead(behind, Len(list[a].key))
           at(a) == i \in list[a].occurrences[line]
<1>10. ASSUME NEW st, NEW a
       PROVE  ChoiceStep(par, st, a) =
                IF at(a) /\ (Cheaper(st, with(a)) \/ Tied(st, with(a), list, a))
                THEN [cost |-> with(a), pick |-> a] ELSE st
  BY <1>5, Zenon DEF ChoiceStep, CostAhead
<1>11. ReferenceCost = 2
  BY DEF ReferenceCost
<1>12. \A a \in 1 .. n : at(a) => with(a) \in Nat
  BY <1>1, <1>11 DEF Known
<1> DEFINE P(k) == /\ f[k] \in [cost : Nat, pick : 0 .. n]
                   /\ \/ f[k].pick = 0 /\ f[k].cost = first
                      \/ f[k].pick \in 1 .. n /\ at(f[k].pick) /\ f[k].cost = with(f[k].pick)
                   /\ f[k].cost <= first
                   /\ \A a \in 1 .. k : at(a) => f[k].cost <= with(a)
           G == {k \in 0 .. n : P(k)}
<1> HIDE DEF with, at, first
<1>13. 0 \in G
  <2>1. P(0)
    BY <1>6, <1>7, <1>9
  <2> QED BY <2>1
<1>14. ASSUME NEW k \in 1 .. n, k - 1 \in G PROVE k \in G
  <2>1. PICK st : st = f[k - 1]
    OBVIOUS
  <2>2. P(k - 1)
    BY <1>14
  <2>3. /\ st \in [cost : Nat, pick : 0 .. n]
        /\ \/ st.pick = 0 /\ st.cost = first
           \/ st.pick \in 1 .. n /\ at(st.pick) /\ st.cost = with(st.pick)
        /\ st.cost <= first
        /\ \A a \in 1 .. (k - 1) : at(a) => st.cost <= with(a)
    BY <2>1, <2>2
  <2>4. \A a \in 1 .. k : a = k \/ a \in 1 .. (k - 1)
    OBVIOUS
  <2>5. f[k] = IF at(k) /\ (Cheaper(st, with(k)) \/ Tied(st, with(k), list, k))
               THEN [cost |-> with(k), pick |-> k] ELSE st
    BY <1>9, <1>10, <2>1
  <2>6. CASE at(k) /\ (Cheaper(st, with(k)) \/ Tied(st, with(k), list, k))
    <3>1. PICK w \in Nat : w = with(k)
      BY <1>12, <2>6
    <3>2. w <= st.cost
      BY <2>3, <2>6, <3>1 DEF Cheaper, Tied
    <3>3. f[k] = [cost |-> w, pick |-> k]
      BY <2>5, <2>6, <3>1
    <3>4. f[k] \in [cost : Nat, pick : 0 .. n] /\ f[k].cost = w /\ f[k].pick = k
      BY <3>3
    <3>5. \A a \in 1 .. k : at(a) => w <= with(a)
      <4> SUFFICES ASSUME NEW a \in 1 .. k, at(a) PROVE w <= with(a)
        OBVIOUS
      <4>1. a \in 1 .. n /\ with(a) \in Nat
        BY <1>12
      <4> QED BY <2>3, <2>4, <3>1, <3>2, <4>1
    <3>6. w <= first
      BY <1>6, <2>3, <3>2
    <3>7. P(k)
      BY <2>6, <3>1, <3>4, <3>5, <3>6
    <3> QED BY <3>7
  <2>7. CASE ~(at(k) /\ (Cheaper(st, with(k)) \/ Tied(st, with(k), list, k)))
    <3>1. f[k] = st
      BY <2>5, <2>7
    <3>2. at(k) => st.cost <= with(k)
      <4> SUFFICES ASSUME at(k) PROVE st.cost <= with(k)
        OBVIOUS
      <4>1. with(k) \in Nat /\ ~Cheaper(st, with(k))
        BY <1>12, <2>7
      <4> QED BY <2>3, <4>1 DEF Cheaper
    <3>3. P(k)
      BY <2>3, <2>4, <3>1, <3>2
    <3> QED BY <3>3
  <2> QED BY <2>6, <2>7
<1>15. P(n)
  <2>1. n \in G
    <3> HIDE DEF G
    <3>1. \A k \in 0 .. n : k \in G
      BY <1>13, <1>14, BoundedInduction
    <3> QED BY <3>1
  <2> QED BY <2>1
<1>16. /\ end \in [cost : Nat, pick : 0 .. Len(list)]
       /\ \/ end.pick = 0 /\ end.cost = first
          \/ end.pick \in DOMAIN list /\ at(end.pick) /\ end.cost = with(end.pick)
       /\ end.cost <= first
       /\ \A a \in DOMAIN list : at(a) => end.cost <= with(a)
  BY <1>1, <1>9, <1>15
<1>17. IsChoice(alpha, text, list, line, i, behind, end)
  BY <1>16, Zenon DEF IsChoice, first, at, with
<1> QED BY <1>3, <1>16, <1>17, Zenon DEF first, at, with

(* The parse of a line.                                                    *)

\* Abbreviations of some length, which occur where they fit in the line.
Fits(list, line, n) ==
  \A a \in DOMAIN list :
    /\ Len(list[a].key) \in Nat \ {0}
    /\ \A i \in list[a].occurrences[line] : i \in 1 .. n /\ i + Len(list[a].key) <= n + 1

\* A parse with the least costs, by what comes behind each place.
IsParse(alpha, text, list, line, n, parse) ==
  /\ parse \in Seq([cost : Nat, pick : 0 .. Len(list)]) /\ Len(parse) = n + 1 /\ DOMAIN parse = 1 .. n + 1
  /\ parse[n + 1].cost = 0 /\ parse[n + 1].pick = 0
  /\ \A i \in 1 .. n :
       /\ \/ parse[i].pick = 0 /\ parse[i].cost = parse[i + 1].cost + ZcharCost(alpha, text[i])
          \/ /\ parse[i].pick \in DOMAIN list /\ i \in list[parse[i].pick].occurrences[line]
             /\ parse[i].cost = ReferenceCost + parse[i + Len(list[parse[i].pick].key)].cost
       /\ parse[i].cost <= parse[i + 1].cost + ZcharCost(alpha, text[i])
       /\ \A a \in DOMAIN list : i \in list[a].occurrences[line]
            => parse[i].cost <= ReferenceCost + parse[i + Len(list[a].key)].cost

(* ParseLine finds one.                                                    *)
LEMMA ParseFacts ==
  ASSUME NEW alpha, NEW T, NEW text \in Seq(T), NEW S, NEW list \in Seq(S), NEW line,
         Fits(list, line, Len(text))
  PROVE  IsParse(alpha, text, list, line, Len(text), ParseLine(alpha, text, list, line))
<1>1. PICK n \in Nat : n = Len(text)
  OBVIOUS
<1>2. PICK seq : seq = PlacesOf(text) /\ Len(seq) = n /\ DOMAIN seq = 1 .. n /\ \A k \in 1 .. n : seq[k] = k
  BY <1>1, PlacesFacts
<1>3. PICK ld \in Nat : ld = Len(list) /\ DOMAIN list = 1 .. ld
  OBVIOUS
<1> DEFINE par == [alpha |-> alpha, text |-> text, list |-> list, line |-> line]
           e == [cost |-> 0, pick |-> 0]
           base == <<e>>
           R == [cost : Nat, pick : 0 .. ld]
           parse == ParseLine(alpha, text, list, line)
           Place(x) == n + 1 - x
           Made(b, x) == Choice(alpha, text, list, line, Place(x), b)
<1>4. PICK end : end = Folding("parse", par, base, seq)[DOMAIN seq] /\ parse = Reverse(end)
  BY <1>2, ParseFold
<1>5. /\ par.alpha = alpha /\ par.text = text /\ par.list = list /\ par.line = line
      /\ Len(text) = n
  BY <1>1
<1>6. e \in R /\ e.cost = 0 /\ e.pick = 0
  OBVIOUS
<1> HIDE DEF e
<1>7. base \in Seq(R) /\ Len(base) = 1 /\ base[1] = e
  BY <1>6
<1> HIDE DEF par, base
<1>8. PICK f : Unrolls("parse", par, base, seq, f, end)
  <2>1. Len(seq) \in Nat /\ DOMAIN seq = 1 .. Len(seq)
    BY <1>2
  <2> QED BY <1>4, <2>1, FoldingUnrolls
<1>9. f[0] = base /\ f[n] = end /\ \A k \in 1 .. n : f[k] = Append(f[k - 1], Made(f[k - 1], k))
  <2>1. f[0] = base /\ f[n] = end /\ \A k \in 1 .. n : f[k] = ParseStep(par, f[k - 1], seq[k])
    BY <1>2, <1>8, Zenon DEF Unrolls, StepOf
  <2>2. \A b, x : ParseStep(par, b, x) = Append(b, Made(b, x))
    BY <1>5, Zenon DEF ParseStep
  <2> HIDE DEF Made
  <2>3. \A k \in 1 .. n : f[k] = ParseStep(par, f[k - 1], k)
    BY <1>2, <2>1
  <2>4. \A k \in 1 .. n : f[k] = Append(f[k - 1], Made(f[k - 1], k))
    BY <2>2, <2>3, Zenon
  <2> QED BY <2>1, <2>4
\* What is known of the choice at a place from those behind it.
<1> DEFINE Sound(b, x, c) ==
             /\ IsChoice(alpha, text, list, line, Place(x), b, c)
             /\ c.cost <= b[Len(b)].cost + ZcharCost(alpha, text[Place(x)])
             /\ \A a \in DOMAIN list : Place(x) \in list[a].occurrences[line]
                  => c.cost <= ReferenceCost + CostAhead(b, Len(list[a].key))
<1>10. ASSUME NEW k \in 1 .. n, NEW b \in Seq(R), Len(b) = k
       PROVE  Made(b, k) \in R /\ Sound(b, k, Made(b, k))
  <2>1. \A j \in 1 .. k : b[j].cost \in Nat
    <3> HIDE DEF R
    <3>1. \A j \in 1 .. k : b[j] \in R
      BY <1>10
    <3>2. \A r \in R : r.cost \in Nat
      BY DEF R
    <3> QED BY <3>1, <3>2
  <2>2. Known(list, line, Place(k), b)
    <3>1. k \in 1 .. k
      OBVIOUS
    <3>2. ASSUME NEW a \in DOMAIN list, Place(k) \in list[a].occurrences[line]
          PROVE  CostAhead(b, Len(list[a].key)) \in Nat
      <4>1. PICK m \in Nat : m = Len(list[a].key) /\ m >= 1
        <5>1. Len(list[a].key) \in Nat \ {0}
          BY DEF Fits
        <5> QED BY <5>1
      <4>2. Place(k) + m <= n + 1
        BY <1>1, <3>2, <4>1 DEF Fits
      <4>3. k + 1 - m \in 1 .. k
        BY <4>1, <4>2
      <4> QED BY <1>10, <2>1, <4>1, <4>3 DEF CostAhead
    <3> QED BY <1>10, <2>1, <3>1, <3>2 DEF Known
  <2> QED BY <1>3, <2>2, ChoiceFacts
<1> HIDE DEF Made, Sound, R
<1> DEFINE P(k) == /\ f[k] \in Seq(R) /\ Len(f[k]) = k + 1
                   /\ f[k][1] = e
           G == {k \in 0 .. n : P(k)}
<1>11. 0 \in G
  <2>1. P(0)
    BY <1>7, <1>9
  <2> QED BY <2>1
<1>12. ASSUME NEW k \in 1 .. n, k - 1 \in G PROVE k \in G
  <2>1. PICK b : b = f[k - 1] /\ b \in Seq(R) /\ Len(b) = k /\ b[1] = e
    BY <1>12
  <2>2. PICK c \in R : c = Made(b, k)
    BY <1>10, <2>1
  <2>3. f[k] = Append(b, c)
    BY <1>9, <2>1, <2>2
  <2>4. 1 \in DOMAIN b
    BY <2>1
  <2>5. f[k] \in Seq(R) /\ Len(f[k]) = k + 1 /\ f[k][1] = b[1]
    BY <2>1, <2>3, <2>4, AppendFacts
  <2>6. P(k)
    BY <2>1, <2>5
  <2> QED BY <2>6
<1>13. \A k \in 0 .. n : P(k)
  <2> HIDE DEF G
  <2>1. \A k \in 0 .. n : k \in G
    BY <1>11, <1>12, BoundedInduction
  <2> QED BY <2>1 DEF G
\* Choices stay.
<1>14. \A k \in 0 .. n : \A j \in 1 .. k + 1 : end[j] = f[k][j]
  <2> DEFINE Q(m) == \A k \in 0 .. m : \A j \in 1 .. k + 1 : f[m][j] = f[k][j]
             H == {m \in 0 .. n : Q(m)}
  <2>1. 0 \in H
    <3>1. Q(0)
      OBVIOUS
    <3> QED BY <3>1
  <2>2. ASSUME NEW m \in 1 .. n, m - 1 \in H PROVE m \in H
    <3>1. PICK b : b = f[m - 1] /\ b \in Seq(R) /\ Len(b) = m
      <4>1. P(m - 1) /\ (m - 1) + 1 = m
        BY <1>13
      <4> QED BY <4>1
    <3>2. PICK c \in R : c = Made(b, m)
      BY <1>10, <3>1
    <3>3. f[m] = Append(b, c)
      BY <1>9, <3>1, <3>2
    <3>4. \A j \in 1 .. m : f[m][j] = b[j]
      <4>1. DOMAIN b = 1 .. m /\ \A j \in DOMAIN b : f[m][j] = b[j]
        BY <3>1, <3>3, AppendFacts
      <4> QED BY <4>1
    <3>5. Q(m - 1)
      BY <2>2
    <3>6. ASSUME NEW k \in 0 .. m, NEW j \in 1 .. k + 1 PROVE f[m][j] = f[k][j]
      <4>1. CASE k = m
        BY <4>1
      <4>2. CASE k # m
        <5>1. k \in 0 .. m - 1 /\ j \in 1 .. m
          BY <4>2
        <5> QED BY <3>1, <3>4, <3>5, <5>1
      <4> QED BY <4>1, <4>2
    <3>7. Q(m)
      BY <3>6
    <3> QED BY <3>7
  <2>3. n \in H
    <3> HIDE DEF H
    <3>1. \A k \in 0 .. n : k \in H
      BY <2>1, <2>2, BoundedInduction
    <3> QED BY <3>1
  <2> QED BY <1>9, <2>3
<1>15. end \in Seq(R) /\ Len(end) = n + 1 /\ end[1] = e
  <2>1. n \in 0 .. n
    OBVIOUS
  <2>2. P(n)
    BY <1>13, <2>1
  <2> QED BY <1>9, <2>2
<1>16. /\ parse \in Seq(R) /\ Len(parse) = n + 1 /\ DOMAIN parse = 1 .. n + 1
       /\ \A i \in 1 .. n + 1 : parse[i] = end[(n + 1) + 1 - i]
  BY <1>4, <1>15, ReverseFacts
<1> HIDE DEF parse
<1>17. parse[n + 1] = e
  <2>1. n + 1 \in 1 .. n + 1 /\ (n + 1) + 1 - (n + 1) = 1
    OBVIOUS
  <2> QED BY <1>15, <1>16, <2>1
<1>18. ASSUME NEW i \in 1 .. n
       PROVE  /\ \/ parse[i].pick = 0 /\ parse[i].cost = parse[i + 1].cost + ZcharCost(alpha, text[i])
                 \/ /\ parse[i].pick \in DOMAIN list /\ i \in list[parse[i].pick].occurrences[line]
                    /\ parse[i].cost = ReferenceCost + parse[i + Len(list[parse[i].pick].key)].cost
              /\ parse[i].cost <= parse[i + 1].cost + ZcharCost(alpha, text[i])
              /\ \A a \in DOMAIN list : i \in list[a].occurrences[line]
                   => parse[i].cost <= ReferenceCost + parse[i + Len(list[a].key)].cost
  <2>1. PICK k \in 1 .. n : k = n + 1 - i /\ Place(k) = i
    <3>1. n + 1 - i \in 1 .. n /\ Place(n + 1 - i) = i
      OBVIOUS
    <3> QED BY <3>1
  <2>2. PICK b : b = f[k - 1] /\ b \in Seq(R) /\ Len(b) = k
    <3>1. P(k - 1) /\ (k - 1) + 1 = k
      BY <1>13
    <3> QED BY <3>1
  <2>3. PICK c : c = Made(b, k) /\ c \in R /\ Sound(b, k, c)
    BY <1>10, <2>2
  <2>4. parse[i] = c
    <3>1. f[k] = Append(b, c)
      BY <1>9, <2>2, <2>3
    <3>2. f[k][k + 1] = c
      BY <2>2, <2>3, <3>1, AppendFacts
    <3>3. (n + 1) + 1 - i = k + 1 /\ k \in 0 .. n /\ k + 1 \in 1 .. k + 1 /\ i \in 1 .. n + 1
      BY <2>1
    <3> QED BY <1>14, <1>16, <3>2, <3>3
  <2>5. ASSUME NEW m \in 1 .. k PROVE CostAhead(b, m) = parse[i + m].cost
    <3>1. k + 1 - m \in 1 .. k /\ i + m \in 1 .. n + 1 /\ (n + 1) + 1 - (i + m) = k + 1 - m
      BY <2>1
    <3>2. parse[i + m] = end[k + 1 - m]
      BY <1>16, <3>1
    <3>3. end[k + 1 - m] = b[k + 1 - m]
      <4>1. k - 1 \in 0 .. n /\ k + 1 - m \in 1 .. (k - 1) + 1
        BY <3>1
      <4> QED BY <1>14, <2>2, <4>1
    <3> QED BY <2>2, <3>2, <3>3 DEF CostAhead
  <2>6. b[Len(b)].cost = parse[i + 1].cost
    <3>1. 1 \in 1 .. k /\ k + 1 - 1 = k
      OBVIOUS
    <3>2. CostAhead(b, 1) = parse[i + 1].cost
      BY <2>5, <3>1
    <3> QED BY <2>2, <3>1, <3>2 DEF CostAhead
  <2>7. ASSUME NEW a \in DOMAIN list, i \in list[a].occurrences[line]
        PROVE  CostAhead(b, Len(list[a].key)) = parse[i + Len(list[a].key)].cost
    <3>1. PICK m \in Nat : m = Len(list[a].key) /\ m >= 1
      <4>1. Len(list[a].key) \in Nat \ {0}
        BY DEF Fits
      <4> QED BY <4>1
    <3>2. i + m <= n + 1
      BY <1>1, <2>7, <3>1 DEF Fits
    <3>3. m \in 1 .. k
      BY <2>1, <3>1, <3>2
    <3> QED BY <2>5, <3>1, <3>3
  <2>8. IsChoice(alpha, text, list, line, i, b, c)
    BY <2>1, <2>3 DEF Sound
  <2>9. /\ c.cost <= b[Len(b)].cost + ZcharCost(alpha, text[i])
        /\ \A a \in DOMAIN list : i \in list[a].occurrences[line]
             => c.cost <= ReferenceCost + CostAhead(b, Len(list[a].key))
    BY <2>1, <2>3 DEF Sound
  <2>10. \/ c.pick = 0 /\ c.cost = parse[i + 1].cost + ZcharCost(alpha, text[i])
         \/ /\ c.pick \in DOMAIN list /\ i \in list[c.pick].occurrences[line]
            /\ c.cost = ReferenceCost + parse[i + Len(list[c.pick].key)].cost
    BY <2>6, <2>7, <2>8 DEF IsChoice
  <2> QED BY <2>4, <2>6, <2>7, <2>9, <2>10
<1>19. IsParse(alpha, text, list, line, n, parse)
  BY <1>3, <1>6, <1>16, <1>17, <1>18 DEF IsParse, R
<1> QED BY <1>1, <1>19 DEF parse

(* Abbreviations are taken where one was picked.                           *)
LEMMA TakenFacts ==
  ASSUME NEW R, NEW parse \in Seq(R), NEW list
  PROVE  /\ Taken(parse, list) \subseteq {i \in 1 .. Len(parse) : parse[i].pick # 0}
         /\ IsFiniteSet(Taken(parse, list))
<1>1. PICK n \in Nat : n = Len(parse)
  OBVIOUS
<1>2. PICK seq : seq = PlacesOf(parse) /\ Len(seq) = n /\ DOMAIN seq = 1 .. n /\ \A k \in 1 .. n : seq[k] = k
  BY <1>1, PlacesFacts
<1> DEFINE par == [parse |-> parse, list |-> list]
           base == [next |-> 1, taken |-> {}]
<1>3. PICK end : end = Folding("taken", par, base, seq)[DOMAIN seq] /\ Taken(parse, list) = end.taken
  BY <1>2, TakenFold
<1>4. par.parse = parse /\ par.list = list /\ base.taken = {}
  OBVIOUS
<1> HIDE DEF par, base
<1>5. PICK f : Unrolls("taken", par, base, seq, f, end)
  <2>1. Len(seq) \in Nat /\ DOMAIN seq = 1 .. Len(seq)
    BY <1>2
  <2> QED BY <1>3, <2>1, FoldingUnrolls
<1>6. f[0] = base /\ f[n] = end /\ \A k \in 1 .. n : f[k] = TakenStep(par, f[k - 1], seq[k])
  BY <1>2, <1>5, Zenon DEF Unrolls, StepOf
<1>7. \A st, i : \/ TakenStep(par, st, i).taken = st.taken
                 \/ parse[i].pick # 0 /\ TakenStep(par, st, i).taken = st.taken \union {i}
  BY <1>4 DEF TakenStep
<1> DEFINE P(k) == f[k].taken \subseteq {i \in 1 .. n : parse[i].pick # 0}
           G == {k \in 0 .. n : P(k)}
<1>8. 0 \in G
  BY <1>4, <1>6
<1>9. ASSUME NEW k \in 1 .. n, k - 1 \in G PROVE k \in G
  <2>1. seq[k] = k /\ f[k] = TakenStep(par, f[k - 1], seq[k])
    BY <1>2, <1>6
  <2>2. f[k].taken = f[k - 1].taken \/ (parse[k].pick # 0 /\ f[k].taken = f[k - 1].taken \union {k})
    BY <1>7, <2>1
  <2>3. P(k - 1)
    BY <1>9
  <2>4. P(k)
    BY <2>2, <2>3
  <2> QED BY <2>4
<1>10. P(n)
  <2>1. n \in G
    <3> HIDE DEF G
    <3>1. \A k \in 0 .. n : k \in G
      BY <1>8, <1>9, BoundedInduction
    <3> QED BY <3>1
  <2> QED BY <2>1
<1>11. Taken(parse, list) \subseteq {i \in 1 .. n : parse[i].pick # 0}
  BY <1>3, <1>6, <1>10
<1>12. IsFiniteSet(1 .. n)
  BY FS_Interval
<1>13. Taken(parse, list) \in SUBSET (1 .. n)
  BY <1>11
<1>14. IsFiniteSet(Taken(parse, list))
  BY <1>12, <1>13, FS_Subset
<1> QED BY <1>1, <1>11, <1>14

----------------------------------------------------------------------------
(* Texts and lists of patterns.                                            *)

\* Whether a text is a string of high memory.
Bit(b) == b \in BOOLEAN

\* A text has characters, is in high memory or not, and is filled up to some unit.
IsGameText(t) ==
  /\ {"text", "packed", "unit"} \subseteq DOMAIN t
  /\ t.text \in Seq(Int) /\ Bit(t.packed) /\ t.unit \in Nat \ {0}

\* The texts that were read.
Readable(texts) == texts \in Seq(Range(texts)) /\ \A t \in DOMAIN texts : IsGameText(texts[t])

\* What a parse needs of a list.
Usable(texts, list) ==
  /\ list \in Seq(Range(list))
  /\ \A a \in DOMAIN list : /\ list[a].key \in Seq(Int) \ {<<>>}
                            /\ list[a].cost \in Nat
                            /\ list[a].occurrences = Occurrences(texts, list[a].key)

(* It fits all texts.                                                      *)
LEMMA UsableFits ==
  ASSUME NEW texts, Readable(texts), NEW list, Usable(texts, list), NEW line \in DOMAIN texts
  PROVE  Fits(list, line, Len(texts[line].text))
         /\ \A a \in DOMAIN list : \A i \in list[a].occurrences[line] : IsAt(texts[line].text, list[a].key, i)
<1> DEFINE n == Len(texts[line].text)
<1>1. texts[line].text \in Seq(Int) /\ n \in Nat /\ DOMAIN texts[line].text = 1 .. n
  BY DEF Readable, IsGameText
<1>2. ASSUME NEW a \in DOMAIN list
      PROVE  /\ Len(list[a].key) \in Nat \ {0}
             /\ \A i \in list[a].occurrences[line] : i \in 1 .. n /\ i + Len(list[a].key) <= n + 1
                                                     /\ IsAt(texts[line].text, list[a].key, i)
  <2>1. list[a].key \in Seq(Int) /\ list[a].key # <<>>
    BY DEF Usable
  <2>2. Len(list[a].key) \in Nat \ {0}
    BY <2>1
  <2>3. list[a].occurrences[line] = {i \in DOMAIN texts[line].text : IsAt(texts[line].text, list[a].key, i)}
    BY DEF Usable, Occurrences
  <2>4. ASSUME NEW i \in list[a].occurrences[line]
        PROVE  i \in 1 .. n /\ i + Len(list[a].key) <= n + 1 /\ IsAt(texts[line].text, list[a].key, i)
    <3>1. i \in 1 .. n /\ IsAt(texts[line].text, list[a].key, i)
      BY <1>1, <2>3
    <3>2. i + Len(list[a].key) - 1 <= n
      BY <3>1 DEF IsAt
    <3> HIDE DEF n
    <3> QED BY <1>1, <2>2, <3>1, <3>2
  <2> QED BY <2>2, <2>4
<1> QED BY <1>2 DEF Fits

\* What a parse of a text leaves.
IsLeft(alpha, texts, list, line, left) ==
  LET n == Len(texts[line].text)
  IN  \E parse :
        /\ IsParse(alpha, texts[line].text, list, line, n, parse)
        /\ left = LeftInLine(texts[line], list, parse)

(* The parses of all texts.                                                *)
LEMMA ParsesFacts ==
  ASSUME NEW alpha, NEW texts, Readable(texts), NEW list, Usable(texts, list)
  PROVE  LET parse == ParseAll(alpha, texts, list)
         IN  DOMAIN parse = DOMAIN texts /\ \A t \in DOMAIN texts : IsLeft(alpha, texts, list, t, parse[t])
<1> DEFINE all == ParseAll(alpha, texts, list)
<1>1. DOMAIN all = DOMAIN texts
  BY DEF ParseAll
<1>2. ASSUME NEW t \in DOMAIN texts PROVE IsLeft(alpha, texts, list, t, all[t])
  <2>1. PICK p : p = ParseLine(alpha, texts[t].text, list, t)
    OBVIOUS
  <2>2. texts[t].text \in Seq(Int) /\ list \in Seq(Range(list))
    BY DEF Readable, IsGameText, Usable
  <2>3. IsParse(alpha, texts[t].text, list, t, Len(texts[t].text), p)
    BY <2>1, <2>2, UsableFits, ParseFacts
  <2>4. all[t] = LeftInLine(texts[t], list, p)
    BY <2>1 DEF ParseAll
  <2> QED BY <2>3, <2>4 DEF IsLeft
<1> QED BY <1>1, <1>2

\* Numbers that a parse leaves.
Left(list, n, unit, left) ==
  /\ left.minimal \in Nat /\ left.rounding \in 0 .. unit - 1 /\ left.bytes \in Nat
  /\ left.taken \in SUBSET (1 .. n) /\ IsFiniteSet(left.taken)
  /\ DOMAIN left.picked = 1 .. n
  /\ \A i \in 1 .. n : left.picked[i] \in 0 .. Len(list)
  /\ \A i \in left.taken : left.picked[i] \in DOMAIN list

(* They are of that kind.                                                  *)
LEMMA LeftFacts ==
  ASSUME NEW alpha, NEW texts, Readable(texts), NEW list, Usable(texts, list), NEW line \in DOMAIN texts,
         NEW left, IsLeft(alpha, texts, list, line, left)
  PROVE  Left(list, Len(texts[line].text), texts[line].unit, left)
<1>1. PICK n \in Nat : n = Len(texts[line].text) /\ DOMAIN texts[line].text = 1 .. n
  BY DEF Readable, IsGameText
<1>2. PICK parse : /\ IsParse(alpha, texts[line].text, list, line, n, parse)
                   /\ left = LeftInLine(texts[line], list, parse)
  BY <1>1, Zenon DEF IsLeft
<1>3. PICK unit \in Nat \ {0} : unit = texts[line].unit
  BY DEF Readable, IsGameText
<1>4. PICK ld \in Nat : ld = Len(list) /\ DOMAIN list = 1 .. ld
  BY DEF Usable
<1>5. /\ parse \in Seq([cost : Nat, pick : 0 .. ld]) /\ Len(parse) = n + 1 /\ DOMAIN parse = 1 .. n + 1
      /\ parse[n + 1].pick = 0
      /\ \A i \in 1 .. n : parse[i].pick = 0 \/ parse[i].pick \in DOMAIN list
  BY <1>2, <1>4 DEF IsParse
<1>6. \A i \in 1 .. n + 1 : parse[i].cost \in Nat /\ parse[i].pick \in 0 .. ld
  <2> DEFINE R == [cost : Nat, pick : 0 .. ld]
  <2>1. parse \in Seq(R)
    BY <1>5
  <2>2. PICK m \in Nat : m = n + 1
    OBVIOUS
  <2>3. \A x \in R : x.cost \in Nat /\ x.pick \in 0 .. ld
    OBVIOUS
  <2> HIDE DEF R
  <2>4. \A i \in 1 .. m : parse[i] \in R
    BY <1>5, <2>1, <2>2, SeqWithin
  <2> QED BY <2>2, <2>3, <2>4
<1>7. parse[1].cost \in Nat
  <2>1. 1 \in 1 .. n + 1
    OBVIOUS
  <2> QED BY <1>6, <2>1
<1>8. /\ left.picked = [i \in 1 .. n |-> parse[i].pick]
      /\ left.taken = Taken(parse, list)
      /\ left.minimal = parse[1].cost
      /\ left.rounding = RoundingCost(parse[1].cost, unit)
      /\ left.bytes = LineBytes(parse[1].cost, unit)
  BY <1>1, <1>2, <1>3 DEF LeftInLine
<1>9. PICK c \in Nat : c = parse[1].cost
  BY <1>7
<1>10. RoundingCost(c, unit) \in 0 .. unit - 1
  <2>1. PICK m \in 0 .. unit - 1 : m = c % unit
    OBVIOUS
  <2>2. PICK d \in Nat : d = unit - m
    BY <2>1
  <2>3. d % unit \in 0 .. unit - 1
    OBVIOUS
  <2> QED BY <2>1, <2>2, <2>3 DEF RoundingCost
<1>11. LineBytes(c, unit) \in Nat
  <2>1. PICK r \in Nat : r = RoundingCost(c, unit)
    BY <1>10
  <2>2. PICK d \in Nat : d = (c + r) * 2
    BY <1>9
  <2>3. d \div 3 \in Nat
    OBVIOUS
  <2> QED BY <2>1, <2>2, <2>3 DEF LineBytes
<1>12. left.taken \subseteq {i \in 1 .. n + 1 : parse[i].pick # 0} /\ IsFiniteSet(left.taken)
  BY <1>5, <1>8, TakenFacts
<1>13. \A i \in left.taken : i \in 1 .. n /\ parse[i].pick \in DOMAIN list
  <2> SUFFICES ASSUME NEW i \in left.taken PROVE i \in 1 .. n /\ parse[i].pick \in DOMAIN list
    OBVIOUS
  <2>1. i \in 1 .. n + 1 /\ parse[i].pick # 0
    BY <1>12
  <2>2. i # n + 1
    BY <1>5, <2>1
  <2>3. i \in 1 .. n
    BY <2>1, <2>2
  <2> QED BY <1>5, <2>1, <2>3
<1>14. \A i \in 1 .. n : left.picked[i] = parse[i].pick /\ left.picked[i] \in 0 .. ld
  <2>1. \A i \in 1 .. n : i \in 1 .. n + 1
    OBVIOUS
  <2> QED BY <1>6, <1>8, <2>1
<1> QED BY <1>1, <1>3, <1>4, <1>7, <1>8, <1>9, <1>10, <1>11, <1>12, <1>13, <1>14 DEF Left

\* Patterns whose numbers are true of the keys they have now; occurrences may not be known yet.
IsPattern(alpha, texts, p) ==
  /\ DOMAIN p = {"key", "cost", "frequency", "savings", "occurrences"}
  /\ p.key \in Seq(Int) \ {<<>>}
  /\ p.cost = ZstringCost(alpha, p.key)
  /\ p.frequency \in Nat /\ p.savings \in Int
  /\ p.occurrences = <<>> \/ p.occurrences = Occurrences(texts, p.key)

\* A memory of patterns whose costs and places are those of their keys.
Current(alpha, texts, mem) == \A p \in DOMAIN mem : IsPattern(alpha, texts, mem[p])

\* What a parse looks at in a list of patterns with these keys.
SeenOf(alpha, texts, keys) ==
  [a \in DOMAIN keys |-> [key |-> keys[a], cost |-> ZstringCost(alpha, keys[a]),
                          occurrences |-> Occurrences(texts, keys[a])]]

\* The bytes that texts and abbreviations with these keys take.
Size(alpha, version, texts, sizes, keys) ==
  TotalBytes(version, texts, SeenOf(alpha, texts, keys),
             ParseAll(alpha, texts, SeenOf(alpha, texts, keys)), sizes)

\* The keys of a list.
KeysOf(mem, list) == [a \in DOMAIN list |-> mem[list[a]].key]

(* A list of patterns with keys can be used by the parse.                  *)
LEMMA SeenUsable ==
  ASSUME NEW alpha, NEW texts, NEW n \in Nat, NEW keys, DOMAIN keys = 1 .. n,
         \A a \in 1 .. n : keys[a] \in Seq(Int) \ {<<>>}
  PROVE  Usable(texts, SeenOf(alpha, texts, keys)) /\ DOMAIN SeenOf(alpha, texts, keys) = 1 .. n
         /\ Len(SeenOf(alpha, texts, keys)) = n
<1> DEFINE list == SeenOf(alpha, texts, keys)
           Item(a) == [key |-> keys[a], cost |-> ZstringCost(alpha, keys[a]),
                       occurrences |-> Occurrences(texts, keys[a])]
<1>1. list = [a \in 1 .. n |-> Item(a)]
  BY DEF SeenOf
<1>2. ASSUME NEW a \in 1 .. n
      PROVE  /\ Item(a).key = keys[a] /\ Item(a).cost = ZstringCost(alpha, keys[a])
             /\ Item(a).occurrences = Occurrences(texts, keys[a])
             /\ ZstringCost(alpha, keys[a]) \in Nat
  BY CostTotal
<1> HIDE DEF Item, list
<1>3. DOMAIN list = 1 .. n /\ \A a \in 1 .. n : list[a] = Item(a)
  BY <1>1, Zenon
<1>4. list \in [1 .. n -> Range(list)]
  <2>1. \A a \in 1 .. n : list[a] \in Range(list)
    BY <1>3 DEF Range
  <2>2. list = [a \in 1 .. n |-> list[a]]
    BY <1>1, <1>3, Zenon
  <2> QED BY <2>1, <2>2, Zenon
<1>5. list \in Seq(Range(list)) /\ Len(list) = n
  <2> DEFINE R == Range(list)
  <2> HIDE DEF R
  <2>1. list \in [1 .. n -> R]
    BY <1>4 DEF R
  <2>2. list \in Seq(R) /\ Len(list) = n
    BY <2>1, FunctionIsSeq
  <2> QED BY <2>2 DEF R
<1>6. \A a \in 1 .. n : /\ list[a].key \in Seq(Int) \ {<<>>} /\ list[a].cost \in Nat
                        /\ list[a].occurrences = Occurrences(texts, list[a].key)
  BY <1>2, <1>3
<1> QED BY <1>3, <1>5, <1>6 DEF Usable, list

\* The patterns of a list, as a rescoring gets them.
PatternsOfList(mem, list) == [a \in DOMAIN list |-> mem[list[a]]]

(* A rescoring looks at nothing but keys.                                  *)
LEMMA LocatedFacts ==
  ASSUME NEW alpha, NEW texts, NEW mem, Current(alpha, texts, mem), NEW list, NEW n \in Nat,
         DOMAIN list = 1 .. n, \A a \in 1 .. n : list[a] \in DOMAIN mem
  PROVE  LET located == Located(texts, PatternsOfList(mem, list))
         IN  /\ Seen(located) = SeenOf(alpha, texts, KeysOf(mem, list))
             /\ DOMAIN located = 1 .. n
             /\ \A a \in 1 .. n :
                  /\ IsPattern(alpha, texts, located[a])
                  /\ located[a].key = mem[list[a]].key
                  /\ located[a].occurrences = Occurrences(texts, mem[list[a]].key)
<1> DEFINE located == Located(texts, PatternsOfList(mem, list))
           P(a) == mem[list[a]]
           L(a) == IF P(a).occurrences # <<>> THEN P(a)
                   ELSE [P(a) EXCEPT !.occurrences = Occurrences(texts, P(a).key)]
<1>1. located = [a \in 1 .. n |-> L(a)]
  <2> DEFINE given == PatternsOfList(mem, list)
  <2>1. DOMAIN given = 1 .. n /\ \A a \in 1 .. n : given[a] = P(a)
    BY Zenon DEF PatternsOfList
  <2> HIDE DEF given, P
  <2>2. located = [a \in 1 .. n |->
                    IF given[a].occurrences # <<>> THEN given[a]
                    ELSE [given[a] EXCEPT !.occurrences = Occurrences(texts, given[a].key)]]
    BY <2>1, Zenon DEF Located, given
  <2> QED BY <2>1, <2>2, Zenon
<1>2. ASSUME NEW a \in 1 .. n
      PROVE  /\ IsPattern(alpha, texts, L(a)) /\ L(a).key = P(a).key /\ L(a).cost = ZstringCost(alpha, P(a).key)
             /\ L(a).occurrences = Occurrences(texts, P(a).key)
  <2>1. PICK p : p = P(a) /\ IsPattern(alpha, texts, p)
    BY DEF Current
  <2>2. PICK o : o = Occurrences(texts, p.key)
    OBVIOUS
  <2>3. CASE p.occurrences # <<>>
    <3>1. L(a) = p
      BY <2>1, <2>3
    <3> QED BY <2>1, <2>3, <3>1 DEF IsPattern
  <2>4. CASE p.occurrences = <<>>
    <3>1. L(a) = [p EXCEPT !.occurrences = o]
      BY <2>1, <2>2, <2>4
    <3>2. PICK q : q = [p EXCEPT !.occurrences = o]
      OBVIOUS
    <3>3. /\ DOMAIN q = DOMAIN p /\ q.occurrences = o /\ q.key = p.key /\ q.cost = p.cost
          /\ q.frequency = p.frequency /\ q.savings = p.savings
      BY <2>1, <3>2 DEF IsPattern
    <3> HIDE DEF P, L
    <3>4. IsPattern(alpha, texts, q)
      BY <2>1, <2>2, <3>3 DEF IsPattern
    <3> QED BY <2>1, <2>2, <3>1, <3>2, <3>3, <3>4 DEF IsPattern
  <2> QED BY <2>3, <2>4
<1> HIDE DEF L
<1>3. DOMAIN located = 1 .. n /\ \A a \in 1 .. n : located[a] = L(a)
  BY <1>1, Zenon
<1>4. Seen(located) = SeenOf(alpha, texts, KeysOf(mem, list))
  <2> DEFINE keys == KeysOf(mem, list)
  <2>1. DOMAIN keys = 1 .. n /\ \A a \in 1 .. n : keys[a] = P(a).key
    BY Zenon DEF KeysOf
  <2> HIDE DEF P, keys, located
  <2>2. Seen(located) = [a \in 1 .. n |-> [key |-> located[a].key, cost |-> located[a].cost,
                                            occurrences |-> located[a].occurrences]]
    BY <1>3, Zenon DEF Seen
  <2>3. SeenOf(alpha, texts, keys) = [a \in 1 .. n |-> [key |-> keys[a], cost |-> ZstringCost(alpha, keys[a]),
                                            occurrences |-> Occurrences(texts, keys[a])]]
    BY <2>1, Zenon DEF SeenOf
  <2>4. ASSUME NEW a \in 1 .. n
        PROVE  [key |-> located[a].key, cost |-> located[a].cost, occurrences |-> located[a].occurrences]
               = [key |-> keys[a], cost |-> ZstringCost(alpha, keys[a]), occurrences |-> Occurrences(texts, keys[a])]
    <3>1. located[a].key = keys[a] /\ located[a].cost = ZstringCost(alpha, keys[a])
          /\ located[a].occurrences = Occurrences(texts, keys[a])
      BY <1>2, <1>3, <2>1, Zenon
    <3> QED BY <3>1, Zenon
  <2>5. Seen(located) = SeenOf(alpha, texts, keys)
    BY <2>2, <2>3, <2>4, Zenon
  <2> QED BY <2>5 DEF keys
<1> QED BY <1>2, <1>3, <1>4

\* Parses that take finitely many abbreviations.
Finite(parse, n) == DOMAIN parse = 1 .. n /\ \A t \in 1 .. n : IsFiniteSet(parse[t].taken)

(* Frequencies are natural numbers.                                        *)
LEMMA FrequencyFacts ==
  ASSUME NEW n \in Nat, NEW parse, Finite(parse, n), NEW a
  PROVE  Frequency(parse, a) \in Nat
<1> DEFINE f(t) == Cardinality({i \in parse[t].taken : parse[t].picked[i] = a})
           s == [t \in 1 .. n |-> f(t)]
<1>1. ASSUME NEW t \in 1 .. n PROVE f(t) \in Nat
  <2>1. IsFiniteSet(parse[t].taken)
    BY DEF Finite
  <2>2. {i \in parse[t].taken : parse[t].picked[i] = a} \subseteq parse[t].taken
    OBVIOUS
  <2>3. IsFiniteSet({i \in parse[t].taken : parse[t].picked[i] = a})
    BY <2>1, <2>2, FS_Subset, Zenon
  <2> QED BY <2>3, FS_CardinalityType
<1>2. Frequency(parse, a) = Total(s)
  BY Zenon DEF Frequency, Finite
<1> HIDE DEF f
<1>3. DOMAIN s = 1 .. n /\ \A t \in 1 .. n : s[t] = f(t) /\ s[t] \in Nat
  BY <1>1, Zenon
<1>4. Numbers(s, n) /\ \A t \in 1 .. n : s[t] \in Nat
  <2>1. s = [t \in 1 .. n |-> s[t]]
    BY <1>3, Zenon
  <2>2. \A t \in 1 .. n : s[t] \in Nat
    BY <1>3
  <2> HIDE DEF s
  <2>3. \A t \in 1 .. n : s[t] \in Int
    BY <2>2
  <2> QED BY <2>1, <2>2, <2>3, NumbersFrom
<1> HIDE DEF s
<1> QED BY <1>2, <1>4, TotalNatural

(* Savings are whole numbers.                                              *)
LEMMA ScoreFacts ==
  ASSUME NEW f \in Nat, NEW cost \in Nat
  PROVE  PatternScore(f, cost) \in Int /\ RoundUpTo(cost, 3) \in Nat
<1>1. PICK r \in Nat : r = (cost + 3 - 1) \div 3
  OBVIOUS
<1>2. RoundUpTo(cost, 3) = r * 3
  BY <1>1 DEF RoundUpTo
<1>3. r * 3 \in Nat
  OBVIOUS
<1>4. f * (cost - 2) \in Int
  OBVIOUS
<1> QED BY <1>2, <1>3, <1>4 DEF PatternScore

\* A list of n patterns.
Patterned(alpha, texts, list, n) ==
  n \in Nat /\ DOMAIN list = 1 .. n /\ \A a \in 1 .. n : IsPattern(alpha, texts, list[a])

\* The list with new frequencies.
IsScored(alpha, texts, list, parse, n, scored) ==
  /\ DOMAIN scored = 1 .. n
  /\ \A a \in 1 .. n : /\ IsPattern(alpha, texts, scored[a])
                       /\ scored[a].key = list[a].key
                       /\ scored[a].occurrences = list[a].occurrences
                       /\ scored[a].frequency = Frequency(parse, a)
                       /\ scored[a].savings = PatternScore(Frequency(parse, a), list[a].cost)

(* A list scored.                                                          *)
LEMMA ScoredFacts ==
  ASSUME NEW alpha, NEW texts, NEW m \in Nat, NEW parse, Finite(parse, m), NEW n \in Nat,
         NEW list, Patterned(alpha, texts, list, n)
  PROVE  IsScored(alpha, texts, list, parse, n, Scored(list, parse))
<1> DEFINE scored == Scored(list, parse)
           S(a) == [list[a] EXCEPT !.frequency = Frequency(parse, a),
                                   !.savings = PatternScore(Frequency(parse, a), list[a].cost)]
<1>1. scored = [a \in 1 .. n |-> S(a)]
  BY Zenon DEF Scored, Patterned
<1>2. ASSUME NEW a \in 1 .. n
      PROVE  /\ IsPattern(alpha, texts, S(a)) /\ S(a).key = list[a].key /\ S(a).occurrences = list[a].occurrences
             /\ S(a).frequency = Frequency(parse, a)
             /\ S(a).savings = PatternScore(Frequency(parse, a), list[a].cost)
  <2>1. PICK p : p = list[a] /\ IsPattern(alpha, texts, p)
    BY DEF Patterned
  <2>2. PICK f \in Nat : f = Frequency(parse, a)
    BY FrequencyFacts
  <2>3. p.cost \in Nat
    <3>1. PICK k : k = p.key
      OBVIOUS
    <3>2. k \in Seq(Int) /\ p.cost = ZstringCost(alpha, k)
      BY <2>1, <3>1 DEF IsPattern
    <3>3. ZstringCost(alpha, k) \in Nat
      BY <3>2, CostTotal
    <3> QED BY <3>2, <3>3
  <2>4. PICK w \in Int : w = PatternScore(f, p.cost)
    BY <2>3, ScoreFacts
  <2>5. S(a) = [p EXCEPT !.frequency = f, !.savings = w]
    BY <2>1, <2>2, <2>4
  <2>6. PICK q : q = [p EXCEPT !.frequency = f, !.savings = w]
    OBVIOUS
  <2>7. /\ DOMAIN q = DOMAIN p /\ q.occurrences = p.occurrences /\ q.key = p.key /\ q.cost = p.cost
        /\ q.frequency = f /\ q.savings = w
    BY <2>1, <2>6 DEF IsPattern
  <2> HIDE DEF S
  <2>8. IsPattern(alpha, texts, q)
    BY <2>1, <2>7 DEF IsPattern
  <2> QED BY <2>1, <2>2, <2>4, <2>5, <2>6, <2>7, <2>8
<1> HIDE DEF S
<1>3. DOMAIN scored = 1 .. n /\ \A a \in 1 .. n : scored[a] = S(a)
  BY <1>1, Zenon
<1> QED BY <1>2, <1>3 DEF IsScored

\* What a rescoring of a list leaves.
Scan(alpha, version, texts, sizes, mem, list) ==
  Results(mem, list, Rescore(alpha, version, texts, sizes, PatternsOfList(mem, list)))

\* Keys and costs stay, other patterns too; what is chosen has its occurrences.
Scanned(alpha, texts, mem, list, new) ==
  /\ DOMAIN new = DOMAIN mem
  /\ \A p \in DOMAIN mem : new[p].key = mem[p].key /\ new[p].cost = mem[p].cost
  /\ \A p \in DOMAIN mem \ Range(list) : new[p] = mem[p]
  /\ \A p \in Range(list) : new[p].occurrences = Occurrences(texts, mem[p].key)
  /\ Current(alpha, texts, new)

(* So it is, and the size is that of the keys.                             *)
LEMMA ScanFacts ==
  ASSUME NEW alpha, NEW version, NEW texts, Readable(texts), NEW sizes,
         NEW mem, Current(alpha, texts, mem), NEW list \in Seq(DOMAIN mem)
  PROVE  LET r    == Scan(alpha, version, texts, sizes, mem, list)
             seen == SeenOf(alpha, texts, KeysOf(mem, list))
         IN  /\ Scanned(alpha, texts, mem, list, r.pats)
             /\ r.bytes = Size(alpha, version, texts, sizes, KeysOf(mem, list))
             /\ r.parses = ParseAll(alpha, texts, seen)
             /\ Usable(texts, seen) /\ Finite(r.parses, Len(texts))
<1>1. PICK n \in Nat : DOMAIN list = 1 .. n
  OBVIOUS
<1>2. \A a \in 1 .. n : list[a] \in DOMAIN mem
  BY <1>1
<1> DEFINE given == PatternsOfList(mem, list)
           located == Located(texts, given)
           keys == KeysOf(mem, list)
           seen == SeenOf(alpha, texts, keys)
           parse == ParseAll(alpha, texts, seen)
           scored == Scored(located, parse)
           r == Scan(alpha, version, texts, sizes, mem, list)
<1>3. /\ Seen(located) = seen /\ DOMAIN located = 1 .. n
      /\ \A a \in 1 .. n :
           /\ IsPattern(alpha, texts, located[a]) /\ located[a].key = mem[list[a]].key
           /\ located[a].occurrences = Occurrences(texts, mem[list[a]].key)
  BY <1>1, <1>2, LocatedFacts
<1>4. DOMAIN keys = 1 .. n /\ \A a \in 1 .. n : keys[a] = mem[list[a]].key /\ keys[a] \in Seq(Int) \ {<<>>}
  <2>1. DOMAIN keys = 1 .. n /\ \A a \in 1 .. n : keys[a] = mem[list[a]].key
    BY <1>1, Zenon DEF KeysOf
  <2> QED BY <1>2, <2>1 DEF Current, IsPattern
<1>5. Usable(texts, seen) /\ DOMAIN seen = 1 .. n
  <2> HIDE DEF keys
  <2> QED BY <1>4, SeenUsable
<1>6. Finite(parse, Len(texts)) /\ Len(texts) \in Nat
  <2> HIDE DEF seen
  <2>1. DOMAIN parse = DOMAIN texts /\ \A t \in DOMAIN texts : IsLeft(alpha, texts, seen, t, parse[t])
    BY <1>5, ParsesFacts
  <2> HIDE DEF parse
  <2>2. \A t \in DOMAIN texts : Left(seen, Len(texts[t].text), texts[t].unit, parse[t])
    BY <1>5, <2>1, LeftFacts
  <2>3. Len(texts) \in Nat /\ DOMAIN texts = 1 .. Len(texts)
    BY DEF Readable
  <2> QED BY <2>1, <2>2, <2>3 DEF Finite, Left
<1>7. /\ DOMAIN scored = 1 .. n
      /\ \A a \in 1 .. n : /\ IsPattern(alpha, texts, scored[a]) /\ scored[a].key = located[a].key
                           /\ scored[a].occurrences = located[a].occurrences
  <2>1. PICK m \in Nat : m = Len(texts)
    BY <1>6
  <2>2. Finite(parse, m) /\ DOMAIN located = 1 .. n /\ \A a \in 1 .. n : IsPattern(alpha, texts, located[a])
    BY <1>3, <1>6, <2>1
  <2>3. PICK l, q : l = located /\ q = parse
    OBVIOUS
  <2>4. Finite(q, m) /\ Patterned(alpha, texts, l, n)
    BY <2>2, <2>3 DEF Patterned
  <2>5. IsScored(alpha, texts, l, q, n, Scored(l, q))
    BY <2>4, ScoredFacts
  <2> HIDE DEF located, parse
  <2>6. scored = Scored(l, q)
    BY <2>3, Zenon
  <2> HIDE DEF scored
  <2> QED BY <2>3, <2>5, <2>6 DEF IsScored
<1>8. /\ r.parses = parse /\ r.bytes = TotalBytes(version, texts, scored, parse, sizes)
      /\ r.pats = [p \in DOMAIN mem |->
                    IF p \in Range(list) THEN scored[CHOOSE a \in DOMAIN list : list[a] = p] ELSE mem[p]]
  <2>1. PICK q : q = Rescore(alpha, version, texts, sizes, given)
    OBVIOUS
  <2>2. q = Outcome(version, texts, sizes, scored, parse)
    BY <1>3, <2>1, Zenon DEF Rescore, Assessed
  <2> HIDE DEF scored, parse, given
  <2>3. q.list = scored /\ q.parses = parse /\ q.bytes = TotalBytes(version, texts, scored, parse, sizes)
    BY <2>2 DEF Outcome
  <2>4. r = Results(mem, list, q)
    BY <2>1, Zenon DEF Scan, given
  <2> HIDE DEF r
  <2>5. /\ r.parses = q.parses /\ r.bytes = q.bytes
        /\ r.pats = [p \in DOMAIN mem |->
                      IF p \in Range(list) THEN q.list[CHOOSE a \in DOMAIN list : list[a] = p] ELSE mem[p]]
    BY <2>4 DEF Results
  <2> QED BY <2>3, <2>5, Zenon
<1> DEFINE new == r.pats
<1>9. ASSUME NEW p \in Range(list)
      PROVE  /\ p \in DOMAIN mem /\ IsPattern(alpha, texts, new[p]) /\ new[p].key = mem[p].key
             /\ new[p].occurrences = Occurrences(texts, mem[p].key)
  <2>1. PICK a : a = CHOOSE b \in DOMAIN list : list[b] = p
    OBVIOUS
  <2>2. \E b \in DOMAIN list : list[b] = p
    BY DEF Range
  <2>3. a \in DOMAIN list /\ list[a] = p
    BY <2>1, <2>2
  <2>4. p \in DOMAIN mem
    BY <2>3
  <2> HIDE DEF scored, r
  <2>5. new[p] = scored[a]
    BY <1>8, <2>1, <2>4, Zenon
  <2> QED BY <1>1, <1>3, <1>7, <2>3, <2>4, <2>5
<1>10. DOMAIN new = DOMAIN mem /\ \A p \in DOMAIN mem \ Range(list) : new[p] = mem[p]
  <2> HIDE DEF scored, r
  <2> QED BY <1>8, Zenon
<1>11. Scanned(alpha, texts, mem, list, new)
  <2> HIDE DEF new
  <2>1. \A p \in DOMAIN mem : IsPattern(alpha, texts, new[p]) /\ new[p].key = mem[p].key
    BY <1>9, <1>10 DEF Current
  <2>2. \A p \in DOMAIN mem : new[p].cost = mem[p].cost
    BY <2>1 DEF Current, IsPattern
  <2> QED BY <1>9, <1>10, <2>1, <2>2 DEF Scanned, Current
<1>12. r.bytes = Size(alpha, version, texts, sizes, keys)
  <2>1. TotalBytes(version, texts, scored, parse, sizes) = TotalBytes(version, texts, seen, parse, sizes)
    <3>1. [a \in DOMAIN scored |-> Storage(scored[a].cost)] = [a \in DOMAIN seen |-> Storage(seen[a].cost)]
      <4>1. ASSUME NEW a \in 1 .. n PROVE scored[a].cost = seen[a].cost
        <5>1. seen[a].cost = ZstringCost(alpha, keys[a])
          <6> HIDE DEF keys
          <6> QED BY <1>4, Zenon DEF SeenOf
        <5>2. scored[a].cost = ZstringCost(alpha, scored[a].key)
          BY <1>7 DEF IsPattern
        <5> HIDE DEF scored, seen, keys, located
        <5> QED BY <1>3, <1>4, <1>7, <5>1, <5>2
      <4> HIDE DEF scored, seen
      <4> QED BY <1>5, <1>7, <4>1, Zenon
    <3> HIDE DEF scored, seen, parse
    <3> QED BY <3>1, Zenon DEF TotalBytes
  <2> HIDE DEF scored, parse, r
  <2> QED BY <1>8, <2>1, Zenon DEF Size, parse
<1> HIDE DEF r, seen, keys, parse
<1> QED BY <1>5, <1>6, <1>8, <1>11, <1>12, Zenon DEF keys, seen, parse, r

(* The savings of a list are a whole number.                               *)
LEMMA SavingsFacts ==
  ASSUME NEW alpha, NEW texts, NEW list, NEW n, Patterned(alpha, texts, list, n)
  PROVE  TotalSavings(list) \in Int /\ Numbers([a \in DOMAIN list |-> list[a].savings], n)
<1> DEFINE s == [a \in 1 .. n |-> list[a].savings]
<1>1. TotalSavings(list) = Total(s) /\ s = [a \in DOMAIN list |-> list[a].savings]
  BY Zenon DEF TotalSavings, Patterned
<1>2. n \in Nat /\ \A a \in 1 .. n : list[a].savings \in Int
  BY DEF Patterned, IsPattern
<1>3. \A a \in 1 .. n : s[a] = list[a].savings
  BY Zenon
<1>4. s = [a \in 1 .. n |-> s[a]]
  BY <1>3, Zenon
<1>5. \A a \in 1 .. n : s[a] \in Int
  BY <1>2, <1>3
<1> HIDE DEF s
<1>6. Numbers(s, n)
  BY <1>2, <1>4, <1>5, NumbersFrom
<1> QED BY <1>1, <1>6, TotalSums

\* A list with its keys and the numbers a rescoring gave it.
ScoredAs(alpha, texts, keys, list, r, scored) ==
  /\ r.savings = TotalSavings(scored)
  /\ \A a \in DOMAIN list : Once(list) => r.pats[list[a]] = scored[a]
  /\ DOMAIN scored = DOMAIN list
  /\ \A a \in DOMAIN list :
       /\ IsPattern(alpha, texts, scored[a])
       /\ scored[a].key = keys[a]
       /\ scored[a].frequency = Frequency(r.parses, a)
       /\ scored[a].savings = PatternScore(Frequency(r.parses, a), scored[a].cost)

(* Those of a list that was scored are of that kind.                       *)
LEMMA ScanSavings ==
  ASSUME NEW alpha, NEW version, NEW texts, Readable(texts), NEW sizes,
         NEW mem, Current(alpha, texts, mem), NEW list \in Seq(DOMAIN mem)
  PROVE  LET r    == Scan(alpha, version, texts, sizes, mem, list)
             keys == KeysOf(mem, list)
         IN  r.savings \in Int /\ \E scored : ScoredAs(alpha, texts, keys, list, r, scored)
<1>1. PICK n \in Nat : DOMAIN list = 1 .. n
  OBVIOUS
<1>2. \A a \in 1 .. n : list[a] \in DOMAIN mem
  BY <1>1
<1> DEFINE given == PatternsOfList(mem, list)
           located == Located(texts, given)
           keys == KeysOf(mem, list)
           seen == SeenOf(alpha, texts, keys)
           parse == ParseAll(alpha, texts, seen)
           scored == Scored(located, parse)
           r == Scan(alpha, version, texts, sizes, mem, list)
<1>3. /\ Seen(located) = seen /\ DOMAIN located = 1 .. n
      /\ \A a \in 1 .. n :
           /\ IsPattern(alpha, texts, located[a]) /\ located[a].key = mem[list[a]].key
           /\ located[a].occurrences = Occurrences(texts, mem[list[a]].key)
  BY <1>1, <1>2, LocatedFacts
<1>4. r.parses = parse /\ Finite(r.parses, Len(texts)) /\ Len(texts) \in Nat
  <2>1. r.parses = parse /\ Finite(r.parses, Len(texts))
    <3> HIDE DEF r
    <3> QED BY ScanFacts DEF r
  <2>2. Len(texts) \in Nat
    BY DEF Readable
  <2> QED BY <2>1, <2>2
<1>5. PICK m \in Nat : m = Len(texts)
  BY <1>4
<1>6. Finite(parse, m) /\ Patterned(alpha, texts, located, n)
  <2> HIDE DEF located, parse
  <2> QED BY <1>3, <1>4, <1>5 DEF Patterned
<1>7. IsScored(alpha, texts, located, parse, n, scored)
  <2>1. PICK l, q : l = located /\ q = parse
    OBVIOUS
  <2>2. IsScored(alpha, texts, l, q, n, Scored(l, q))
    <3>1. Finite(q, m) /\ Patterned(alpha, texts, l, n)
      BY <1>6, <2>1
    <3> QED BY <3>1, ScoredFacts
  <2> QED BY <2>1, <2>2
<1>8. r.savings = TotalSavings(scored)
      /\ r.pats = [p \in DOMAIN mem |->
                    IF p \in Range(list) THEN scored[CHOOSE a \in DOMAIN list : list[a] = p] ELSE mem[p]]
  <2>1. PICK q : q = Rescore(alpha, version, texts, sizes, given)
    OBVIOUS
  <2>2. q = Outcome(version, texts, sizes, scored, parse)
    BY <1>3, <2>1, Zenon DEF Rescore, Assessed
  <2> HIDE DEF scored, parse, given
  <2>3. q.list = scored /\ q.savings = TotalSavings(scored)
    BY <2>2 DEF Outcome
  <2>4. r = Results(mem, list, q)
    BY <2>1, Zenon DEF Scan, given
  <2> HIDE DEF r
  <2>5. /\ r.savings = q.savings
        /\ r.pats = [p \in DOMAIN mem |->
                      IF p \in Range(list) THEN q.list[CHOOSE a \in DOMAIN list : list[a] = p] ELSE mem[p]]
    BY <2>4 DEF Results
  <2> QED BY <2>3, <2>5, Zenon
<1>9. Patterned(alpha, texts, scored, n)
  <2> HIDE DEF scored
  <2> QED BY <1>7 DEF IsScored, Patterned
<1>10. r.savings \in Int
  <2>1. PICK sc : sc = scored
    OBVIOUS
  <2>2. TotalSavings(sc) \in Int
    BY <1>9, <2>1, SavingsFacts
  <2> HIDE DEF scored, r
  <2> QED BY <1>8, <2>1, <2>2
<1>11. ASSUME Once(list), NEW a \in DOMAIN list PROVE r.pats[list[a]] = scored[a]
  <2>1. PICK b : b = CHOOSE c \in DOMAIN list : list[c] = list[a]
    OBVIOUS
  <2>2. b \in DOMAIN list /\ list[b] = list[a]
    BY <2>1
  <2>3. b = a
    BY <1>11, <2>2 DEF Once
  <2>4. list[a] \in DOMAIN mem /\ list[a] \in Range(list)
    BY DEF Range
  <2> HIDE DEF scored, r
  <2> QED BY <1>8, <2>1, <2>3, <2>4, Zenon
<1>12. DOMAIN keys = 1 .. n /\ \A a \in 1 .. n : keys[a] = mem[list[a]].key
  BY <1>1, Zenon DEF KeysOf
<1>13. ASSUME NEW a \in 1 .. n
       PROVE  /\ IsPattern(alpha, texts, scored[a]) /\ scored[a].key = keys[a]
              /\ scored[a].frequency = Frequency(parse, a)
              /\ scored[a].savings = PatternScore(Frequency(parse, a), scored[a].cost)
  <2> HIDE DEF scored, located, keys, parse
  <2>1. /\ IsPattern(alpha, texts, scored[a]) /\ scored[a].key = located[a].key
        /\ scored[a].frequency = Frequency(parse, a)
        /\ scored[a].savings = PatternScore(Frequency(parse, a), located[a].cost)
    BY <1>7 DEF IsScored
  <2>2. scored[a].cost = located[a].cost
    BY <1>3, <2>1 DEF IsPattern
  <2> QED BY <1>3, <1>12, <2>1, <2>2
<1>14. DOMAIN scored = 1 .. n
  <2> HIDE DEF scored
  <2> QED BY <1>7 DEF IsScored
<1>15. ScoredAs(alpha, texts, keys, list, r, scored)
  <2> HIDE DEF scored, r, keys, parse
  <2> QED BY <1>1, <1>4, <1>8, <1>11, <1>13, <1>14 DEF ScoredAs
<1> HIDE DEF scored, r, keys, parse
<1> QED BY <1>10, <1>15 DEF r, keys

----------------------------------------------------------------------------
(* Sequences of sequences in one.                                          *)

\* f joins the first n of them.
Joins(f, n, s) == f = [i \in 1 .. n |-> IF i = 1 THEN s[i] ELSE f[i - 1] \o s[i]]

(* There is such a function.                                               *)
LEMMA JoinsExist ==
  ASSUME NEW s, NEW top \in Nat
  PROVE  \E f : Joins(f, top, s)
<1> DEFINE G == {n \in Nat : \E f : Joins(f, n, s)}
<1>1. 0 \in G
  <2> DEFINE f == [i \in 1 .. 0 |-> s[i]]
  <2>1. \A i \in 1 .. 0 : FALSE
    OBVIOUS
  <2>2. f = [i \in 1 .. 0 |-> IF i = 1 THEN s[i] ELSE f[i - 1] \o s[i]]
    BY <2>1, Zenon
  <2>3. Joins(f, 0, s)
    BY <2>2 DEF Joins
  <2> HIDE DEF f
  <2> QED BY <2>3
<1>2. ASSUME NEW n \in Nat, n \in G PROVE n + 1 \in G
  <2>1. PICK f : Joins(f, n, s)
    BY <1>2
  <2> DEFINE g == [i \in 1 .. n + 1 |-> IF i = 1 THEN s[i] ELSE f[i - 1] \o s[i]]
  <2>2. ASSUME NEW i \in 1 .. n + 1, i # 1 PROVE g[i - 1] = f[i - 1]
    <3>1. PICK j : j = i - 1 /\ j \in 1 .. n /\ j \in 1 .. n + 1
      BY <2>2
    <3>2. f[j] = IF j = 1 THEN s[j] ELSE f[j - 1] \o s[j]
      BY <2>1, <3>1, Zenon DEF Joins
    <3>3. g[j] = IF j = 1 THEN s[j] ELSE f[j - 1] \o s[j]
      BY <3>1, Zenon
    <3> HIDE DEF g
    <3> QED BY <3>1, <3>2, <3>3
  <2>3. g = [i \in 1 .. n + 1 |-> IF i = 1 THEN s[i] ELSE g[i - 1] \o s[i]]
    <3>1. \A i \in 1 .. n + 1 : (IF i = 1 THEN s[i] ELSE f[i - 1] \o s[i])
                                = IF i = 1 THEN s[i] ELSE g[i - 1] \o s[i]
      <4> HIDE DEF g
      <4> QED BY <2>2
    <3>2. g = [i \in 1 .. n + 1 |-> IF i = 1 THEN s[i] ELSE f[i - 1] \o s[i]]
      OBVIOUS
    <3> HIDE DEF g
    <3> QED BY <3>1, <3>2, Zenon
  <2> HIDE DEF g
  <2>4. Joins(g, n + 1, s)
    BY <2>3 DEF Joins
  <2> QED BY <2>4
<1> HIDE DEF G
<1>3. top \in G
  BY <1>1, <1>2, Induction
<1> QED BY <1>3 DEF G

\* f[i] is the first i sequences in one, with elements of S.
Flat(f, n, s, S) ==
  /\ f[0] = <<>> /\ \A i \in 0 .. n : f[i] \in Seq(S)
  /\ \A i \in 1 .. n : f[i] = f[i - 1] \o s[i]

(* FlattenSeq goes on in such steps.                                       *)
LEMMA FlattenFacts ==
  ASSUME NEW S, NEW n \in Nat, NEW s, DOMAIN s = 1 .. n, Len(s) = n, n = 0 => s = <<>>,
         \A i \in 1 .. n : s[i] \in Seq(S)
  PROVE  FlattenSeq(s) \in Seq(S) /\ \E f : Flat(f, n, s, S) /\ f[n] = FlattenSeq(s)
<1>1. CASE n = 0
  <2>1. FlattenSeq(s) = <<>>
    BY <1>1 DEF FlattenSeq
  <2> DEFINE f == [i \in {0} |-> <<>>]
  <2>2. <<>> \in Seq(S)
    OBVIOUS
  <2>3. f[0] = <<>>
    OBVIOUS
  <2> HIDE DEF f
  <2>4. \A i \in 0 .. n : i = 0
    BY <1>1
  <2>5. \A i \in 1 .. n : FALSE
    BY <1>1
  <2>6. Flat(f, n, s, S)
    BY <2>2, <2>3, <2>4, <2>5 DEF Flat
  <2> QED BY <1>1, <2>1, <2>2, <2>3, <2>6
<1>2. CASE n # 0
  <2> DEFINE flatten == CHOOSE f : Joins(f, n, s)
  <2>1. FlattenSeq(s) = flatten[n]
    BY <1>2, Zenon DEF FlattenSeq, Joins
  <2>2. Joins(flatten, n, s)
    BY JoinsExist
  <2> HIDE DEF flatten
  <2>3. \A i \in 1 .. n : flatten[i] = IF i = 1 THEN s[i] ELSE flatten[i - 1] \o s[i]
    BY <2>2, Zenon DEF Joins
  <2> DEFINE f == [i \in 0 .. n |-> IF i = 0 THEN <<>> ELSE flatten[i]]
  <2>4. f[0] = <<>> /\ \A i \in 1 .. n : f[i] = flatten[i]
    OBVIOUS
  <2>5. \A i \in 1 .. n : i = 1 \/ (i # 1 /\ i - 1 \in 1 .. n)
    OBVIOUS
  <2> HIDE DEF f
  <2> DEFINE P(i) == f[i] \in Seq(S) /\ (i # 0 => f[i] = f[i - 1] \o s[i])
             G == {i \in 0 .. n : P(i)}
  <2>6. 0 \in G
    <3>1. P(0)
      <4>1. <<>> \in Seq(S)
        OBVIOUS
      <4> QED BY <2>4, <4>1
    <3> HIDE DEF P
    <3> QED BY <3>1
  <2>7. ASSUME NEW i \in 1 .. n, i - 1 \in G PROVE i \in G
    <3>0. P(i - 1)
      <4> HIDE DEF P
      <4> QED BY <2>7
    <3>1. s[i] \in Seq(S) /\ f[i - 1] \in Seq(S)
      BY <3>0
    <3>2. f[i] = f[i - 1] \o s[i]
      <4>1. CASE i = 1
        <5>1. f[i] = s[i] /\ f[i - 1] = <<>>
          BY <2>3, <2>4, <4>1
        <5>2. <<>> \o s[i] = s[i]
          BY <3>1
        <5> QED BY <5>1, <5>2
      <4>2. CASE i # 1
        BY <2>3, <2>4, <2>5, <4>2
      <4> QED BY <4>1, <4>2
    <3>3. f[i] \in Seq(S)
      BY <3>1, <3>2
    <3>4. P(i) /\ i \in 0 .. n
      BY <3>2, <3>3
    <3> HIDE DEF P
    <3> QED BY <3>4
  <2>8. \A i \in 0 .. n : P(i)
    <3>1. \A i \in 0 .. n : i \in G
      <4> HIDE DEF G
      <4> QED BY <2>6, <2>7, BoundedInduction
    <3> HIDE DEF P
    <3> QED BY <3>1
  <2>9. Flat(f, n, s, S)
    <3>1. \A i \in 1 .. n : i \in 0 .. n /\ i # 0
      OBVIOUS
    <3> QED BY <2>4, <2>8, <3>1 DEF Flat
  <2>10. f[n] = FlattenSeq(s) /\ f[n] \in Seq(S)
    <3>1. n \in 1 .. n /\ n \in 0 .. n
      BY <1>2
    <3> QED BY <2>1, <2>4, <2>8, <3>1
  <2> QED BY <2>9, <2>10
<1> QED BY <1>1, <1>2

\* The kinds of edits.
Kinds == {"space in front", "space at the end", "first", "last", "first two", "last two"}
\* The edits of n patterns.
EditsOf(n) == [kind : Kinds, place : 1 .. n]

\* The edits of some kinds, as Edits makes them.
EachKind(n, kinds) ==
  FlattenSeq([i \in 1 .. n |-> [k \in DOMAIN kinds |-> [kind |-> kinds[k], place |-> i]]])

(* They are edits.                                                         *)
LEMMA EachKindFacts ==
  ASSUME NEW n \in Nat, NEW kinds \in Seq(Kinds)
  PROVE  EachKind(n, kinds) \in Seq(EditsOf(n))
<1> DEFINE row(i) == [k \in DOMAIN kinds |-> [kind |-> kinds[k], place |-> i]]
           s == [i \in 1 .. n |-> row(i)]
<1>1. PICK m \in Nat : DOMAIN kinds = 1 .. m
  OBVIOUS
<1>2. ASSUME NEW i \in 1 .. n PROVE row(i) \in Seq(EditsOf(n))
  <2>1. \A k \in 1 .. m : kinds[k] \in Kinds
    BY <1>1
  <2>2. \A k \in 1 .. m : [kind |-> kinds[k], place |-> i] \in EditsOf(n)
    BY <2>1 DEF EditsOf
  <2>3. row(i) \in [1 .. m -> EditsOf(n)]
    BY <1>1, <2>2
  <2> HIDE DEF row
  <2> QED BY <2>3, FunctionIsSeq
<1> HIDE DEF row
<1>3. DOMAIN s = 1 .. n /\ \A i \in 1 .. n : s[i] = row(i)
  BY Zenon
<1>4. \A i \in 1 .. n : s[i] \in Seq(EditsOf(n))
  BY <1>2, <1>3
<1>5. Len(s) = n /\ s \in Seq(Seq(EditsOf(n)))
  <2>1. s \in [1 .. n -> Seq(EditsOf(n))]
    BY <1>2
  <2> HIDE DEF s
  <2> QED BY <2>1, FunctionIsSeq
<1>6. n = 0 => s = <<>>
  <2> HIDE DEF s
  <2> QED BY <1>5
<1>7. EachKind(n, kinds) = FlattenSeq(s)
  BY Zenon DEF EachKind, row
<1>8. FlattenSeq(s) \in Seq(EditsOf(n))
  <2>1. PICK t : t = s
    OBVIOUS
  <2> HIDE DEF s
  <2>2. FlattenSeq(t) \in Seq(EditsOf(n))
    BY <1>3, <1>4, <1>5, <1>6, <2>1, FlattenFacts
  <2> QED BY <2>1, <2>2
<1> QED BY <1>7, <1>8

(* Each edit names a kind and a place of the list.                         *)
LEMMA EditsFacts ==
  ASSUME NEW n \in Nat, DOMAIN best = 1 .. n
  PROVE  Edits \in Seq(EditsOf(n))
<1> DEFINE round == EachKind(n, <<"space in front">>) \o EachKind(n, <<"space at the end">>)
                    \o EachKind(n, <<"first", "last">>) \o EachKind(n, <<"first two", "last two">>)
<1>1. /\ <<"space in front">> \in Seq(Kinds) /\ <<"space at the end">> \in Seq(Kinds)
      /\ <<"first", "last">> \in Seq(Kinds) /\ <<"first two", "last two">> \in Seq(Kinds)
  BY DEF Kinds
<1>2. Edits = round \o round
  BY Zenon DEF Edits, EachKind
<1> DEFINE E == Seq(EditsOf(n))
<1>3. /\ EachKind(n, <<"space in front">>) \in E /\ EachKind(n, <<"space at the end">>) \in E
      /\ EachKind(n, <<"first", "last">>) \in E /\ EachKind(n, <<"first two", "last two">>) \in E
  BY <1>1, EachKindFacts
<1>4. \A x, y \in E : x \o y \in E
  OBVIOUS
<1> HIDE DEF E
<1>5. round \in E
  BY <1>3, <1>4, Zenon
<1> HIDE DEF round
<1>6. Edits \in E
  BY <1>2, <1>4, <1>5, Zenon
<1> QED BY <1>6 DEF E

(* A key with a space in front or at the end costs one more.               *)
LEMMA SpaceCost ==
  ASSUME NEW alpha, NEW s \in Seq(Int)
  PROVE  /\ ZstringCost(alpha, <<Space>> \o s) = ZstringCost(alpha, s) + 1
         /\ ZstringCost(alpha, Append(s, Space)) = ZstringCost(alpha, s) + 1
         /\ ZstringCost(alpha, s) \in Nat
<1>1. ZcharCost(alpha, Space) = 1
  BY Zenon DEF ZcharCost
<1>2. PICK t : t = <<Space>>
  OBVIOUS
<1>3. t \in Seq(Int) /\ <<Space>> \in Seq(Int)
  BY <1>2 DEF Space
<1>4. ZstringCost(alpha, t) = 1
  BY <1>1, <1>2, CostOne, Zenon
<1>5. Append(s, Space) = s \o t
  BY <1>2 DEF Space
<1>6. ZstringCost(alpha, s) \in Nat
  BY CostTotal
<1>7. ZstringCost(alpha, t \o s) = ZstringCost(alpha, t) + ZstringCost(alpha, s)
      /\ ZstringCost(alpha, s \o t) = ZstringCost(alpha, s) + ZstringCost(alpha, t)
  BY <1>3, CostConcat
<1> QED BY <1>2, <1>4, <1>5, <1>6, <1>7

\* What an edit makes of a key.
FrontSpace(key) == IF Head(key) = Space /\ Len(key) > 1 THEN Tail(key) ELSE <<Space>> \o key
\* A space less at the end, or one more.
EndSpace(key) == IF Last(key) = Space /\ Len(key) > 1 THEN Front(key) ELSE Append(key, Space)

(* Sequences with the same elements are equal.                             *)
LEMMA SameSequence ==
  ASSUME NEW S, NEW T, NEW s \in Seq(S), NEW t \in Seq(T), NEW n \in Nat, Len(s) = n, Len(t) = n,
         \A i \in 1 .. n : s[i] = t[i]
  PROVE  s = t
<1>1. s = [i \in 1 .. n |-> s[i]] /\ t = [i \in 1 .. n |-> t[i]]
  OBVIOUS
<1>2. [i \in 1 .. n |-> s[i]] = [i \in 1 .. n |-> t[i]]
  BY Zenon
<1> QED BY <1>1, <1>2

\* One more or one less.
Moved(cost, from, longer) == cost = IF longer THEN from + 1 ELSE from - 1

(* Taking a space away or adding one changes the cost by one.              *)
LEMMA SpaceEdits ==
  ASSUME NEW alpha, NEW key \in Seq(Int), key # <<>>, NEW new \in {FrontSpace(key), EndSpace(key)}
  PROVE  /\ new \in Seq(Int) /\ new # <<>>
         /\ Moved(ZstringCost(alpha, new), ZstringCost(alpha, key), Len(new) > Len(key))
<1>1. PICK n \in Nat : n = Len(key)
  OBVIOUS
<1>2. PICK whole \in Nat : whole = ZstringCost(alpha, key)
  BY CostTotal
<1>3. ASSUME NEW t \in Seq(Int), Len(t) + 1 = n, n > 1, new = t, key \in {<<Space>> \o t, Append(t, Space)}
      PROVE  new \in Seq(Int) /\ new # <<>> /\ Moved(ZstringCost(alpha, new), whole, Len(new) > n)
  <2>1. PICK part \in Nat : part = ZstringCost(alpha, t)
    BY CostTotal
  <2>2. PICK m \in Nat : m = Len(t)
    OBVIOUS
  <2>3. whole = part + 1
    BY <1>2, <1>3, <2>1, SpaceCost
  <2>4. ~(m > n) /\ m # 0 /\ part = whole - 1
    BY <1>3, <2>2, <2>3
  <2>5. t # <<>>
    BY <2>2, <2>4
  <2> QED BY <1>3, <2>1, <2>2, <2>4, <2>5 DEF Moved
<1>4. ASSUME NEW t \in Seq(Int), new = t, t \in {<<Space>> \o key, Append(key, Space)}
      PROVE  new \in Seq(Int) /\ new # <<>> /\ Moved(ZstringCost(alpha, new), whole, Len(new) > n)
  <2>1. ZstringCost(alpha, t) = whole + 1
    BY <1>2, <1>4, SpaceCost
  <2>2. PICK m \in Nat : m = Len(t)
    OBVIOUS
  <2>3. m = n + 1
    BY <1>1, <1>4, <2>2 DEF Space
  <2>4. m > n /\ m # 0
    BY <2>3
  <2>5. t # <<>>
    BY <2>2, <2>4
  <2> QED BY <1>4, <2>1, <2>2, <2>4, <2>5 DEF Moved
<1>5. CASE new = FrontSpace(key)
  <2>1. CASE Head(key) = Space /\ Len(key) > 1
    <3>1. PICK t : t = Tail(key)
      OBVIOUS
    <3>2. t \in Seq(Int) /\ Len(t) + 1 = n /\ n > 1
      BY <1>1, <2>1, <3>1
    <3>3. key = <<Space>> \o t
      <4>1. PICK u : u = <<Space>> \o t
        OBVIOUS
      <4>2. u \in Seq(Int) /\ Len(u) = n /\ \A i \in 1 .. n : u[i] = key[i]
        BY <1>1, <2>1, <3>1, <3>2, <4>1 DEF Space
      <4>3. u = key
        BY <1>1, <4>2, SameSequence
      <4> QED BY <4>1, <4>3
    <3>4. new = t
      BY <1>5, <2>1, <3>1, Zenon DEF FrontSpace
    <3> QED BY <1>1, <1>2, <1>3, <3>2, <3>3, <3>4
  <2>2. CASE ~(Head(key) = Space /\ Len(key) > 1)
    <3>1. PICK t : t = <<Space>> \o key
      OBVIOUS
    <3>2. t \in Seq(Int)
      BY <3>1 DEF Space
    <3>3. new = t
      BY <1>5, <2>2, <3>1, Zenon DEF FrontSpace
    <3> QED BY <1>1, <1>2, <1>4, <3>1, <3>2, <3>3
  <2> QED BY <2>1, <2>2
<1>6. CASE new = EndSpace(key)
  <2>1. CASE Last(key) = Space /\ Len(key) > 1
    <3>1. PICK t : t = Front(key)
      OBVIOUS
    <3>2. t \in Seq(Int) /\ Len(t) + 1 = n /\ n > 1 /\ \A i \in 1 .. n - 1 : t[i] = key[i]
      BY <1>1, <2>1, <3>1 DEF Front
    <3>3. key = Append(t, Space)
      <4>1. PICK u : u = Append(t, Space)
        OBVIOUS
      <4>2. u \in Seq(Int) /\ Len(u) = n
        BY <3>2, <4>1 DEF Space
      <4>3. u[n] = key[n]
        <5>1. key[n] = Space
          BY <1>1, <2>1 DEF Last
        <5>2. u[Len(t) + 1] = Space
          BY <3>2, <4>1 DEF Space
        <5> QED BY <3>2, <5>1, <5>2
      <4>4. \A i \in 1 .. n - 1 : u[i] = key[i]
        BY <3>2, <4>1 DEF Space
      <4>5. \A i \in 1 .. n : u[i] = key[i]
        BY <4>3, <4>4
      <4> QED BY <1>1, <4>1, <4>2, <4>5, SameSequence
    <3>4. new = t
      BY <1>6, <2>1, <3>1, Zenon DEF EndSpace
    <3> QED BY <1>1, <1>2, <1>3, <3>2, <3>3, <3>4
  <2>2. CASE ~(Last(key) = Space /\ Len(key) > 1)
    <3>1. PICK t : t = Append(key, Space)
      OBVIOUS
    <3>2. t \in Seq(Int)
      BY <3>1 DEF Space
    <3>3. new = t
      BY <1>6, <2>2, <3>1, Zenon DEF EndSpace
    <3> QED BY <1>1, <1>2, <1>4, <3>1, <3>2, <3>3
  <2> QED BY <2>1, <2>2
<1> QED BY <1>5, <1>6

(* The new key of each kind.                                               *)
LEMMA EditedKinds ==
  ASSUME NEW kind \in Kinds, NEW key
  PROVE  \/ kind = "space in front" /\ EditedKey(kind, key) = FrontSpace(key)
         \/ kind = "space at the end" /\ EditedKey(kind, key) = EndSpace(key)
         \/ /\ kind \notin {"space in front", "space at the end"}
            /\ \E c \in {1, 2} :
                 /\ c = Cut(kind)
                 /\ EditedKey(kind, key) \in {SubSeq(key, c + 1, Len(key)), SubSeq(key, 1, Len(key) - c)}
<1>1. CASE kind = "space in front"
  BY <1>1, Zenon DEF EditedKey, FrontSpace
<1>2. CASE kind = "space at the end"
  BY <1>2, Zenon DEF EditedKey, EndSpace
<1>3. CASE kind \in {"first", "first two"}
  <2>1. kind \notin {"space in front", "space at the end"}
    BY <1>3, Zenon
  <2>2. EditedKey(kind, key) = SubSeq(key, Cut(kind) + 1, Len(key))
    BY <1>3, Zenon DEF EditedKey
  <2>3. Cut(kind) \in {1, 2}
    BY Zenon DEF Cut
  <2> QED BY <2>1, <2>2, <2>3, Zenon
<1>4. CASE kind \in {"last", "last two"}
  <2>1. kind \notin {"space in front", "space at the end"}
    BY <1>4, Zenon
  <2>2. EditedKey(kind, key) = SubSeq(key, 1, Len(key) - Cut(kind))
    BY <1>4, Zenon DEF EditedKey
  <2>3. Cut(kind) \in {1, 2}
    BY Zenon DEF Cut
  <2> QED BY <2>1, <2>2, <2>3, Zenon
<1> QED BY <1>1, <1>2, <1>3, <1>4, Zenon DEF Kinds

(* The edited key has characters, and its cost is known.                   *)
LEMMA EditFacts ==
  ASSUME NEW kind \in Kinds, NEW p, NEW texts, IsPattern(settings.alpha, texts, p), Applies(kind, p.key)
  PROVE  /\ EditedKey(kind, p.key) \in Seq(Int) \ {<<>>}
         /\ EditedCost(kind, p) = ZstringCost(settings.alpha, EditedKey(kind, p.key))
<1>1. PICK key, alpha : key = p.key /\ alpha = settings.alpha
  OBVIOUS
<1>2. key \in Seq(Int) /\ key # <<>> /\ p.cost = ZstringCost(alpha, key)
  BY <1>1 DEF IsPattern
<1>3. PICK n \in Nat : n = Len(key)
  BY <1>2
<1>4. PICK new : new = EditedKey(kind, key)
  OBVIOUS
<1>5. \/ /\ kind \in {"space in front", "space at the end"}
         /\ Moved(EditedCost(kind, p), ZstringCost(alpha, key), Len(new) > Len(key))
      \/ /\ kind \notin {"space in front", "space at the end"}
         /\ EditedCost(kind, p) = ZstringCost(alpha, new)
  BY <1>1, <1>2, <1>4, Zenon DEF EditedCost, Moved
<1>6. CASE kind \in {"space in front", "space at the end"}
  <2>1. new \in {FrontSpace(key), EndSpace(key)}
    BY <1>4, <1>6, Zenon DEF EditedKey, FrontSpace, EndSpace
  <2>2. /\ new \in Seq(Int) /\ new # <<>>
        /\ Moved(ZstringCost(alpha, new), ZstringCost(alpha, key), Len(new) > Len(key))
    <3> HIDE <1>6
    <3> QED BY <1>2, <2>1, SpaceEdits
  <2>3. EditedCost(kind, p) = ZstringCost(alpha, new)
    <3>1. Moved(EditedCost(kind, p), ZstringCost(alpha, key), Len(new) > Len(key))
      BY <1>5, <1>6, Zenon
    <3>2. \A a, b, w, l : Moved(a, w, l) /\ Moved(b, w, l) => a = b
      BY DEF Moved
    <3> QED BY <2>2, <3>1, <3>2, Zenon
  <2>4. new \in Seq(Int) \ {<<>>}
    <3> HIDE <1>6
    <3> QED BY <2>2
  <2> QED BY <1>1, <1>4, <2>3, <2>4, Zenon
<1>8. CASE kind \notin {"space in front", "space at the end"}
  <2>1. PICK c \in {1, 2} :
          c = Cut(kind) /\ new \in {SubSeq(key, c + 1, Len(key)), SubSeq(key, 1, Len(key) - c)}
    BY <1>4, <1>8, EditedKinds, Zenon
  <2>2. Len(key) > c
    BY <1>1, <1>8, <2>1, Zenon DEF Applies
  <2>3. new \in Seq(Int) /\ new # <<>>
    <3>1. PICK w : w = Len(key) - c
      OBVIOUS
    <3>2. n - c \in Nat \ {0} /\ c \in Nat
      BY <1>3, <2>1, <2>2
    <3> HIDE <1>8
    <3>3. SubSeq(key, c + 1, n) \in Seq(Int) /\ Len(SubSeq(key, c + 1, n)) = n - c
      BY <1>2, <1>3, <3>2
    <3>4. SubSeq(key, 1, n - c) \in Seq(Int) /\ Len(SubSeq(key, 1, n - c)) = n - c
      BY <1>2, <1>3, <3>2
    <3>5. new \in Seq(Int) /\ Len(new) = n - c
      BY <1>3, <2>1, <3>3, <3>4
    <3>6. PICK m \in Nat \ {0} : Len(new) = m
      BY <3>2, <3>5
    <3> QED BY <3>5, <3>6
  <2>4. new \in Seq(Int) \ {<<>>} /\ EditedCost(kind, p) = ZstringCost(alpha, new)
    <3>1. new \in Seq(Int) \ {<<>>}
      BY <2>3
    <3> QED BY <1>5, <1>8, <3>1, Zenon
  <2> QED BY <1>1, <1>4, <2>4, Zenon
<1> QED BY <1>6, <1>8, Zenon

(* A routine is filled up with some bytes or none.                         *)
LEMMA RoutinePaddingFacts ==
  ASSUME NEW version \in Int, NEW size \in Nat
  PROVE  RoutinePadding(version, size) \in Nat
<1>1. CASE version < 4
  <2>1. RoutinePadding(version, size) = IF size % 2 = 1 THEN 1 ELSE 0
    <3>1. ~(version \in 4 .. 7) /\ version # 8
      BY <1>1
    <3> QED BY <1>1, <3>1, Zenon DEF RoutinePadding
  <2> QED BY <2>1
<1>2. CASE version \in 4 .. 7
  <2>1. RoutinePadding(version, size) = (4 - (size % 4)) % 4
    <3>1. ~(version < 4) /\ version # 8
      BY <1>2
    <3> QED BY <1>2, <3>1, Zenon DEF RoutinePadding
  <2>2. PICK m \in 0 .. 3 : m = size % 4
    OBVIOUS
  <2>3. (4 - m) % 4 \in Nat
    OBVIOUS
  <2> QED BY <2>1, <2>2, <2>3
<1>3. CASE version = 8
  <2>1. RoutinePadding(version, size) = (8 - (size % 8)) % 8
    <3>1. ~(version < 4) /\ ~(version \in 4 .. 7)
      BY <1>3
    <3> QED BY <1>3, <3>1, Zenon DEF RoutinePadding
  <2>2. PICK m \in 0 .. 7 : m = size % 8
    OBVIOUS
  <2>3. (8 - m) % 8 \in Nat
    OBVIOUS
  <2> QED BY <2>1, <2>2, <2>3
<1>4. CASE version > 8
  <2>1. RoutinePadding(version, size) = 0
    <3>1. ~(version < 4) /\ ~(version \in 4 .. 7) /\ version # 8
      BY <1>4
    <3> QED BY <3>1, Zenon DEF RoutinePadding
  <2> QED BY <2>1
<1> QED BY <1>1, <1>2, <1>3, <1>4

(* A function of natural numbers has a natural total.                      *)
LEMMA TotalOfNaturals ==
  ASSUME NEW n \in Nat, NEW s, s = [i \in 1 .. n |-> s[i]], \A i \in 1 .. n : s[i] \in Nat
  PROVE  Total(s) \in Nat /\ Numbers(s, n)
<1>1. \A i \in 1 .. n : s[i] \in Int
  OBVIOUS
<1>2. Numbers(s, n)
  BY <1>1, NumbersFrom
<1> QED BY <1>2, TotalNatural

\* Parses with a number of bytes for each text.
Measured(parse, n) == DOMAIN parse = 1 .. n /\ \A t \in 1 .. n : parse[t].bytes \in Nat

(* What all routines are filled up with.                                   *)
LEMMA PaddingFacts ==
  ASSUME NEW version \in Int, NEW texts, NEW n \in Nat, DOMAIN texts = 1 .. n, NEW parse, Measured(parse, n),
         NEW sizes \in Seq(Nat)
  PROVE  TotalPadding(version, texts, parse, sizes) \in Nat
<1> DEFINE places == PlacesOf(sizes)
           par == [version |-> version, texts |-> texts, parses |-> parse, sizes |-> sizes]
           base == [from |-> 1, padding |-> 0]
           end == Folding("padding", par, base, places)[DOMAIN places]
<1>1. PICK m \in Nat : /\ m = Len(sizes) /\ DOMAIN sizes = 1 .. m /\ m = Len(places) /\ DOMAIN places = 1 .. m
                       /\ \A i \in 1 .. m : places[i] = i
  BY PlacesFacts
<1>2. PICK f : Unrolls("padding", par, base, places, f, end)
  <2> HIDE DEF places, par, base
  <2> QED BY <1>1, FoldingUnrolls
<1> HIDE DEF end
<1>3. /\ f[0] = base /\ f[m] = end
      /\ \A k \in 1 .. m : f[k] = PaddingStep(par, f[k - 1], k)
  <2> HIDE DEF par, base
  <2>1. f[0] = base /\ f[m] = end /\ \A k \in 1 .. m : f[k] = StepOf("padding", par, f[k - 1], places[k])
    BY <1>1, <1>2, Zenon DEF Unrolls
  <2> QED BY <1>1, <2>1, Zenon DEF StepOf
<1> DEFINE G == {k \in 0 .. m : f[k].padding \in Nat}
<1>4. 0 \in G
  BY <1>3
<1>5. ASSUME NEW k \in 1 .. m, k - 1 \in G PROVE k \in G
  <2>1. PICK st : st = f[k - 1]
    OBVIOUS
  <2>2. st.padding \in Nat
    BY <1>5, <2>1
  <2> DEFINE at == RoutineLines(texts, k - 1, st.from).lines
             s == [j \in DOMAIN texts |-> IF j \in at THEN parse[j].bytes ELSE 0]
  <2>3. f[k].padding = st.padding + RoutinePadding(version, sizes[k] + Total(s))
    <3>1. f[k] = PaddingStep(par, st, k)
      BY <1>3, <2>1
    <3>2. par.version = version /\ par.texts = texts /\ par.parses = parse /\ par.sizes = sizes
      BY Zenon
    <3> HIDE DEF par
    <3>3. PaddingStep(par, st, k).padding = st.padding + RoutinePadding(version, sizes[k] + Total(s))
      BY <3>2, Zenon DEF PaddingStep
    <3> QED BY <3>1, <3>3
  <2>4. Total(s) \in Nat
    <3> HIDE DEF at
    <3>1. s = [i \in 1 .. n |-> s[i]]
      BY Zenon
    <3>2. \A i \in 1 .. n : s[i] \in Nat
      BY DEF Measured
    <3> HIDE DEF s
    <3> QED BY <3>1, <3>2, TotalOfNaturals
  <2>5. sizes[k] \in Nat
    BY <1>1
  <2> HIDE DEF s
  <2>6. PICK size \in Nat : size = sizes[k] + Total(s)
    BY <2>4, <2>5
  <2>7. RoutinePadding(version, size) \in Nat
    BY RoutinePaddingFacts
  <2> QED BY <2>2, <2>3, <2>6, <2>7
<1>6. m \in G
  <2> HIDE DEF G
  <2>1. \A k \in 0 .. m : k \in G
    BY <1>4, <1>5, BoundedInduction
  <2> QED BY <2>1
<1>7. TotalPadding(version, texts, parse, sizes) = end.padding
  BY PaddingFold, Zenon DEF end, places, par, base
<1> QED BY <1>3, <1>6, <1>7

(* What storing an abbreviation takes.                                     *)
LEMMA StorageFacts ==
  ASSUME NEW cost \in Nat
  PROVE  Storage(cost) \in Nat
<1>1. PICK d \in Nat : d = (cost + 2) \div 3
  OBVIOUS
<1> QED BY <1>1 DEF Storage

(* The bytes of all.                                                       *)
LEMMA SizeFacts ==
  ASSUME NEW alpha, NEW version \in Int, NEW texts, Readable(texts), NEW sizes \in Seq(Nat),
         NEW n \in Nat, NEW keys, DOMAIN keys = 1 .. n, \A a \in 1 .. n : keys[a] \in Seq(Int) \ {<<>>}
  PROVE  Size(alpha, version, texts, sizes, keys) \in Nat
<1> DEFINE seen == SeenOf(alpha, texts, keys)
           parse == ParseAll(alpha, texts, seen)
           bytes == [t \in DOMAIN parse |-> parse[t].bytes]
           costs == [a \in DOMAIN seen |-> Storage(seen[a].cost)]
<1>1. Usable(texts, seen) /\ DOMAIN seen = 1 .. n
  BY SeenUsable
<1>2. PICK m \in Nat : DOMAIN texts = 1 .. m
  BY DEF Readable
<1>3. Measured(parse, m)
  <2>1. PICK list : list = seen
    OBVIOUS
  <2> HIDE DEF seen
  <2>2. DOMAIN parse = DOMAIN texts /\ \A t \in DOMAIN texts : IsLeft(alpha, texts, seen, t, parse[t])
    BY <1>1, ParsesFacts
  <2> HIDE DEF parse
  <2>3. \A t \in DOMAIN texts : Left(seen, Len(texts[t].text), texts[t].unit, parse[t])
    BY <1>1, <2>2, LeftFacts
  <2> QED BY <1>2, <2>2, <2>3 DEF Measured, Left
<1>4. \A a \in 1 .. n : seen[a].cost \in Nat
  <2> HIDE DEF seen
  <2> QED BY <1>1 DEF Usable
<1>5. Size(alpha, version, texts, sizes, keys) = Total(bytes) + Total(costs) + TotalPadding(version, texts, parse, sizes)
  BY Zenon DEF Size, TotalBytes
<1> HIDE DEF seen
<1>6. Total(costs) \in Nat
  <2>1. \A a \in 1 .. n : costs[a] = Storage(seen[a].cost)
    BY <1>1, Zenon
  <2>2. costs = [a \in 1 .. n |-> costs[a]]
    BY <1>1, <2>1, Zenon
  <2> HIDE DEF costs
  <2>3. \A a \in 1 .. n : costs[a] \in Nat
    BY <1>4, <2>1, StorageFacts
  <2> QED BY <2>2, <2>3, TotalOfNaturals
<1> HIDE DEF parse
<1>7. Total(bytes) \in Nat
  <2>1. \A t \in 1 .. m : bytes[t] = parse[t].bytes
    BY <1>3, Zenon DEF Measured
  <2>2. bytes = [t \in 1 .. m |-> bytes[t]]
    BY <1>3, <2>1, Zenon DEF Measured
  <2> HIDE DEF bytes
  <2>3. \A t \in 1 .. m : bytes[t] \in Nat
    BY <1>3, <2>1 DEF Measured
  <2> QED BY <2>2, <2>3, TotalOfNaturals
<1>8. TotalPadding(version, texts, parse, sizes) \in Nat
  BY <1>2, <1>3, PaddingFacts
<1> HIDE DEF bytes, costs
<1> QED BY <1>5, <1>6, <1>7, <1>8

----------------------------------------------------------------------------
(* The suffix array names every suffix.                                    *)

\* A suffix of n, with its ranks.
SuffixRecord(n, r) ==
  /\ r = [index |-> r.index, first |-> r.first, second |-> r.second]
  /\ r.index \in 0 .. n - 1 /\ r.first \in Int /\ r.second \in Int

\* n suffixes, one at each index.
SuffixList(n, t) ==
  /\ t = [i \in 1 .. n |-> t[i]] /\ \A i \in 1 .. n : SuffixRecord(n, t[i])
  /\ \A i, j \in 1 .. n : t[i].index = t[j].index => i = j
  /\ \A x \in 0 .. n - 1 : \E i \in 1 .. n : t[i].index = x

(* The suffixes before one.                                                *)
LEMMA SuffixOrder ==
  ASSUME NEW n \in Nat, NEW S, \A r \in S : SuffixRecord(n, r)
  PROVE  TotalOrder(S, [x \in S |-> {y \in S : SuffixBefore(y, x)}])
<1> DEFINE below == [x \in S |-> {y \in S : SuffixBefore(y, x)}]
<1>1. \A x \in S : \A y : y \in below[x] <=> y \in S /\ SuffixBefore(y, x)
  OBVIOUS
<1> HIDE DEF below
<1>2. ASSUME NEW x \in S, NEW y \in S
      PROVE  /\ ~SuffixBefore(x, x)
             /\ x = y \/ SuffixBefore(x, y) \/ SuffixBefore(y, x)
  <2>1. /\ x.index \in Int /\ x.first \in Int /\ x.second \in Int
        /\ y.index \in Int /\ y.first \in Int /\ y.second \in Int
    BY DEF SuffixRecord
  <2>2. x.index = y.index /\ x.first = y.first /\ x.second = y.second => x = y
    <3>1. /\ x = [index |-> x.index, first |-> x.first, second |-> x.second]
          /\ y = [index |-> y.index, first |-> y.first, second |-> y.second]
      BY DEF SuffixRecord
    <3> QED BY <3>1, Zenon
  <2> QED BY <2>1, <2>2 DEF SuffixBefore
<1>3. ASSUME NEW x \in S, NEW y \in S, NEW z \in S, SuffixBefore(z, x), SuffixBefore(x, y)
      PROVE  SuffixBefore(z, y)
  <2>1. /\ x.index \in Int /\ x.first \in Int /\ x.second \in Int
        /\ y.index \in Int /\ y.first \in Int /\ y.second \in Int
        /\ z.index \in Int /\ z.first \in Int /\ z.second \in Int
    BY DEF SuffixRecord
  <2> QED BY <1>3, <2>1 DEF SuffixBefore
<1>4. TotalOrder(S, below)
  BY <1>1, <1>2, <1>3 DEF TotalOrder
<1> QED BY <1>4 DEF below

(* Sorted they are the same suffixes.                                      *)
LEMMA SortFacts ==
  ASSUME NEW n \in Nat, NEW u, SuffixList(n, u)
  PROVE  SuffixList(n, SortSuffixes(u)) /\ Len(SortSuffixes(u)) = n
<1> DEFINE S == Range(u)
           below == [x \in S |-> {y \in S : SuffixBefore(y, x)}]
           rank == [x \in S |-> Cardinality({y \in S : SuffixBefore(y, x)})]
           t == SortSuffixes(u)
<1>1. DOMAIN u = 1 .. n /\ \A i \in 1 .. n : u[i] \in S
  BY DEF SuffixList, Range
<1>2. \A r \in S : SuffixRecord(n, r) /\ \E i \in 1 .. n : r = u[i]
  BY DEF SuffixList, Range
<1>3. IsFiniteSet(S) /\ Cardinality(S) = n
  <2>1. u \in Bijection(1 .. n, S)
    <3>1. u \in [1 .. n -> S]
      <4>1. u = [i \in 1 .. n |-> u[i]]
        BY DEF SuffixList
      <4> HIDE DEF S
      <4> QED BY <1>1, <4>1, Zenon
    <3>2. \A i, j \in 1 .. n : u[i] = u[j] => i = j
      BY DEF SuffixList
    <3> HIDE DEF S
    <3> QED BY <1>2, <3>1, <3>2 DEF Bijection, Injection, Surjection, IsInjective
  <2>2. ExistsBijection(1 .. n, S)
    BY <2>1 DEF ExistsBijection
  <2>3. IsFiniteSet(1 .. n) /\ Cardinality(1 .. n) = n
    BY FS_Interval
  <2> HIDE DEF S
  <2> QED BY <2>2, <2>3, FS_Bijection
<1> HIDE DEF S
<1>4. TotalOrder(S, below)
  BY <1>2, SuffixOrder
<1>5. rank = [x \in S |-> Cardinality(below[x])]
  BY Zenon
<1>6. InRankOrder(S, rank, t)
  BY Zenon DEF InRankOrder, SortSuffixes, Ordered, S
<1> HIDE DEF below, rank, t
<1>7. t \in Seq(S) /\ Len(t) = n /\ Once(t) /\ Range(t) = S
  BY <1>3, <1>4, <1>5, <1>6, OrderedFacts
<1>8. DOMAIN t = 1 .. n /\ t = [i \in 1 .. n |-> t[i]] /\ \A i \in 1 .. n : t[i] \in S
  BY <1>7
<1>9. \A i, j \in 1 .. n : t[i].index = t[j].index => i = j
  <2> SUFFICES ASSUME NEW i \in 1 .. n, NEW j \in 1 .. n, t[i].index = t[j].index PROVE i = j
    OBVIOUS
  <2>1. PICK k, l \in 1 .. n : t[i] = u[k] /\ t[j] = u[l]
    BY <1>2, <1>8
  <2>2. k = l
    BY <2>1 DEF SuffixList
  <2> QED BY <1>7, <1>8, <2>1, <2>2 DEF Once
<1>10. \A x \in 0 .. n - 1 : \E i \in 1 .. n : t[i].index = x
  <2> SUFFICES ASSUME NEW x \in 0 .. n - 1 PROVE \E i \in 1 .. n : t[i].index = x
    OBVIOUS
  <2>1. PICK k \in 1 .. n : u[k].index = x
    BY DEF SuffixList
  <2>2. u[k] \in Range(t)
    BY <1>1, <1>7
  <2> QED BY <1>8, <2>1, <2>2 DEF Range
<1>11. SuffixList(n, t)
  BY <1>2, <1>8, <1>9, <1>10 DEF SuffixList
<1> QED BY <1>7, <1>11 DEF t

(* The suffixes to begin with.                                             *)
LEMMA FirstSuffixesFacts ==
  ASSUME NEW s \in Seq(Int)
  PROVE  SuffixList(Len(s), FirstSuffixes(s)) /\ Len(FirstSuffixes(s)) = Len(s)
<1>1. PICK n \in Nat : n = Len(s) /\ DOMAIN s = 1 .. n /\ \A i \in 1 .. n : s[i] \in Int
  OBVIOUS
<1> DEFINE Char(i) == IF i <= Len(s) THEN s[i] - 97 ELSE -1
           Rec(i) == [index |-> i - 1, first |-> Char(i), second |-> Char(i + 1)]
           u == [i \in 1 .. n |-> Rec(i)]
<1>2. ASSUME NEW i \in 1 .. n
      PROVE  Rec(i).index = i - 1 /\ SuffixRecord(n, Rec(i))
  <2>1. Char(i) \in Int /\ Char(i + 1) \in Int
    BY <1>1
  <2> HIDE DEF Char
  <2>2. i - 1 \in 0 .. n - 1
    OBVIOUS
  <2> QED BY <2>1, <2>2 DEF SuffixRecord
<1>3. FirstSuffixes(s) = SortSuffixes(u)
  BY <1>1, Zenon DEF FirstSuffixes
<1> HIDE DEF Rec
<1>4. \A i \in 1 .. n : u[i] = Rec(i)
  BY Zenon
<1>5. u = [i \in 1 .. n |-> u[i]]
  BY <1>4, Zenon
<1> HIDE DEF u
<1>6. \A i, j \in 1 .. n : u[i].index = u[j].index => i = j
  <2>1. \A i, j \in 1 .. n : i - 1 = j - 1 => i = j
    OBVIOUS
  <2> QED BY <1>2, <1>4, <2>1
<1>7. \A x \in 0 .. n - 1 : \E i \in 1 .. n : u[i].index = x
  <2> SUFFICES ASSUME NEW x \in 0 .. n - 1 PROVE \E i \in 1 .. n : u[i].index = x
    OBVIOUS
  <2>1. PICK i \in 1 .. n : i - 1 = x
    <3>1. x + 1 \in 1 .. n /\ (x + 1) - 1 = x
      OBVIOUS
    <3> QED BY <3>1
  <2> QED BY <1>2, <1>4, <2>1
<1>8. SuffixList(n, u)
  BY <1>2, <1>4, <1>5, <1>6, <1>7 DEF SuffixList
<1>9. SuffixList(n, SortSuffixes(u)) /\ Len(SortSuffixes(u)) = n
  BY <1>8, SortFacts
<1> QED BY <1>1, <1>3, <1>9

(* A round of prefix doubling.                                             *)
LEMMA DoubledFacts ==
  ASSUME NEW n \in Nat, NEW t, SuffixList(n, t), Len(t) = n, NEW k \in Nat
  PROVE  SuffixList(n, Doubled(t, k)) /\ Len(Doubled(t, k)) = n
<1> DEFINE Same(i) == /\ t[i].first = t[i - 1].first
                      /\ t[i].second = t[i - 1].second
           Rank(i) == Cardinality({j \in 2 .. i : ~Same(j)})
           RankAt(index) == IF index < n THEN Rank(CHOOSE i \in 1 .. n : t[i].index = index) ELSE -1
           Rec(i) == [index |-> t[i].index, first |-> Rank(i), second |-> RankAt(t[i].index + k \div 2)]
           u == [i \in 1 .. n |-> Rec(i)]
<1>1. ASSUME NEW i \in Int PROVE Rank(i) \in Int
  <2> HIDE DEF Same
  <2>1. IsFiniteSet(2 .. i)
    BY FS_Interval
  <2>2. {j \in 2 .. i : ~Same(j)} \in SUBSET (2 .. i)
    OBVIOUS
  <2>3. IsFiniteSet({j \in 2 .. i : ~Same(j)})
    BY <2>1, <2>2, FS_Subset, Zenon
  <2>4. Cardinality({j \in 2 .. i : ~Same(j)}) \in Nat
    BY <2>3, FS_CardinalityType
  <2> QED BY <2>4
<1> HIDE DEF Rank
<1>2. ASSUME NEW x \in Nat PROVE RankAt(x) \in Int
  <2>1. CASE x < n
    <3>1. PICK i : i = CHOOSE j \in 1 .. n : t[j].index = x
      OBVIOUS
    <3>2. x \in 0 .. n - 1
      BY <2>1
    <3>3. i \in 1 .. n
      BY <3>1, <3>2 DEF SuffixList
    <3> QED BY <1>1, <2>1, <3>1, <3>3
  <2>2. CASE ~(x < n)
    BY <2>2
  <2> QED BY <2>1, <2>2
<1> HIDE DEF RankAt
<1>3. ASSUME NEW i \in 1 .. n
      PROVE  Rec(i).index = t[i].index /\ SuffixRecord(n, Rec(i))
  <2>1. PICK x \in 0 .. n - 1 : x = t[i].index
    BY DEF SuffixList, SuffixRecord
  <2>2. PICK h \in Nat : h = k \div 2
    OBVIOUS
  <2>3. Rank(i) \in Int /\ RankAt(x + h) \in Int
    BY <1>1, <1>2
  <2> QED BY <2>1, <2>2, <2>3 DEF SuffixRecord
<1>4. Doubled(t, k) = SortSuffixes(u)
  BY Zenon DEF Doubled, Rank, RankAt
<1> HIDE DEF Rec
<1>5. \A i \in 1 .. n : u[i] = Rec(i)
  BY Zenon
<1>6. u = [i \in 1 .. n |-> u[i]]
  BY <1>5, Zenon
<1> HIDE DEF u
<1>7. SuffixList(n, u)
  BY <1>3, <1>5, <1>6 DEF SuffixList
<1>8. SuffixList(n, SortSuffixes(u)) /\ Len(SortSuffixes(u)) = n
  BY <1>7, SortFacts
<1> QED BY <1>4, <1>8

(* All texts are one sequence of bytes.                                    *)
LEMMA GeneralFacts ==
  ASSUME NEW texts, Readable(texts), texts # <<>>
  PROVE  GeneralizedString(texts) \in Seq(Int) /\ Len(GeneralizedString(texts)) \in Nat \ {0}
<1> DEFINE end == GeneralizedString(texts)
<1>1. PICK n \in Nat : n = Len(texts) /\ DOMAIN texts = 1 .. n /\ n # 0
  BY DEF Readable
<1>2. PICK f : Unrolls("general", 0, <<>>, texts, f, end)
  BY <1>1, GeneralFold, FoldingUnrolls
<1> HIDE DEF end
<1>3. f[0] = <<>> /\ f[n] = end /\ \A k \in 1 .. n : f[k] = f[k - 1] \o texts[k].text \o <<Separator>>
  <2>1. f[0] = <<>> /\ f[n] = end /\ \A k \in 1 .. n : f[k] = StepOf("general", 0, f[k - 1], texts[k])
    BY <1>1, <1>2, Zenon DEF Unrolls
  <2> QED BY <2>1, Zenon DEF StepOf
<1> DEFINE P(k) == f[k] \in Seq(Int) /\ (k # 0 => Len(f[k]) # 0)
           G == {k \in 0 .. n : P(k)}
<1>4. 0 \in G
  <2>1. P(0)
    <3>1. <<>> \in Seq(Int)
      OBVIOUS
    <3> QED BY <1>3, <3>1
  <2> HIDE DEF P
  <2> QED BY <2>1
<1>5. ASSUME NEW k \in 1 .. n, k - 1 \in G PROVE k \in G
  <2>1. P(k - 1)
    <3> HIDE DEF P
    <3> QED BY <1>5
  <2>2. PICK s, t, u : s = f[k - 1] /\ t = texts[k].text /\ u = <<Separator>>
    OBVIOUS
  <2>3. s \in Seq(Int) /\ t \in Seq(Int)
    <3>1. t \in Seq(Int)
      BY <1>1, <2>2 DEF Readable, IsGameText
    <3> QED BY <2>1, <2>2, <3>1
  <2>a. u \in Seq(Int) /\ Len(u) \in Nat \ {0}
    BY <2>2 DEF Separator
  <2>4. s \o t \o u \in Seq(Int) /\ Len(s \o t \o u) # 0
    <3>1. PICK v : v = s \o t
      OBVIOUS
    <3>2. v \in Seq(Int) /\ Len(v) \in Nat
      BY <2>3, <3>1
    <3>3. v \o u \in Seq(Int) /\ Len(v \o u) = Len(v) + Len(u)
      BY <2>a, <3>2
    <3>4. Len(v \o u) # 0
      BY <2>a, <3>2, <3>3
    <3> QED BY <3>1, <3>3, <3>4
  <2>5. f[k] = s \o t \o u
    BY <1>3, <2>2
  <2>6. P(k) /\ k \in 0 .. n
    BY <2>4, <2>5
  <2> HIDE DEF P
  <2> QED BY <2>6
<1>6. P(n)
  <2>1. \A k \in 0 .. n : k \in G
    <3> HIDE DEF G
    <3> QED BY <1>4, <1>5, BoundedInduction
  <2> HIDE DEF P
  <2> QED BY <2>1
<1>7. end \in Seq(Int) /\ Len(end) # 0
  BY <1>1, <1>3, <1>6
<1> QED BY <1>7 DEF end

(* The suffix array has the places of the string.                          *)
LEMMA SuffixArrayFacts ==
  ASSUME NEW s \in Seq(Int)
  PROVE  /\ DOMAIN SuffixArray(s) = 0 .. Len(s) - 1
         /\ \A i \in 0 .. Len(s) - 1 : SuffixArray(s)[i] \in 0 .. Len(s) - 1
<1> DEFINE places == PlacesOf(s)
           base == [k |-> 4, suffixes |-> FirstSuffixes(s)]
           end == Folding("doubled", s, base, places)[DOMAIN places]
<1>1. PICK n \in Nat : /\ n = Len(s) /\ n = Len(places) /\ DOMAIN places = 1 .. n
                       /\ \A i \in 1 .. n : places[i] = i
  BY PlacesFacts
<1>2. PICK f : Unrolls("doubled", s, base, places, f, end)
  <2> HIDE DEF places, base
  <2> QED BY <1>1, FoldingUnrolls
<1> HIDE DEF end
<1>3. f[0] = base /\ f[n] = end
      /\ \A k \in 1 .. n : f[k] = IF f[k - 1].k >= 2 * Len(s) THEN f[k - 1]
                                  ELSE [k |-> 2 * f[k - 1].k, suffixes |-> Doubled(f[k - 1].suffixes, f[k - 1].k)]
  <2> HIDE DEF base
  <2>1. f[0] = base /\ f[n] = end /\ \A k \in 1 .. n : f[k] = StepOf("doubled", s, f[k - 1], places[k])
    BY <1>1, <1>2, Zenon DEF Unrolls
  <2> QED BY <2>1, Zenon DEF StepOf
<1> DEFINE P(k) == f[k].k \in Nat /\ SuffixList(n, f[k].suffixes) /\ Len(f[k].suffixes) = n
           G == {k \in 0 .. n : P(k)}
<1>4. 0 \in G
  <2>1. P(0)
    <3>1. f[0].k = 4 /\ f[0].suffixes = FirstSuffixes(s)
      BY <1>3
    <3>2. PICK t : t = FirstSuffixes(s)
      OBVIOUS
    <3>3. SuffixList(Len(s), t) /\ Len(t) = Len(s)
      BY <3>2, FirstSuffixesFacts
    <3>4. 4 \in Nat /\ SuffixList(n, t) /\ Len(t) = n
      BY <1>1, <3>3
    <3> QED BY <3>1, <3>2, <3>4, Zenon
  <2> HIDE DEF P
  <2> QED BY <2>1
<1>5. ASSUME NEW k \in 1 .. n, k - 1 \in G PROVE k \in G
  <2>1. P(k - 1)
    <3> HIDE DEF P
    <3> QED BY <1>5
  <2>2. PICK st : st = f[k - 1]
    OBVIOUS
  <2>3. PICK d, t : d = st.k /\ t = st.suffixes
    OBVIOUS
  <2>4. d \in Nat /\ SuffixList(n, t) /\ Len(t) = n
    BY <2>1, <2>2, <2>3
  <2>5. SuffixList(n, Doubled(t, d)) /\ Len(Doubled(t, d)) = n
    BY <2>4, DoubledFacts
  <2>6. f[k] = IF d >= 2 * Len(s) THEN st ELSE [k |-> 2 * d, suffixes |-> Doubled(t, d)]
    BY <1>3, <2>2, <2>3
  <2>7. P(k) /\ k \in 0 .. n
    <3>1. CASE d >= 2 * Len(s)
      BY <2>3, <2>4, <2>6, <3>1
    <3>2. CASE ~(d >= 2 * Len(s))
      <4>1. f[k].k = 2 * d /\ f[k].suffixes = Doubled(t, d)
        BY <2>6, <3>2
      <4> QED BY <2>4, <2>5, <4>1
    <3> QED BY <3>1, <3>2
  <2> HIDE DEF P
  <2> QED BY <2>7
<1>6. P(n)
  <2>1. \A k \in 0 .. n : k \in G
    <3> HIDE DEF G
    <3> QED BY <1>4, <1>5, BoundedInduction
  <2> HIDE DEF P
  <2> QED BY <2>1
<1>7. PICK t : t = Rounds(s)
  OBVIOUS
<1>8. t = end.suffixes
  BY <1>7, Zenon DEF Rounds, end, places, base
<1>9. SuffixArray(s) = [i \in 0 .. n - 1 |-> t[i + 1].index]
  BY <1>1, <1>7, DoubledFold
<1>10. ASSUME NEW i \in 0 .. n - 1 PROVE t[i + 1].index \in 0 .. n - 1
  <2>1. PICK j \in 1 .. n : j = i + 1
    OBVIOUS
  <2>2. SuffixList(n, t)
    BY <1>3, <1>6, <1>8
  <2> QED BY <2>1, <2>2 DEF SuffixList, SuffixRecord
<1> QED BY <1>1, <1>9, <1>10

----------------------------------------------------------------------------
(* What suffixes share.                                                    *)

\* How far two suffixes go on alike.
Extends(s, n, i, j, k, e) ==
  /\ \A m \in k .. e - 1 : i + m < n /\ j + m < n /\ s[i + m + 1] = s[j + m + 1]
  /\ ~(i + e < n /\ j + e < n /\ s[i + e + 1] = s[j + e + 1])

(* They do not go on for ever.                                             *)
LEMMA ExtendsSomewhere ==
  ASSUME NEW s, NEW n \in Nat, NEW i \in Nat, NEW j, NEW k \in 0 .. n
  PROVE  \E e \in k .. n : Extends(s, n, i, j, k, e)
<1> DEFINE GoesOn(e) == i + e < n /\ j + e < n /\ s[i + e + 1] = s[j + e + 1]
           S == {e \in k .. n : ~GoesOn(e)}
<1>1. n \in S
  OBVIOUS
<1>2. S \subseteq Nat /\ S \subseteq k .. n /\ \A e \in k .. n : e \notin S => GoesOn(e)
  OBVIOUS
<1>3. \A e \in S : ~GoesOn(e)
  OBVIOUS
<1> HIDE DEF S
<1>4. PICK e \in S : \A x \in S : e <= x
  BY <1>1, <1>2, LeastOf
<1>5. \A m \in k .. e - 1 : GoesOn(m)
  <2> HIDE DEF GoesOn
  <2>1. \A m \in k .. e - 1 : m \in k .. n /\ ~(e <= m)
    BY <1>2
  <2> QED BY <1>2, <1>4, <2>1
<1>6. Extends(s, n, i, j, k, e)
  BY <1>3, <1>5 DEF Extends
<1> QED BY <1>2, <1>6

\* How far two suffixes go on alike beyond what they are known to share.
Further(s, n, i, j, k) == CHOOSE e \in k .. n : Extends(s, n, i, j, k, e)

\* What the suffix at i shares with the one before it in the array, given the others.
SharedAt(s, n, sa, f, i) ==
  IF i = -1 \/ i = sa[0] THEN 0
  ELSE IF f[i - 1] > 0 THEN Further(s, n, i, sa[(CHOOSE r \in 0 .. n - 1 : sa[r] = i) - 1], f[i - 1] - 1)
       ELSE Further(s, n, i, sa[(CHOOSE r \in 0 .. n - 1 : sa[r] = i) - 1], 0)

\* f is what the suffixes at the places of D share.
Shares(s, n, sa, f, D) == f = [i \in D |-> SharedAt(s, n, sa, f, i)]

\* All of it within the string.
Within(n, f, D) == \A i \in D : f[i] \in 0 .. n

(* What is shared is within the string.                                    *)
LEMMA SharedWithin ==
  ASSUME NEW s, NEW n \in Nat, NEW sa, NEW f, NEW i \in -1 .. n, i # -1 => f[i - 1] \in 0 .. n
  PROVE  SharedAt(s, n, sa, f, i) \in 0 .. n
<1> DEFINE j == sa[(CHOOSE r \in 0 .. n - 1 : sa[r] = i) - 1]
<1>1. ASSUME NEW k \in 0 .. n, i \in Nat PROVE Further(s, n, i, j, k) \in 0 .. n
  <2> HIDE DEF j
  <2>1. \E e \in k .. n : Extends(s, n, i, j, k, e)
    BY <1>1, ExtendsSomewhere
  <2>2. Further(s, n, i, j, k) \in k .. n
    BY <2>1, Zenon DEF Further
  <2> QED BY <1>1, <2>2
<1>2. SharedAt(s, n, sa, f, i) = IF i = -1 \/ i = sa[0] THEN 0
                                 ELSE IF f[i - 1] > 0 THEN Further(s, n, i, j, f[i - 1] - 1)
                                      ELSE Further(s, n, i, j, 0)
  BY Zenon DEF SharedAt
<1> HIDE DEF j
<1>3. CASE i = -1 \/ i = sa[0]
  BY <1>2, <1>3
<1>4. CASE ~(i = -1 \/ i = sa[0])
  <2>1. i \in Nat /\ f[i - 1] \in 0 .. n /\ 0 \in 0 .. n
    BY <1>4
  <2>2. CASE f[i - 1] > 0
    <3>1. PICK k \in 0 .. n : k = f[i - 1] - 1
      BY <2>1, <2>2
    <3>2. SharedAt(s, n, sa, f, i) = Further(s, n, i, j, k)
      BY <1>2, <1>4, <2>2, <3>1
    <3> QED BY <1>1, <2>1, <3>2
  <2>3. CASE ~(f[i - 1] > 0)
    <3>1. SharedAt(s, n, sa, f, i) = Further(s, n, i, j, 0)
      BY <1>2, <1>4, <2>3
    <3> QED BY <1>1, <2>1, <3>1
  <2> QED BY <2>2, <2>3
<1> QED BY <1>3, <1>4

(* There is such a function.                                               *)
LEMMA SharesExist ==
  ASSUME NEW s, NEW n \in Nat, NEW sa
  PROVE  \E f : Shares(s, n, sa, f, -1 .. n - 1) /\ Within(n, f, -1 .. n - 1)
<1> DEFINE P(m) == \E f : Shares(s, n, sa, f, -1 .. m - 2) /\ Within(n, f, -1 .. m - 2)
           G == {m \in 0 .. n + 1 : P(m)}
<1>1. 0 \in G
  <2> DEFINE f == [i \in -1 .. 0 - 2 |-> 0]
  <2>1. \A i \in -1 .. 0 - 2 : FALSE
    OBVIOUS
  <2>2. f = [i \in -1 .. 0 - 2 |-> SharedAt(s, n, sa, f, i)]
    BY <2>1, Zenon
  <2> HIDE DEF f
  <2>3. Shares(s, n, sa, f, -1 .. 0 - 2) /\ Within(n, f, -1 .. 0 - 2)
    BY <2>1, <2>2 DEF Shares, Within
  <2>4. 0 \in 0 .. n + 1
    OBVIOUS
  <2> QED BY <2>3, <2>4
<1>2. ASSUME NEW m \in 1 .. n + 1, m - 1 \in G PROVE m \in G
  <2>1. PICK f : Shares(s, n, sa, f, -1 .. (m - 1) - 2) /\ Within(n, f, -1 .. (m - 1) - 2)
    BY <1>2
  <2> DEFINE g == [i \in -1 .. m - 2 |-> SharedAt(s, n, sa, f, i)]
  <2>2. ASSUME NEW i \in -1 .. m - 2, i # -1 PROVE g[i - 1] = f[i - 1]
    <3>1. PICK j : j = i - 1 /\ j \in -1 .. (m - 1) - 2 /\ j \in -1 .. m - 2
      BY <2>2
    <3>2. f[j] = SharedAt(s, n, sa, f, j)
      BY <2>1, <3>1, Zenon DEF Shares
    <3>3. g[j] = SharedAt(s, n, sa, f, j)
      BY <3>1, Zenon
    <3> HIDE DEF g
    <3> QED BY <3>1, <3>2, <3>3
  <2>3. \A i \in -1 .. m - 2 : SharedAt(s, n, sa, f, i) = SharedAt(s, n, sa, g, i)
    <3> HIDE DEF g
    <3> SUFFICES ASSUME NEW i \in -1 .. m - 2 PROVE SharedAt(s, n, sa, f, i) = SharedAt(s, n, sa, g, i)
      OBVIOUS
    <3>1. CASE i = -1
      BY <3>1 DEF SharedAt
    <3>2. CASE i # -1
      <4>1. f[i - 1] = g[i - 1]
        BY <2>2, <3>2
      <4>2. ASSUME NEW a, NEW b, a[i - 1] = b[i - 1] PROVE SharedAt(s, n, sa, a, i) = SharedAt(s, n, sa, b, i)
        <5>1. PICK x : x = a[i - 1]
          OBVIOUS
        <5>2. a[i - 1] = x /\ b[i - 1] = x
          BY <4>2, <5>1
        <5> QED BY <5>2 DEF SharedAt
      <4> QED BY <4>1, <4>2
    <3> QED BY <3>1, <3>2
  <2>4. g = [i \in -1 .. m - 2 |-> SharedAt(s, n, sa, f, i)]
    OBVIOUS
  <2> HIDE DEF g
  <2>5. Shares(s, n, sa, g, -1 .. m - 2)
    <3>1. g = [i \in -1 .. m - 2 |-> SharedAt(s, n, sa, g, i)]
      BY <2>3, <2>4, Zenon
    <3> QED BY <3>1, Zenon DEF Shares
  <2>6. Within(n, g, -1 .. m - 2)
    <3> SUFFICES ASSUME NEW i \in -1 .. m - 2 PROVE g[i] \in 0 .. n
      BY DEF Within
    <3>1. i # -1 => f[i - 1] \in 0 .. n
      BY <2>1 DEF Within
    <3>2. SharedAt(s, n, sa, f, i) \in 0 .. n
      <4>1. i \in -1 .. n
        OBVIOUS
      <4> QED BY <3>1, <4>1, SharedWithin
    <3>3. g[i] = SharedAt(s, n, sa, f, i)
      BY <2>4, Zenon
    <3> QED BY <3>2, <3>3
  <2> QED BY <2>5, <2>6
<1> HIDE DEF G
<1>3. \A m \in 0 .. n + 1 : m \in G
  <2>1. n + 1 \in Nat
    OBVIOUS
  <2> QED BY <1>1, <1>2, <2>1, BoundedInduction
<1>4. n + 1 \in 0 .. n + 1 /\ (n + 1) - 2 = n - 1
  OBVIOUS
<1>5. P(n + 1)
  BY <1>3, <1>4 DEF G
<1> QED BY <1>4, <1>5

(* The suffixes share whole numbers of characters.                         *)
LEMMA LcpFacts ==
  ASSUME NEW s \in Seq(Int), NEW sa, \A r \in 0 .. Len(s) - 1 : sa[r] \in 0 .. Len(s) - 1
  PROVE  /\ DOMAIN LcpArray(s, sa) = 0 .. Len(s) - 1
         /\ \A r \in 0 .. Len(s) - 1 : LcpArray(s, sa)[r] \in 0 .. Len(s)
<1> DEFINE n == Len(s)
           shared == CHOOSE f : Shares(s, n, sa, f, -1 .. n - 1)
           row == <<>> \o [i \in 1 .. n |-> shared[i - 1]]
<1>0. n \in Nat
  OBVIOUS
<1>1. Shares(s, n, sa, shared, -1 .. n - 1)
  <2> HIDE DEF n
  <2>1. \E f : Shares(s, n, sa, f, -1 .. n - 1)
    BY <1>0, SharesExist
  <2> QED BY <2>1, Zenon
<1>2. LcpArray(s, sa) = [r \in 0 .. n - 1 |-> row[sa[r] + 1]]
  <2> QED BY Zenon DEF LcpArray, Shares, SharedAt, Further, Extends
<1> HIDE DEF shared, n
<1>3. \A i \in -1 .. n - 1 : shared[i] \in 0 .. n
  <2> DEFINE G == {m \in 0 .. n : shared[m - 1] \in 0 .. n}
  <2>1. \A i \in -1 .. n - 1 : shared[i] = SharedAt(s, n, sa, shared, i)
    BY <1>1, Zenon DEF Shares
  <2>2. 0 \in G
    <3>1. -1 \in -1 .. n - 1 /\ 0 - 1 = -1 /\ 0 \in 0 .. n
      BY <1>0
    <3>2. shared[-1] = 0
      BY <2>1, <3>1 DEF SharedAt
    <3> QED BY <3>1, <3>2
  <2>3. ASSUME NEW m \in 1 .. n, m - 1 \in G PROVE m \in G
    <3>1. PICK i : i = m - 1 /\ i \in 0 .. n - 1
      BY <1>0
    <3>2. shared[i - 1] \in 0 .. n
      BY <2>3, <3>1
    <3>3. SharedAt(s, n, sa, shared, i) \in 0 .. n
      <4>1. i \in -1 .. n
        BY <1>0, <3>1
      <4> QED BY <1>0, <3>2, <4>1, SharedWithin
    <3>4. shared[i] \in 0 .. n
      <4>1. i \in -1 .. n - 1
        BY <1>0, <3>1
      <4> QED BY <2>1, <3>3, <4>1
    <3> QED BY <3>1, <3>4
  <2>4. \A m \in 0 .. n : m \in G
    <3> HIDE DEF G
    <3> QED BY <1>0, <2>2, <2>3, BoundedInduction
  <2> SUFFICES ASSUME NEW i \in -1 .. n - 1 PROVE shared[i] \in 0 .. n
    OBVIOUS
  <2>5. PICK m \in 0 .. n : m - 1 = i
    <3>1. i + 1 \in 0 .. n /\ (i + 1) - 1 = i
      BY <1>0
    <3> QED BY <3>1
  <2> QED BY <2>4, <2>5
<1>4. \A i \in 1 .. n : row[i] \in 0 .. n
  <2> DEFINE f == [i \in 1 .. n |-> shared[i - 1]]
  <2>1. f \in [1 .. n -> 0 .. n]
    BY <1>0, <1>3
  <2>2. f \in Seq(0 .. n) /\ \A i \in 1 .. n : f[i] \in 0 .. n
    BY <1>0, <2>1, FunctionIsSeq
  <2>3. row = <<>> \o f
    OBVIOUS
  <2> HIDE DEF f, row
  <2>4. <<>> \o f = f
    BY <2>2
  <2> QED BY <2>2, <2>3, <2>4
<1> HIDE DEF row
<1>5. \A r \in 0 .. n - 1 : sa[r] + 1 \in 1 .. n
  BY <1>0 DEF n
<1>6. DOMAIN LcpArray(s, sa) = 0 .. n - 1 /\ \A r \in 0 .. n - 1 : LcpArray(s, sa)[r] \in 0 .. n
  BY <1>2, <1>4, <1>5
<1> QED BY <1>6 DEF n

\* What n suffixes share, in numbers.
LcpOf(lcp, n) == \A r \in 0 .. n - 1 : lcp[r] \in Int

(* The first of a group is at the place or before it.                      *)
LEMMA FirstFacts ==
  ASSUME NEW n \in Nat, NEW lcp, LcpOf(lcp, n), NEW index \in 0 .. n - 1, NEW length \in Int
  PROVE  FirstWithPrefix(lcp, index, length) \in 0 .. index
<1> DEFINE Lo(i) == /\ i = 0 \/ lcp[i] < length
                    /\ \A j \in i + 1 .. index : lcp[j] >= length
           lo == CHOOSE i \in 0 .. index : Lo(i)
           S == {d \in 0 .. index : index - d = 0 \/ lcp[index - d] < length}
<1>1. index \in S /\ S \subseteq Nat
  OBVIOUS
<1>2. PICK d \in S : \A x \in S : d <= x
  <2> HIDE DEF S
  <2> QED BY <1>1, LeastOf
<1>3. PICK i \in 0 .. index : i = index - d
  OBVIOUS
<1>4. Lo(i)
  <2>1. i = 0 \/ lcp[i] < length
    BY <1>2, <1>3
  <2>2. ASSUME NEW j \in i + 1 .. index PROVE lcp[j] >= length
    <3>1. PICK e \in 0 .. index : e = index - j /\ e < d
      BY <1>2, <1>3
    <3>2. e \notin S
      <4> HIDE DEF S
      <4>1. d \in Nat
        BY <1>1, <1>2
      <4> QED BY <1>2, <3>1, <4>1
    <3>3. ~(lcp[j] < length)
      BY <3>1, <3>2
    <3>4. lcp[j] \in Int
      BY DEF LcpOf
    <3> QED BY <3>3, <3>4
  <2> QED BY <2>1, <2>2
<1> HIDE DEF S, Lo
<1>5. lo \in 0 .. index
  BY <1>4, Zenon
<1>6. FirstWithPrefix(lcp, index, length) = IF lo = index THEN index ELSE lo + 1
  BY Zenon DEF FirstWithPrefix, Lo
<1> HIDE DEF lo
<1> QED BY <1>5, <1>6

(* The last of a group is at the place or after it.                        *)
LEMMA LastFacts ==
  ASSUME NEW n \in Nat, NEW lcp, LcpOf(lcp, n), NEW index \in 0 .. n - 1, NEW length \in Int
  PROVE  LastWithPrefix(lcp, n, index, length) \in index .. n - 1
<1> DEFINE Hi(hi) == /\ \A j \in index + 1 .. hi : lcp[j] >= length
                     /\ hi = n - 1 \/ lcp[hi + 1] < length
           S == {hi \in index .. n - 1 : hi = n - 1 \/ lcp[hi + 1] < length}
<1>1. n - 1 \in S /\ S \subseteq Nat
  OBVIOUS
<1>2. PICK hi \in S : \A x \in S : hi <= x
  <2> HIDE DEF S
  <2> QED BY <1>1, LeastOf
<1>3. Hi(hi)
  <2>1. hi = n - 1 \/ lcp[hi + 1] < length
    OBVIOUS
  <2>2. ASSUME NEW j \in index + 1 .. hi PROVE lcp[j] >= length
    <3>1. PICK e \in index .. n - 1 : e = j - 1 /\ e < hi /\ e # n - 1 /\ e + 1 = j
      OBVIOUS
    <3>2. e \notin S
      <4> HIDE DEF S
      <4>1. hi \in Nat
        BY <1>1, <1>2
      <4> QED BY <1>2, <3>1, <4>1
    <3>3. ~(lcp[j] < length)
      BY <3>1, <3>2
    <3>4. lcp[j] \in Int
      BY DEF LcpOf
    <3> QED BY <3>3, <3>4
  <2> QED BY <2>1, <2>2
<1>4. hi \in index .. n - 1
  OBVIOUS
<1> HIDE DEF S, Hi
<1>5. LastWithPrefix(lcp, n, index, length) = CHOOSE x \in index .. n - 1 : Hi(x)
  BY Zenon DEF LastWithPrefix, Hi
<1> QED BY <1>3, <1>4, <1>5, Zenon

(* A suffix is in its own group.                                           *)
LEMMA CountFacts ==
  ASSUME NEW n \in Nat, NEW lcp, LcpOf(lcp, n), NEW index \in 0 .. n - 1, NEW length \in Int
  PROVE  SaCount(lcp, n, index, length) \in Nat \ {0}
<1>1. PICK x, y : x = FirstWithPrefix(lcp, index, length) /\ y = LastWithPrefix(lcp, n, index, length)
  OBVIOUS
<1>2. x \in 0 .. index /\ y \in index .. n - 1
  BY <1>1, FirstFacts, LastFacts
<1>3. SaCount(lcp, n, index, length) = y - x + 1
  BY <1>1 DEF SaCount
<1> QED BY <1>2, <1>3

(* The places looked at are in the array, each with a length.              *)
LEMMA LookedAtFacts ==
  ASSUME NEW n \in Nat \ {0}, NEW lcp, LcpOf(lcp, n)
  PROVE  LookedAt(n, lcp) \subseteq (0 .. n - 1) \X (1 .. n) /\ IsFiniteSet(LookedAt(n, lcp))
<1>1. PICK c : c = SaCount(lcp, n, 0, 1)
  OBVIOUS
<1>2. c \in Nat
  <2>1. 0 \in 0 .. n - 1 /\ 1 \in Int /\ n \in Nat
    OBVIOUS
  <2> QED BY <1>1, <2>1, CountFacts
<1>3. LookedAt(n, lcp) \subseteq (c .. n - 2) \X (1 .. n)
  BY <1>1, Zenon DEF LookedAt
<1>4. (c .. n - 2) \subseteq 0 .. n - 1
  BY <1>2
<1>5. LookedAt(n, lcp) \subseteq (0 .. n - 1) \X (1 .. n)
  BY <1>3, <1>4, Zenon
<1>6. IsFiniteSet((0 .. n - 1) \X (1 .. n))
  <2>1. IsFiniteSet(0 .. n - 1) /\ IsFiniteSet(1 .. n)
    BY FS_Interval
  <2> QED BY <2>1, FS_Product
<1> QED BY <1>5, <1>6, FS_Subset

(* What is read at a place is a piece of the string.                       *)
LEMMA KeyAtFacts ==
  ASSUME NEW s \in Seq(Int), NEW n, n = Len(s), NEW sa, \A r \in 0 .. n - 1 : sa[r] \in 0 .. n - 1,
         NEW at \in (0 .. n - 1) \X (1 .. n)
  PROVE  KeyAt(s, sa, at) \in Seq(Int) \ {<<>>}
<1>0. n \in Nat
  OBVIOUS
<1>1. PICK x \in 0 .. n - 1, l \in 1 .. n : x = sa[at[1]] /\ l = at[2]
  BY <1>0
<1>2. PICK m \in Nat \ {0} : m = x + 1
  BY <1>0
<1>3. PICK top : top = Min({x + l, n})
  OBVIOUS
<1>4. top \in {x + l, n} /\ top <= x + l /\ top <= n
  <2>1. \E t \in {x + l, n} : \A y \in {x + l, n} : t <= y
    <3>1. CASE x + l <= n
      BY <1>0, <3>1
    <3>2. CASE ~(x + l <= n)
      BY <1>0, <3>2
    <3> QED BY <3>1, <3>2
  <2>2. top = CHOOSE t \in {x + l, n} : \A y \in {x + l, n} : t <= y
    BY <1>3 DEF Min
  <2> QED BY <2>1, <2>2
<1>5. top \in Nat /\ top <= n /\ m <= top
  BY <1>0, <1>2, <1>4
<1>6. KeyAt(s, sa, at) = SubSeq(s, m, top)
  BY <1>1, <1>2, <1>3 DEF KeyAt
<1>7. SubSeq(s, m, top) \in Seq(Int) /\ Len(SubSeq(s, m, top)) = top - m + 1
  <2>1. top <= Len(s) /\ m <= top + 1
    BY <1>0, <1>2, <1>5
  <2> QED BY <1>2, <1>5, <2>1, SubSeqFacts
<1>8. Len(SubSeq(s, m, top)) # 0
  BY <1>2, <1>5, <1>7
<1>9. Len(<<>>) = 0
  OBVIOUS
<1> QED BY <1>6, <1>7, <1>8, <1>9, Zenon

(* The patterns extracted are under their keys, with what is true of these.*)
LEMMA ExtractFacts ==
  ASSUME NEW alpha, NEW texts, Readable(texts), texts # <<>>
  PROVE  LET memory == ExtractPatterns(alpha, texts)
         IN  /\ Current(alpha, texts, memory) /\ IsFiniteSet(DOMAIN memory)
             /\ \A p \in DOMAIN memory : p \in Seq(Int) \ {<<>>} /\ memory[p].key = p
<1> DEFINE memory == ExtractPatterns(alpha, texts)
<1>1. PICK s : s = GeneralizedString(texts)
  OBVIOUS
<1>2. s \in Seq(Int) /\ Len(s) \in Nat \ {0}
  BY <1>1, GeneralFacts
<1>3. PICK n \in Nat \ {0} : n = Len(s)
  BY <1>2
<1>4. PICK sa : sa = SuffixArray(s)
  OBVIOUS
<1>5. \A r \in 0 .. n - 1 : sa[r] \in 0 .. n - 1
  BY <1>2, <1>3, <1>4, SuffixArrayFacts
<1>6. PICK lcp : lcp = LcpArray(s, sa)
  OBVIOUS
<1>7. LcpOf(lcp, n)
  <2>1. \A r \in 0 .. Len(s) - 1 : lcp[r] \in 0 .. Len(s)
    BY <1>2, <1>3, <1>5, <1>6, LcpFacts
  <2> QED BY <1>3, <2>1 DEF LcpOf
<1>8. PICK places : places = WantedPlaces(alpha, s, sa, lcp)
  OBVIOUS
<1>9. /\ DOMAIN places \subseteq LookedAt(n, lcp)
      /\ \A at \in DOMAIN places : places[at] = KeyAt(s, sa, at)
  BY <1>3, <1>8, Zenon DEF WantedPlaces
<1>10. /\ DOMAIN places \subseteq (0 .. n - 1) \X (1 .. n) /\ IsFiniteSet(DOMAIN places)
       /\ \A at \in DOMAIN places : places[at] \in Seq(Int) \ {<<>>}
  <2>1. LookedAt(n, lcp) \subseteq (0 .. n - 1) \X (1 .. n) /\ IsFiniteSet(LookedAt(n, lcp))
    BY <1>7, LookedAtFacts
  <2>2. DOMAIN places \subseteq (0 .. n - 1) \X (1 .. n) /\ IsFiniteSet(DOMAIN places)
    BY <1>9, <2>1, FS_Subset
  <2>3. ASSUME NEW at \in DOMAIN places PROVE places[at] \in Seq(Int) \ {<<>>}
    <3>1. at \in (0 .. n - 1) \X (1 .. n)
      BY <2>2
    <3>2. KeyAt(s, sa, at) \in Seq(Int) \ {<<>>}
      BY <1>2, <1>3, <1>5, <3>1, KeyAtFacts
    <3> QED BY <1>9, <3>2
  <2> QED BY <2>2, <2>3
<1>11. memory = PatternsAt(alpha, n, lcp, places)
  BY <1>1, <1>3, <1>4, <1>6, <1>8, Zenon
     DEF ExtractPatterns, Extraction, PatternsOf, PatternsIn
<1> HIDE DEF memory
<1> DEFINE FirstOf(key) == Min({at[1] : at \in {p \in DOMAIN places : places[p] = key}})
<1>12. memory = [key \in Range(places) |->
                   NewPattern(key, SaCount(lcp, n, FirstOf(key), Len(key)), ZstringCost(alpha, key))]
  BY <1>11, Zenon DEF PatternsAt
<1>13. IsFiniteSet(Range(places))
  <2>1. places = [x \in DOMAIN places |-> places[x]]
    BY <1>8, Zenon DEF WantedPlaces
  <2>2. places \in Surjection(DOMAIN places, Range(places))
    BY <2>1 DEF Surjection, Range
  <2> QED BY <1>10, <2>2, FS_Surjection
<1>14. ASSUME NEW key \in Range(places)
       PROVE  /\ key \in Seq(Int) \ {<<>>}
              /\ IsPattern(alpha, texts, memory[key]) /\ memory[key].key = key
  <2>1. PICK at \in DOMAIN places : places[at] = key
    BY Zenon DEF Range
  <2>2. key \in Seq(Int) \ {<<>>}
    BY <1>10, <2>1
  <2>3. FirstOf(key) \in 0 .. n - 1
    <3> DEFINE S == {p[1] : p \in {q \in DOMAIN places : places[q] = key}}
    <3>1. S \subseteq 0 .. n - 1
      BY <1>10
    <3>2. at[1] \in S
      BY <2>1
    <3>3. FirstOf(key) = CHOOSE x \in S : \A y \in S : x <= y
      BY Zenon DEF Min
    <3> HIDE DEF S
    <3>4. \E x \in S : \A y \in S : x <= y
      <4>1. S \subseteq Nat
        BY <3>1
      <4> QED BY <3>2, <4>1, LeastOf
    <3>5. FirstOf(key) \in S
      <4> HIDE DEF FirstOf
      <4> QED BY <3>3, <3>4, Zenon
    <3> HIDE DEF FirstOf
    <3> QED BY <3>1, <3>5
  <2>4. PICK first \in 0 .. n - 1 : first = FirstOf(key)
    BY <2>3, Zenon
  <2> HIDE DEF FirstOf
  <2>5. PICK f, c : f = SaCount(lcp, n, first, Len(key)) /\ c = ZstringCost(alpha, key)
    OBVIOUS
  <2>6. f \in Nat /\ c \in Nat
    <3>1. Len(key) \in Int /\ n \in Nat
      BY <2>2
    <3>2. f \in Nat
      BY <1>7, <2>5, <3>1, CountFacts
    <3>3. c \in Nat
      BY <2>2, <2>5, CostTotal
    <3> QED BY <3>2, <3>3
  <2>7. memory[key] = NewPattern(key, f, c)
    BY <1>12, <2>4, <2>5, Zenon
  <2>8. PatternScore(f, c) \in Int
    BY <2>6, ScoreFacts
  <2>9. IsPattern(alpha, texts, memory[key]) /\ memory[key].key = key
    BY <2>2, <2>5, <2>6, <2>7, <2>8 DEF IsPattern, NewPattern
  <2> QED BY <2>2, <2>9
<1>15. DOMAIN memory = Range(places)
  BY <1>12, Zenon
<1>16. Current(alpha, texts, memory)
  BY <1>14, <1>15, Zenon DEF Current
<1> QED BY <1>13, <1>14, <1>15, <1>16, Zenon DEF memory
=============================================================================

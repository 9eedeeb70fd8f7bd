--------------------------- MODULE RoundTrip_proof ---------------------------
(***************************************************************************)
(* zd reads back what za wrote, whatever the source: first that it decodes *)
(* each instruction to its opcode, its operands, the variable it stores to,*)
(* what its branch returns and its text; then that, wherever calls and     *)
(* jumps lead, its walk goes from line to line, lists them, and errs only  *)
(* over what a line names.                                                 *)
(***************************************************************************)
EXTENDS RoundTrip, ZdTraversal_proof, FiniteSetTheorems, WellFoundedInduction, TLAPS

----------------------------------------------------------------------------
(* Induction, as a fact about sets of numbers.                             *)

(* A set of natural numbers that is not empty has a least one.             *)
LEMMA Least ==
  ASSUME NEW S, S \subseteq Nat, S # {}
  PROVE  \E m \in S : \A n \in S : m <= n
<1> DEFINE R == {ss \in Nat \X Nat : ss[1] < ss[2]}
<1>1. IsWellFoundedOn(R, Nat)
  <2>1. OpToRel(<, Nat) = R
    BY DEF OpToRel
  <2> QED BY <2>1, NatLessThanWellFounded
<1>2. PICK m \in S : \A n \in S : ~(<<n, m>> \in R)
  <2> HIDE DEF R
  <2> QED BY <1>1, WFMin
<1>3. \A n \in S : ~(n < m)
  BY <1>2
<1> QED BY <1>3

(* A set with 0, and with n + 1 if it has n, has every natural number.     *)
LEMMA Induction ==
  ASSUME NEW S, 0 \in S, \A n \in Nat : n \in S => n + 1 \in S
  PROVE  \A n \in Nat : n \in S
<1> SUFFICES ASSUME Nat \ S # {} PROVE FALSE
  OBVIOUS
<1>1. PICK m \in Nat \ S : \A n \in Nat \ S : m <= n
  BY Least
<1>2. m # 0 /\ m - 1 \in Nat /\ m - 1 \in S
  BY <1>1
<1> QED BY <1>1, <1>2

----------------------------------------------------------------------------
(* Sequences.                                                              *)

(* Two sequences one after the other.                                      *)
LEMMA ConcatFacts ==
  ASSUME NEW S, NEW s \in Seq(S), NEW t \in Seq(S)
  PROVE  /\ s \o t \in Seq(S)
         /\ Len(s) \in Nat /\ Len(t) \in Nat
         /\ Len(s \o t) = Len(s) + Len(t)
         /\ \A i \in 1..Len(s) : (s \o t)[i] = s[i]
         /\ \A i \in 1..Len(t) : (s \o t)[Len(s) + i] = t[i]
OBVIOUS

(* f is computed from a first value in N steps.                            *)
Accumulation(T, base, N, Step, f) ==
  /\ f \in [0..N -> T]
  /\ f[0] = base
  /\ \A n \in 1..N : f[n] = Step[n][f[n - 1]]

(* What is computed step by step from a first value is a function.         *)
LEMMA Accumulates ==
  ASSUME NEW T, NEW base \in T, NEW N \in Nat, NEW Step \in [1..N -> [T -> T]]
  PROVE  \E f : Accumulation(T, base, N, Step, f)
<1> USE DEF Accumulation
<1> DEFINE Is(m, f) == Accumulation(T, base, m, Step, f)
           G == {m \in Nat : m <= N => \E f : Is(m, f)}
<1>1. 0 \in G
  <2> DEFINE f == [k \in 0..0 |-> base]
  <2>1. Is(0, f) OBVIOUS
  <2> HIDE DEF f, Is
  <2> QED BY <2>1
<1>2. ASSUME NEW m \in Nat, m \in G PROVE m + 1 \in G
  <2>1. ASSUME m + 1 <= N PROVE \E g : Is(m + 1, g)
    <3>1. \E f : Is(m, f)
      <4>1. m <= N BY <2>1
      <4> HIDE DEF Is
      <4> QED BY <4>1, <1>2
    <3>2. PICK f : Is(m, f)
      BY <3>1
    <3> DEFINE new == Step[m + 1][f[m]]
               g == [k \in 0..m + 1 |-> IF k = m + 1 THEN new ELSE f[k]]
    <3>3. f[m] \in T /\ m + 1 \in 1..N
      BY <2>1, <3>2
    <3>4. new \in T
      BY <3>3
    <3>5. /\ g \in [0..m + 1 -> T]
          /\ g[m + 1] = new
          /\ \A k \in 0..m : g[k] = f[k]
      <4> HIDE DEF new
      <4> QED BY <3>2, <3>4
    <3> HIDE DEF g
    <3>6. ASSUME NEW k \in 1..m + 1 PROVE g[k] = Step[k][g[k - 1]]
      <4>1. CASE k = m + 1
        <5>1. k - 1 = m /\ m \in 0..m
          BY <4>1
        <5> QED BY <4>1, <5>1, <3>5
      <4>2. CASE k # m + 1
        <5>1. k \in 1..m /\ k \in 0..m /\ k - 1 \in 0..m
          BY <4>2
        <5> QED BY <5>1, <3>5, <3>2
      <4> QED BY <4>1, <4>2
    <3>7. g[0] = base
      BY <3>2, <3>5
    <3>8. Is(m + 1, g)
      BY <3>5, <3>6, <3>7
    <3> HIDE DEF Is
    <3> QED BY <3>8
  <2> HIDE DEF Is
  <2> QED BY <2>1
<1>3. N \in G
  <2> HIDE DEF G
  <2> QED BY <1>1, <1>2, Induction
<1>4. \E f : Is(N, f)
  <2> HIDE DEF Is
  <2> QED BY <1>3
<1> QED BY <1>4

(* at[n] is where the n-th of some sequences ends when they are written    *)
(* one after another.                                                      *)
Layout(seqs, at) ==
  /\ at \in [0..Len(seqs) -> Nat]
  /\ at[0] = 0
  /\ at[Len(seqs)] = Len(FlattenSeq(seqs))
  /\ \A n \in 1..Len(seqs) :
       /\ at[n] = at[n - 1] + Len(seqs[n])
       /\ at[n] <= Len(FlattenSeq(seqs))
       /\ \A j \in 1..Len(seqs[n]) :
            FlattenSeq(seqs)[at[n - 1] + j] = seqs[n][j]

(* The sequences of a sequence, one after another, have a layout.          *)
LEMMA FlattenFacts ==
  ASSUME NEW S, NEW seqs \in Seq(Seq(S))
  PROVE  FlattenSeq(seqs) \in Seq(S) /\ \E at : Layout(seqs, at)
<1> DEFINE N == Len(seqs)
           Step == [n \in 1..N |-> [s \in Seq(S) |-> s \o seqs[n]]]
<1>1. N \in Nat /\ \A k \in 1..N : seqs[k] \in Seq(S)
  OBVIOUS
<1>2. PICK f \in [0..N -> Seq(S)] :
        f[0] = <<>> /\ \A n \in 1..N : f[n] = f[n - 1] \o seqs[n]
  <2>1. Step \in [1..N -> [Seq(S) -> Seq(S)]] /\ <<>> \in Seq(S)
    BY <1>1
  <2>2. PICK f \in [0..N -> Seq(S)] :
          f[0] = <<>> /\ \A n \in 1..N : f[n] = Step[n][f[n - 1]]
    <3> DEFINE T == Seq(S)
               e == <<>>
    <3>1. N \in Nat /\ e \in T /\ Step \in [1..N -> [T -> T]]
      BY <1>1, <2>1
    <3> HIDE DEF Step, N, T, e
    <3>2. PICK f : Accumulation(T, e, N, Step, f)
      BY <3>1, Accumulates
    <3> QED BY <3>2 DEF T, e, Accumulation
  <2> HIDE DEF N
  <2>3. ASSUME NEW n \in 1..N PROVE f[n] = f[n - 1] \o seqs[n]
    <3>1. n - 1 \in 0..N
      BY <1>1
    <3>2. f[n - 1] \in Seq(S)
      BY <3>1
    <3> QED BY <2>2, <3>2
  <2> QED BY <2>2, <2>3
<1>3. FlattenSeq(seqs) = f[N]
  <2>1. CASE N = 0
    BY <1>2, <2>1 DEF FlattenSeq
  <2>2. CASE N # 0
    <3> DEFINE Flat(g) == g = [i \in 1..N |-> IF i = 1 THEN seqs[i]
                                              ELSE g[i - 1] \o seqs[i]]
               g == CHOOSE g : Flat(g)
               h == [i \in 1..N |-> f[i]]
    <3>1. FlattenSeq(seqs) = g[N]
      BY <2>2 DEF FlattenSeq
    <3>2. Flat(h)
      <4>1. ASSUME NEW i \in 1..N
            PROVE  f[i] = IF i = 1 THEN seqs[i] ELSE h[i - 1] \o seqs[i]
        <5>1. CASE i = 1
          <6> HIDE DEF N, h
          <6>1. 1 \in 1..N /\ 1 - 1 = 0
            BY <5>1
          <6>2. f[1] = f[0] \o seqs[1] /\ seqs[1] \in Seq(S)
            BY <1>1, <1>2, <6>1
          <6>3. f[1] = seqs[1]
            BY <1>2, <6>2
          <6> QED BY <5>1, <6>3
        <5>2. CASE i # 1
          <6>1. i - 1 \in 1..N BY <1>1, <5>2
          <6>2. h[i - 1] = f[i - 1] BY <6>1
          <6> HIDE DEF h
          <6> QED BY <1>2, <5>2, <6>2
        <5> QED BY <5>1, <5>2
      <4> QED BY <4>1
    <3>3. Flat(g)
      <4> HIDE DEF Flat, h
      <4> QED BY <3>2
    <3>4. \A i \in 1..N : g[i] = IF i = 1 THEN seqs[i]
                                 ELSE g[i - 1] \o seqs[i]
      <4> HIDE DEF g
      <4> QED BY <3>3
    <3> HIDE DEF g, Flat, N
    <3> DEFINE E == {n \in Nat : n + 1 <= N => g[n + 1] = f[n + 1]}
    <3>5. 0 \in E
      <4>1. ASSUME 1 <= N PROVE g[1] = f[1]
        <5>1. 1 \in 1..N /\ 1 - 1 = 0 BY <1>1, <4>1
        <5>2. f[1] = f[0] \o seqs[1] /\ seqs[1] \in Seq(S) /\ g[1] = seqs[1]
          BY <1>1, <1>2, <3>4, <5>1
        <5> QED BY <5>2, <1>2
      <4> QED BY <4>1
    <3>6. ASSUME NEW n \in Nat, n \in E PROVE n + 1 \in E
      <4>1. ASSUME (n + 1) + 1 <= N PROVE g[(n + 1) + 1] = f[(n + 1) + 1]
        <5> DEFINE k == (n + 1) + 1
        <5>1. k \in 1..N /\ k # 1 /\ k - 1 = n + 1 /\ n + 1 <= N
          BY <1>1, <4>1
        <5> HIDE DEF k
        <5>2. g[k] = g[n + 1] \o seqs[k] /\ f[k] = f[n + 1] \o seqs[k]
          BY <1>2, <3>4, <5>1
        <5>3. g[n + 1] = f[n + 1] BY <3>6, <5>1
        <5> QED BY <5>2, <5>3 DEF k
      <4> QED BY <4>1
    <3>7. N - 1 \in E
      <4> HIDE DEF E
      <4>1. N - 1 \in Nat BY <1>1, <2>2
      <4> QED BY <4>1, <3>5, <3>6, Induction
    <3>8. g[N] = f[N]
      <4>1. (N - 1) + 1 = N BY <1>1
      <4> QED BY <3>7, <4>1
    <3> QED BY <3>1, <3>8
  <2> QED BY <2>1, <2>2
<1> HIDE DEF N, Step
<1> DEFINE at == [n \in 0..N |-> Len(f[n])]
<1>4. at \in [0..N -> Nat] /\ at[0] = 0 /\ \A n \in 0..N : at[n] = Len(f[n])
  BY <1>1, <1>2
<1> HIDE DEF at
<1>5. ASSUME NEW n \in 1..N
      PROVE  /\ n - 1 \in 0..N /\ n \in 0..N
             /\ at[n] \in Nat /\ at[n - 1] \in Nat
             /\ Len(seqs[n]) \in Nat
             /\ at[n] = at[n - 1] + Len(seqs[n])
             /\ \A j \in 1..at[n - 1] : f[n][j] = f[n - 1][j]
             /\ \A j \in 1..Len(seqs[n]) : f[n][at[n - 1] + j] = seqs[n][j]
  <2>1. n - 1 \in 0..N /\ n \in 0..N
    BY <1>1
  <2>2. /\ f[n] = f[n - 1] \o seqs[n] /\ f[n - 1] \in Seq(S)
        /\ seqs[n] \in Seq(S) /\ at[n] = Len(f[n]) /\ at[n - 1] = Len(f[n - 1])
    BY <1>1, <1>2, <1>4, <2>1
  <2> DEFINE t == seqs[n]
             u == f[n - 1]
  <2>3. t \in Seq(S) /\ u \in Seq(S) /\ f[n] = u \o t
        /\ at[n] = Len(f[n]) /\ at[n - 1] = Len(u)
    BY <2>2
  <2> HIDE DEF t, u
  <2>4. /\ Len(u) \in Nat /\ Len(t) \in Nat
        /\ Len(f[n]) = Len(u) + Len(t)
        /\ \A j \in 1..Len(u) : f[n][j] = u[j]
        /\ \A j \in 1..Len(t) : f[n][Len(u) + j] = t[j]
    BY <2>3, ConcatFacts
  <2>5. /\ at[n] \in Nat /\ at[n - 1] \in Nat /\ Len(t) \in Nat
        /\ at[n] = at[n - 1] + Len(t)
        /\ \A j \in 1..at[n - 1] : f[n][j] = u[j]
        /\ \A j \in 1..Len(t) : f[n][at[n - 1] + j] = t[j]
    BY <2>3, <2>4
  <2> QED BY <2>1, <2>5 DEF t, u
<1> DEFINE P == {n \in Nat : n <= N =>
                   \A m \in 0..n :
                     /\ at[m] <= at[n]
                     /\ \A j \in 1..at[m] : f[n][j] = f[m][j]}
<1>6. 0 \in P
  BY <1>4, <1>1
<1>7. ASSUME NEW n \in Nat, n \in P PROVE n + 1 \in P
  <2>1. ASSUME n + 1 <= N, NEW m \in 0..n + 1
        PROVE  /\ at[m] <= at[n + 1]
               /\ \A j \in 1..at[m] : f[n + 1][j] = f[m][j]
    <3>1. n + 1 \in 1..N /\ (n + 1) - 1 = n /\ n <= N
      BY <2>1, <1>1
    <3>2. /\ at[n + 1] \in Nat /\ at[n] \in Nat /\ at[n] <= at[n + 1]
          /\ \A j \in 1..at[n] : f[n + 1][j] = f[n][j]
      BY SMTT(60), <1>5, <3>1
    <3>3. CASE m = n + 1
      BY <3>2, <3>3
    <3>4. CASE m # n + 1
      <4>1. m \in 0..n /\ m \in 0..N BY <3>4, <3>1, <1>1
      <4>2. at[m] <= at[n] /\ at[m] \in Nat
            /\ \A j \in 1..at[m] : f[n][j] = f[m][j]
        BY <1>4, <1>7, <3>1, <4>1
      <4> QED BY <3>2, <4>2
    <3> QED BY <3>3, <3>4
  <2> QED BY <2>1
<1>8. N \in P
  <2> HIDE DEF P
  <2> QED BY <1>1, <1>6, <1>7, Induction
<1>9. ASSUME NEW n \in 1..N
       PROVE  /\ at[n] = at[n - 1] + Len(seqs[n])
              /\ at[n] <= Len(f[N])
              /\ \A j \in 1..Len(seqs[n]) : f[N][at[n - 1] + j] = seqs[n][j]
  <2>1. n \in 0..N /\ N \in 0..N BY <1>1
  <2>2. /\ at[n] <= at[N] /\ at[N] = Len(f[N])
        /\ \A j \in 1..at[n] : f[N][j] = f[n][j]
    BY SMTT(60), <1>1, <1>4, <1>8, <2>1
  <2>3. ASSUME NEW j \in 1..Len(seqs[n]) PROVE at[n - 1] + j \in 1..at[n]
    BY SMTT(60), <1>5, <2>3
  <2> QED BY <1>5, <2>2, <2>3
<1>10. f[N] \in Seq(S) /\ at[N] = Len(f[N])
  <2>1. N \in 0..N BY <1>1
  <2> QED BY <1>2, <1>4, <2>1
<1>11. Layout(seqs, at)
  BY <1>3, <1>4, <1>9, <1>10 DEF N, Layout
<1> QED BY <1>3, <1>10, <1>11

----------------------------------------------------------------------------
(* The forms of za's grammars in zd's tables.                              *)

(* zd's name for the count of operands.                                    *)
CountOf(form) == IF form.count = "VarDouble" THEN "Var" ELSE form.count

(* A number that zd's tables have for a version, with the same results.    *)
InTables(v, form) ==
  LET w == IF v > 6 THEN 5 ELSE v
      n == form.number
      count == CountOf(form)
  IN /\ n \in Known[w][count]
     /\ form.store <=> n \in Stores[w][count]
     /\ form.branch <=> n \in Branches[w][count]
     /\ form.text <=> count = "Zero" /\ n \in {2, 3}
     /\ ~(form.store /\ form.branch)
     /\ form.text => ~form.store /\ ~form.branch

(* Numbers and operands for which the bytes of an opcode have one meaning. *)
Plain(v, form) ==
  \/ form.count = "Zero" /\ form.number \in 0..13 /\ form.args = 0
  \/ form.count = "One" /\ form.number \in 0..15 /\ form.args = 1
  \/ form.count = "Two" /\ form.number \in 0..31 /\ form.args \in 1..4
  \/ /\ form.count = "Var" /\ form.number \in (0..31) \ {12, 26}
     /\ form.args \in 0..4
  \/ /\ form.count = "VarDouble" /\ form.number \in {12, 26}
     /\ form.args \in 1..8
  \/ /\ form.count = "Ext" /\ form.number \in 0..255 /\ form.args \in 0..4
     /\ v >= 5

(* The forms of za's grammar, one kind of opcode after the other: each has *)
(* at most eight operands, and zd knows it with the same result and        *)
(* branch.                                                                 *)
LEMMA ZeroFormFacts ==
  ASSUME NEW v \in 1..8, NEW form \in Za!ZeroForms(v), ~Disagreed(v, form)
  PROVE  Plain(v, form) /\ InTables(v, form)
BY DEF Za!ZeroForms, Za!Plain, Za!Storing, Za!Branching, Za!Form, Za!Since,
   Za!Until, Za!In, Za!Grammar, Plain, InTables, CountOf, Known, Stores,
   Branches, From, UpTo, Only, Disagreed

LEMMA OneFormFacts ==
  ASSUME NEW v \in 1..8, NEW form \in Za!OneForms(v), ~Disagreed(v, form)
  PROVE  Plain(v, form) /\ InTables(v, form)
BY DEF Za!OneForms, Za!Plain, Za!Storing, Za!Branching, Za!Form, Za!Since,
   Za!Until, Za!In, Za!Grammar, Plain, InTables, CountOf, Known, Stores,
   Za!StoringAndBranching,
   Branches, From, UpTo, Only, Disagreed

LEMMA TwoFormFacts ==
  ASSUME NEW v \in 1..8, NEW form \in Za!TwoForms(v), ~Disagreed(v, form)
  PROVE  Plain(v, form) /\ InTables(v, form)
BY SMTT(60)
   DEF Za!TwoForms, Za!Plain, Za!Storing, Za!Branching, Za!Form, Za!Since,
   Za!Until, Za!In, Za!Grammar, Plain, InTables, CountOf, Known, Stores,
   Za!StoringAndBranching,
   Branches, From, UpTo, Only, Disagreed

LEMMA VarFormFacts ==
  ASSUME NEW v \in 1..8, NEW form \in Za!VarForms(v), ~Disagreed(v, form)
  PROVE  Plain(v, form) /\ InTables(v, form)
BY SMTT(100)
   DEF Za!VarForms, Za!Plain, Za!Storing, Za!Branching, Za!Form, Za!Since,
   Za!Until, Za!In, Za!Grammar, Plain, InTables, CountOf, Known, Stores,
   Za!StoringAndBranching,
   Branches, From, UpTo, Only, Disagreed

LEMMA ExtFormFacts ==
  ASSUME NEW v \in 1..8, NEW form \in Za!ExtForms(v), ~Disagreed(v, form)
  PROVE  Plain(v, form) /\ InTables(v, form)
BY SMTT(100)
   DEF Za!ExtForms, Za!Plain, Za!Storing, Za!Branching, Za!Form, Za!Since,
   Za!Until, Za!In, Za!Grammar, Plain, InTables, CountOf, Known, Stores,
   Za!StoringAndBranching,
   Branches, From, UpTo, Only, Disagreed

(* Every form that za and zd agree on is in zd's tables for its version,   *)
(* stores, branches or has a text where the tables say so, and has bytes   *)
(* with one meaning.                                                       *)
LEMMA FormFacts ==
  ASSUME NEW v \in 1..8, NEW form \in ZaForms[v], ~Disagreed(v, form)
  PROVE  Plain(v, form) /\ InTables(v, form)
<1>1. form \in UNION {Za!ZeroForms(v), Za!OneForms(v), Za!TwoForms(v),
                      Za!VarForms(v), Za!ExtForms(v)}
  BY DEF ZaForms, Za!Forms
<1>2. \/ form \in Za!ZeroForms(v) \/ form \in Za!OneForms(v)
      \/ form \in Za!TwoForms(v) \/ form \in Za!VarForms(v)
      \/ form \in Za!ExtForms(v)
  BY <1>1
<1> QED BY <1>2, ZeroFormFacts, OneFormFacts, TwoFormFacts, VarFormFacts,
           ExtFormFacts

----------------------------------------------------------------------------
(* Operands and type bytes.                                                *)

Byte == 0..255

(* A word in two bytes.                                                    *)
LEMMA TwoBytes ==
  ASSUME NEW n \in Nat, n <= 65535
  PROVE  /\ n \div 256 \in 0..255 /\ n % 256 \in 0..255
         /\ n = (n \div 256) * 256 + (n % 256)
OBVIOUS

(* An operand is written as its value, in two bytes if its type is large,  *)
(* else in one.                                                            *)
LEMMA WrittenFacts ==
  ASSUME NEW a \in Argument
  PROVE  /\ Za!MakeType(a) \in {0, 1, 2}
         /\ Za!MakeType(a) = 2 <=> a.kind = "variable"
         /\ Za!Written(a) \in Seq(Byte)
         /\ Za!MakeType(a) = 0 =>
              /\ Len(Za!Written(a)) = 2
              /\ Operand(a).value = Za!Written(a)[1] * 256 + Za!Written(a)[2]
         /\ Za!MakeType(a) # 0 =>
              Len(Za!Written(a)) = 1 /\ Operand(a).value = Za!Written(a)[1]
<1> DEFINE type == Za!MakeType(a)
           w == Za!Written(a)
           value == Operand(a).value
           Facts == /\ type \in {0, 1, 2}
                    /\ type = 2 <=> a.kind = "variable"
                    /\ w \in Seq(Byte)
                    /\ type = 0 => Len(w) = 2 /\ value = w[1] * 256 + w[2]
                    /\ type # 0 => Len(w) = 1 /\ value = w[1]
<1> SUFFICES Facts
  OBVIOUS
<1>1. CASE a \in [kind : {"constant", "label"}, value : {n \in Nat : n <= 65535}]
  <2>1. a.value \in Nat /\ a.value <= 65535
    BY SMT, <1>1
  <2>2. a.kind \in {"constant", "label"}
    BY SMT, <1>1
  <2>3. value = a.value
    BY Zenon DEF Operand
  <2>4. CASE a.kind = "constant" /\ a.value <= 255
    <3>1. type = 1 /\ w = <<a.value>>
      BY Zenon, <2>4 DEF Za!MakeType, Za!SmallConstant, Za!Written
    <3>2. a.value \in 0..255
      BY SMT, <2>1, <2>4
    <3> HIDE DEF type, w, value
    <3> QED BY SMT, <2>3, <2>4, <3>1, <3>2 DEF Byte
  <2>5. CASE a.kind = "label" \/ ~(a.value <= 255)
    <3>1. type = 0 /\ w = <<a.value \div 256, a.value % 256>>
      BY Zenon, <2>2, <2>5 DEF Za!MakeType, Za!Written, Za!Word
    <3> DEFINE hi == a.value \div 256
               lo == a.value % 256
    <3>2. hi \in 0..255 /\ lo \in 0..255 /\ a.value = hi * 256 + lo
      BY SMTT(60), <2>1, TwoBytes
    <3>3. w = <<hi, lo>>
      BY <3>1
    <3> HIDE DEF type, w, value, hi, lo
    <3> QED BY SMT, <2>2, <2>3, <3>1, <3>2, <3>3 DEF Byte
  <2> QED BY <2>2, <2>4, <2>5
<1>2. CASE a \in [kind : {"variable", "reference"}, value : 0..255]
  <2>1. a.value \in 0..255
    BY SMT, <1>2
  <2>2. a.kind \in {"variable", "reference"}
    BY SMT, <1>2
  <2>3. w = <<a.value>> /\ value = a.value
    BY Zenon, <2>2 DEF Za!Written, Operand
  <2>4. type = IF a.kind = "variable" THEN 2 ELSE 1
    BY Zenon, <2>2 DEF Za!MakeType, Za!Variable, Za!SmallConstant
  <2> HIDE DEF type, w, value
  <2> QED BY SMT, <2>1, <2>2, <2>3, <2>4 DEF Byte
<1> HIDE DEF Facts
<1> QED BY <1>1, <1>2 DEF Argument

(* What an operand means, by its type.                                     *)
LEMMA OperandFacts ==
  ASSUME NEW a \in Argument
  PROVE  Operand(a) = [variable |-> Za!MakeType(a) = Variable,
                       value |-> Operand(a).value]
<1>1. (a.kind = "variable") = (Za!MakeType(a) = Variable)
  <2>1. a.kind = "variable" <=> Za!MakeType(a) = Variable
    BY WrittenFacts DEF Variable
  <2> QED BY Zenon, <2>1
<1>2. Operand(a) = [variable |-> a.kind = "variable",
                    value |-> Operand(a).value]
  BY Zenon DEF Operand
<1> QED BY Zenon, <1>1, <1>2

(* The number of numbers up to k is k.                                     *)
LEMMA Counted ==
  ASSUME NEW k \in Nat
  PROVE  Cardinality(1..k) = k
BY FS_Interval

(* The types that a type byte lists are those of the four operands from    *)
(* `first` on, or of as many of them as there are.                         *)
LEMMA TypeByte ==
  ASSUME NEW args \in Seq(Argument), NEW first \in Nat \ {0}, NEW k \in 0..4,
         \/ k = 4 /\ Len(args) >= first + 3
         \/ Len(args) = (first + k) - 1
         \/ k = 0 /\ Len(args) < first
  PROVE  /\ Za!Types(args, first) \in Byte
         /\ TypesIn(Za!Types(args, first)) =
              [i \in 1..k |-> Za!MakeType(args[(first + i) - 1])]
<1> DEFINE type(i) == IF i > Len(args) THEN Omitted ELSE Za!MakeType(args[i])
           byte == Za!Types(args, first)
           d == [i \in 1..4 |-> type((first + i) - 1)]
           t == <<byte \div 64, (byte \div 16) % 4, (byte \div 4) % 4,
                   byte % 4>>
<1>1. ASSUME NEW i \in 1..4
      PROVE  /\ i <= k => /\ (first + i) - 1 \in 1..Len(args)
                          /\ d[i] = Za!MakeType(args[(first + i) - 1])
                          /\ d[i] \in 0..2
             /\ i > k => d[i] = 3
  <2>1. Len(args) \in Nat /\ (i <= k => (first + i) - 1 \in 1..Len(args))
        /\ (i > k => (first + i) - 1 > Len(args))
    OBVIOUS
  <2>2. ASSUME i <= k
        PROVE  /\ d[i] = Za!MakeType(args[(first + i) - 1])
               /\ d[i] \in 0..2
    <3>1. args[(first + i) - 1] \in Argument
      BY <2>1, <2>2
    <3>2. d[i] = Za!MakeType(args[(first + i) - 1])
      BY <2>1, <2>2
    <3> QED BY <3>1, <3>2, WrittenFacts
  <2>3. ASSUME i > k PROVE d[i] = 3
    BY <2>1, <2>3 DEF Omitted
  <2> QED BY <2>1, <2>2, <2>3
<1>2. byte = d[1] * 64 + d[2] * 16 + d[3] * 4 + d[4]
  BY DEF Za!Types, Omitted, Za!Omitted
<1> HIDE DEF d
<1>3. d[1] \in 0..3 /\ d[2] \in 0..3 /\ d[3] \in 0..3 /\ d[4] \in 0..3
  <2>1. \A i \in 1..4 : d[i] \in 0..3
    BY <1>1
  <2> QED BY <2>1
<1> DEFINE b == byte
<1>4. b = d[1] * 64 + d[2] * 16 + d[3] * 4 + d[4]
  BY <1>2
<1> HIDE DEF b
<1>5. /\ b \in Byte
      /\ b \div 64 = d[1] /\ (b \div 16) % 4 = d[2]
      /\ (b \div 4) % 4 = d[3] /\ b % 4 = d[4]
  <2> DEFINE w == d[1]
             x == d[2]
             y == d[3]
             z == d[4]
  <2>1. w \in 0..3 /\ x \in 0..3 /\ y \in 0..3 /\ z \in 0..3
        /\ b = w * 64 + x * 16 + y * 4 + z
    BY <1>3, <1>4
  <2> HIDE DEF w, x, y, z
  <2>2. /\ b \in 0..255
        /\ b \div 64 = w /\ (b \div 16) % 4 = x
        /\ (b \div 4) % 4 = y /\ b % 4 = z
    BY <2>1
  <2> QED BY <2>2 DEF w, x, y, z, Byte
<1>6. t = <<d[1], d[2], d[3], d[4]>>
  BY <1>5 DEF b
<1> HIDE DEF t
<1>7. \A i \in 1..4 : t[i] = d[i]
  BY <1>6
<1>8. {i \in 1..4 : \A j \in 1..i : t[j] # Omitted} = 1..k
  <2>1. ASSUME NEW i \in 1..4
        PROVE  (\A j \in 1..i : t[j] # Omitted) <=> i <= k
    <3>1. ASSUME i <= k PROVE \A j \in 1..i : t[j] # Omitted
      <4>1. ASSUME NEW j \in 1..i PROVE t[j] # Omitted
        <5>1. j \in 1..4 /\ j <= k BY <3>1
        <5>2. d[j] \in 0..2 BY <5>1, <1>1
        <5> QED BY <5>1, <5>2, <1>7 DEF Omitted
      <4> QED BY <4>1
    <3>2. ASSUME i > k PROVE t[i] = Omitted /\ i \in 1..i
      BY <3>2, <1>1, <1>7 DEF Omitted
    <3> QED BY <3>1, <3>2
  <2> QED BY <2>1
<1>9. TypesIn(byte) = SubSeq(t, 1, k)
  <2> DEFINE S == {i \in 1..4 : \A j \in 1..i : t[j] # Omitted}
  <2>1. TypesIn(byte) = SubSeq(t, 1, Cardinality(S))
    BY Zenon DEF TypesIn, t
  <2>2. S = 1..k
    BY <1>8
  <2> HIDE DEF S
  <2> QED BY <2>1, <2>2, Counted
<1>10. SubSeq(t, 1, k) = [i \in 1..k |-> t[i]]
  BY <1>6
<1>11. \A i \in 1..k : t[i] = Za!MakeType(args[(first + i) - 1])
  BY SMTT(60), <1>1, <1>7
<1> QED BY <1>5, <1>9, <1>10, <1>11 DEF b

----------------------------------------------------------------------------
(* The shape that zd finds.                                                *)

(* The bytes s are in memory from the address a on.                        *)
WrittenAt(c, a, s) ==
  \A j \in 1..Len(s) :
    InMemory(c, (a + j) - 1) /\ ByteAt(c, (a + j) - 1) = s[j]

(* Where two sequences are written one after the other, each is.           *)
LEMMA WrittenParts ==
  ASSUME NEW S, NEW s \in Seq(S), NEW t \in Seq(S), NEW c, NEW a \in Nat,
         WrittenAt(c, a, s \o t)
  PROVE  WrittenAt(c, a, s) /\ WrittenAt(c, a + Len(s), t)
<1> DEFINE u == s \o t
<1>1. /\ Len(s) \in Nat /\ Len(t) \in Nat /\ Len(u) = Len(s) + Len(t)
      /\ \A i \in 1..Len(s) : u[i] = s[i]
      /\ \A i \in 1..Len(t) : u[Len(s) + i] = t[i]
  BY ConcatFacts
<1>2. \A j \in 1..Len(u) :
        InMemory(c, (a + j) - 1) /\ ByteAt(c, (a + j) - 1) = u[j]
  BY DEF WrittenAt
<1> HIDE DEF u
<1>3. ASSUME NEW j \in 1..Len(s)
      PROVE  InMemory(c, (a + j) - 1) /\ ByteAt(c, (a + j) - 1) = s[j]
  <2>1. j \in 1..Len(u)
    BY <1>1
  <2> QED BY <2>1, <1>1, <1>2
<1>4. ASSUME NEW j \in 1..Len(t)
      PROVE  /\ InMemory(c, ((a + Len(s)) + j) - 1)
             /\ ByteAt(c, ((a + Len(s)) + j) - 1) = t[j]
  <2>1. Len(s) + j \in 1..Len(u)
        /\ (a + (Len(s) + j)) - 1 = ((a + Len(s)) + j) - 1
    BY <1>1
  <2>2. u[Len(s) + j] = t[j]
    BY <1>1
  <2> QED BY <2>1, <2>2, <1>2
<1> QED BY <1>3, <1>4 DEF WrittenAt

(* The ranges of the first byte, and what each of them stands for.         *)
ShapeOf(count, number, types, at) ==
  [count |-> count, number |-> number, types |-> types, at |-> at]

ShapesOf(c, a, op, b1, b2) ==
  /\ op < 128 =>
       Shape(c, a) =
         ShapeOf("Two", op % 32,
                 <<1 + ((op \div 64) % 2), 1 + ((op \div 32) % 2)>>,
                 a + 1)
  /\ op >= 128 /\ op < 176 =>
       Shape(c, a) =
         ShapeOf("One", op % 16, <<(op \div 16) % 4>>, a + 1)
  /\ op >= 176 /\ op < 190 =>
       Shape(c, a) = ShapeOf("Zero", op % 16, <<>>, a + 1)
  /\ op = 190 /\ c.zversion >= 5 /\ InMemory(c, a + 1)
       /\ InMemory(c, a + 2) =>
          Shape(c, a) = ShapeOf("Ext", b1, TypesIn(b2), a + 3)
  /\ op >= 192 /\ op < 224 /\ InMemory(c, a + 1) =>
       Shape(c, a) = ShapeOf("Two", op % 32, TypesIn(b1), a + 2)
  /\ op \in {236, 250} /\ InMemory(c, a + 1) /\ InMemory(c, a + 2) =>
          Shape(c, a) =
            ShapeOf("Var", op % 32, TypesIn(b1) \o TypesIn(b2), a + 3)
  /\ op >= 224 /\ op \notin {236, 250} /\ InMemory(c, a + 1) =>
       Shape(c, a) = ShapeOf("Var", op % 32, TypesIn(b1), a + 2)

(* The shape of an opcode, by its first byte.                              *)
LEMMA ShapeCases ==
  ASSUME NEW c, NEW a, ByteAt(c, a) \in Byte
  PROVE  ShapesOf(c, a, ByteAt(c, a), ByteAt(c, a + 1), ByteAt(c, a + 2))
<1> DEFINE op == ByteAt(c, a)
           b1 == ByteAt(c, a + 1)
           b2 == ByteAt(c, a + 2)
<1> DEFINE low == op < 128
           one == op < 176
           ext == op = 190 /\ c.zversion >= 5
           zero == op < 192
           two == op < 224
           wide == op \in {236, 250}
           byte(i) == IF InMemory(c, a + i) THEN ByteAt(c, a + i) ELSE 255
<1>1. Shape(c, a) =
        IF low
          THEN ShapeOf("Two", op % 32,
                       <<1 + ((op \div 64) % 2), 1 + ((op \div 32) % 2)>>,
                       a + 1)
        ELSE IF one
          THEN ShapeOf("One", op % 16, <<(op \div 16) % 4>>, a + 1)
        ELSE IF ext
          THEN ShapeOf("Ext", byte(1), TypesIn(byte(2)), a + 3)
        ELSE IF zero
          THEN ShapeOf("Zero", op % 16, <<>>, a + 1)
        ELSE IF two
          THEN ShapeOf("Two", op % 32, TypesIn(byte(1)), a + 2)
        ELSE IF wide
          THEN ShapeOf("Var", op % 32, TypesIn(byte(1)) \o TypesIn(byte(2)),
                       a + 3)
        ELSE ShapeOf("Var", op % 32, TypesIn(byte(1)), a + 2)
  BY Zenon DEF Shape, ShapeOf
<1>2. /\ InMemory(c, a + 1) => byte(1) = b1
      /\ InMemory(c, a + 2) => byte(2) = b2
  BY Zenon
<1> HIDE DEF byte
<1>30. op \in Byte
  OBVIOUS
<1> HIDE DEF op, b1, b2
<1>3. op < 128 => low
  OBVIOUS
<1>4. op >= 128 /\ op < 176 => ~low /\ one
  BY SMT, <1>30 DEF Byte
<1>5. op >= 176 /\ op < 190 => ~low /\ ~one /\ ~ext /\ zero
  BY SMT, <1>30 DEF Byte
<1>6. op = 190 /\ c.zversion >= 5 => ~low /\ ~one /\ ext
  BY SMT, <1>30 DEF Byte
<1>7. op >= 192 => ~low /\ ~one /\ ~ext /\ ~zero
  BY SMT, <1>30 DEF Byte
<1>8. op >= 224 => op >= 192 /\ ~two
  BY SMT, <1>30 DEF Byte
<1>9. op \in {236, 250} => op >= 224 /\ wide
  BY SMT, <1>30 DEF Byte
<1>10. op < 224 => two
  OBVIOUS
<1>11. op \notin {236, 250} => ~wide
  OBVIOUS
<1> HIDE DEF low, one, ext, zero, two, wide
<1>12. ASSUME op < 128
       PROVE  Shape(c, a) =
                ShapeOf("Two", op % 32,
                        <<1 + ((op \div 64) % 2), 1 + ((op \div 32) % 2)>>,
                        a + 1)
  BY Zenon, <1>1, <1>3, <1>12
<1>13. ASSUME op >= 128, op < 176
       PROVE  Shape(c, a) =
                ShapeOf("One", op % 16, <<(op \div 16) % 4>>, a + 1)
  BY Zenon, <1>1, <1>4, <1>13
<1>14. ASSUME op >= 176, op < 190
       PROVE  Shape(c, a) = ShapeOf("Zero", op % 16, <<>>, a + 1)
  BY Zenon, <1>1, <1>5, <1>14
<1>15. ASSUME op = 190, c.zversion >= 5, InMemory(c, a + 1),
              InMemory(c, a + 2)
       PROVE  Shape(c, a) = ShapeOf("Ext", b1, TypesIn(b2), a + 3)
  <2>1. ~low /\ ~one /\ ext /\ byte(1) = b1 /\ byte(2) = b2
    BY <1>2, <1>6, <1>15
  <2> QED BY Zenon, <1>1, <2>1
<1>16. ASSUME op >= 192, op < 224, InMemory(c, a + 1)
       PROVE  Shape(c, a) = ShapeOf("Two", op % 32, TypesIn(b1), a + 2)
  <2>1. ~low /\ ~one /\ ~ext /\ ~zero /\ two /\ byte(1) = b1
    BY <1>2, <1>7, <1>10, <1>16
  <2> QED BY Zenon, <1>1, <2>1
<1>17. ASSUME op \in {236, 250}, InMemory(c, a + 1), InMemory(c, a + 2)
       PROVE  Shape(c, a) =
                ShapeOf("Var", op % 32, TypesIn(b1) \o TypesIn(b2), a + 3)
  <2>1. ~low /\ ~one /\ ~ext /\ ~zero /\ ~two /\ wide
        /\ byte(1) = b1 /\ byte(2) = b2
    BY <1>2, <1>7, <1>8, <1>9, <1>17
  <2> QED BY Zenon, <1>1, <2>1
<1>18. ASSUME op >= 224, op \notin {236, 250}, InMemory(c, a + 1)
       PROVE  Shape(c, a) = ShapeOf("Var", op % 32, TypesIn(b1), a + 2)
  <2>1. ~low /\ ~one /\ ~ext /\ ~zero /\ ~two /\ ~wide /\ byte(1) = b1
    BY <1>2, <1>7, <1>8, <1>11, <1>18
  <2> QED BY Zenon, <1>1, <2>1
<1>19. /\ op < 128 =>
             Shape(c, a) =
               ShapeOf("Two", op % 32,
                       <<1 + ((op \div 64) % 2), 1 + ((op \div 32) % 2)>>,
                       a + 1)
       /\ op >= 128 /\ op < 176 =>
             Shape(c, a) =
               ShapeOf("One", op % 16, <<(op \div 16) % 4>>, a + 1)
       /\ op >= 176 /\ op < 190 =>
             Shape(c, a) = ShapeOf("Zero", op % 16, <<>>, a + 1)
  BY Zenon, <1>12, <1>13, <1>14
<1>20. op = 190 /\ c.zversion >= 5 /\ InMemory(c, a + 1)
         /\ InMemory(c, a + 2) =>
                 Shape(c, a) = ShapeOf("Ext", b1, TypesIn(b2), a + 3)
  BY Zenon, <1>15
<1>21. op >= 192 /\ op < 224 /\ InMemory(c, a + 1) =>
         Shape(c, a) = ShapeOf("Two", op % 32, TypesIn(b1), a + 2)
  BY Zenon, <1>16
<1>22. op \in {236, 250} /\ InMemory(c, a + 1) /\ InMemory(c, a + 2) =>
           Shape(c, a) =
             ShapeOf("Var", op % 32, TypesIn(b1) \o TypesIn(b2), a + 3)
  BY Zenon, <1>17
<1>23. op >= 224 /\ op \notin {236, 250} /\ InMemory(c, a + 1) =>
              Shape(c, a) = ShapeOf("Var", op % 32, TypesIn(b1), a + 2)
  BY Zenon, <1>18
<1>24. ShapesOf(c, a, op, b1, b2)
  BY <1>19, <1>20, <1>21, <1>22, <1>23 DEF ShapesOf
<1> QED BY <1>24 DEF op, b1, b2

(* Up to three bytes that are written can be read.                         *)
LEMMA FirstBytes ==
  ASSUME NEW c, NEW a \in Nat, NEW s \in Seq(Byte), WrittenAt(c, a, s)
  PROVE  /\ Len(s) >= 1 => InMemory(c, a) /\ ByteAt(c, a) = s[1]
         /\ Len(s) >= 2 => InMemory(c, a + 1) /\ ByteAt(c, a + 1) = s[2]
         /\ Len(s) >= 3 => InMemory(c, a + 2) /\ ByteAt(c, a + 2) = s[3]
<1>1. \A j \in 1..Len(s) :
        InMemory(c, (a + j) - 1) /\ ByteAt(c, (a + j) - 1) = s[j]
  BY DEF WrittenAt
<1>2. (a + 1) - 1 = a /\ (a + 2) - 1 = a + 1 /\ (a + 3) - 1 = a + 2
  OBVIOUS
<1>3. Len(s) >= 1 => 1 \in 1..Len(s)
  OBVIOUS
<1>4. Len(s) >= 2 => 2 \in 1..Len(s)
  OBVIOUS
<1>5. Len(s) >= 3 => 3 \in 1..Len(s)
  OBVIOUS
<1> QED BY <1>1, <1>2, <1>3, <1>4, <1>5

TypesOf(args) == [n \in 1..Len(args) |-> Za!MakeType(args[n])]

(* A type byte reads as the types of up to four operands, and two of them  *)
(* as the types of up to eight.                                            *)
LEMMA TypeByteFirst ==
  ASSUME NEW args \in Seq(Argument), Len(args) <= 4
  PROVE  /\ Za!Types(args, 1) \in Byte
         /\ TypesIn(Za!Types(args, 1)) = TypesOf(args)
<1> DEFINE k == Len(args)
<1>1. k \in 0..4 /\ 1 \in Nat \ {0} /\ Len(args) = (1 + k) - 1
  <2>1. k \in Nat /\ k <= 4
    OBVIOUS
  <2> HIDE DEF k
  <2>2. k \in 0..4
    BY <2>1
  <2> QED BY <2>1, <2>2 DEF k
<1>2. /\ Za!Types(args, 1) \in Byte
      /\ TypesIn(Za!Types(args, 1)) =
           [i \in 1..k |-> Za!MakeType(args[(1 + i) - 1])]
  <2> HIDE DEF k
  <2> QED BY <1>1, TypeByte
<1>3. \A i \in 1..k : (1 + i) - 1 = i
  OBVIOUS
<1> QED BY <1>2, <1>3 DEF TypesOf

LEMMA TypeBytesBoth ==
  ASSUME NEW args \in Seq(Argument), Len(args) <= 8
  PROVE  /\ Za!Types(args, 1) \in Byte /\ Za!Types(args, 5) \in Byte
         /\ TypesIn(Za!Types(args, 1)) \o TypesIn(Za!Types(args, 5)) =
              TypesOf(args)
<1> DEFINE n == Len(args)
           k == IF n <= 4 THEN n ELSE 4
           m == n - k
<1>1. n \in Nat /\ n <= 8 /\ n = Len(args)
  OBVIOUS
<1> HIDE DEF n
<1>2. k \in Int /\ 0 <= k /\ k <= 4 /\ (k = 4 \/ k = n) /\ k <= n
  BY <1>1
<1> HIDE DEF k
<1>3. m \in Int /\ 0 <= m /\ m <= 4 /\ n = k + m /\ (m = 0 \/ k = 4)
  BY <1>1, <1>2
<1> HIDE DEF m
<1>4. /\ Za!Types(args, 1) \in Byte
      /\ TypesIn(Za!Types(args, 1)) =
           [i \in 1..k |-> Za!MakeType(args[(1 + i) - 1])]
  <2>1. k \in 0..4 /\ 1 \in Nat \ {0}
    BY <1>2
  <2>2. \/ k = 4 /\ Len(args) >= 1 + 3
        \/ Len(args) = (1 + k) - 1
    BY <1>1, <1>2
  <2> QED BY <2>1, <2>2, TypeByte
<1>5. /\ Za!Types(args, 5) \in Byte
      /\ TypesIn(Za!Types(args, 5)) =
           [i \in 1..m |-> Za!MakeType(args[(5 + i) - 1])]
  <2>1. m \in 0..4 /\ 5 \in Nat \ {0}
    BY <1>3
  <2>2. \/ Len(args) = (5 + m) - 1
        \/ m = 0 /\ Len(args) < 5
    BY <1>1, <1>2, <1>3
  <2> QED BY <2>1, <2>2, TypeByte
<1> DEFINE s == [i \in 1..k |-> Za!MakeType(args[(1 + i) - 1])]
           t == [i \in 1..m |-> Za!MakeType(args[(5 + i) - 1])]
<1>6. ASSUME NEW i \in 1..n
      PROVE  (s \o t)[i] = Za!MakeType(args[i])
  <2>1. Len(s) = k /\ Len(t) = m
    BY <1>1, <1>2, <1>3
  <2>2. CASE i <= k
    <3>1. i \in 1..k /\ (1 + i) - 1 = i
      BY <2>2, <1>1, <1>2, <1>3
    <3>2. s[i] = Za!MakeType(args[i])
      BY <3>1
    <3> HIDE DEF s, t
    <3> QED BY <2>1, <3>1, <3>2
  <2>3. CASE ~(i <= k)
    <3>1. i - k \in 1..m /\ k = 4 /\ (5 + (i - k)) - 1 = i
      BY <2>3, <1>1, <1>2, <1>3
    <3>2. t[i - k] = Za!MakeType(args[i])
      BY <3>1
    <3>3. i \in 1..(Len(s) + Len(t)) /\ ~(i <= Len(s))
      BY <2>1, <2>3, <1>1, <1>2, <1>3
    <3>4. (s \o t)[i] = t[i - Len(s)]
      <4> HIDE DEF s, t
      <4> QED BY <3>3
    <3> QED BY <2>1, <3>2, <3>4
  <2> QED BY <2>2, <2>3
<1>7. DOMAIN (s \o t) = 1..n
  <2>1. Len(s) = k /\ Len(t) = m
    BY <1>1, <1>2, <1>3
  <2> HIDE DEF s, t
  <2> QED BY <2>1, <1>1, <1>2, <1>3
<1>8. s \o t = [i \in 1..n |-> (s \o t)[i]]
  <2>1. s \in Seq(0..2) /\ t \in Seq(0..2)
    <3>1. ASSUME NEW i \in 1..k PROVE args[(1 + i) - 1] \in Argument
      <4>1. (1 + i) - 1 \in 1..Len(args)
        BY <1>1, <1>2, <1>3
      <4> QED BY <4>1
    <3>2. ASSUME NEW i \in 1..m PROVE args[(5 + i) - 1] \in Argument
      <4>1. (5 + i) - 1 \in 1..Len(args)
        BY <1>1, <1>2, <1>3
      <4> QED BY <4>1
    <3>3. /\ \A i \in 1..k : Za!MakeType(args[(1 + i) - 1]) \in 0..2
          /\ \A i \in 1..m : Za!MakeType(args[(5 + i) - 1]) \in 0..2
      BY <3>1, <3>2, WrittenFacts
    <3> QED BY <1>1, <1>2, <1>3, <3>3
  <2>2. s \o t \in Seq(0..2)
    <3> HIDE DEF s, t
    <3> QED BY <2>1
  <2> DEFINE u == s \o t
  <2> HIDE DEF s, t, u
  <2>3. u \in Seq(0..2) => u = [i \in DOMAIN u |-> u[i]]
    OBVIOUS
  <2> QED BY <1>7, <2>2, <2>3 DEF u
<1>9. s \o t = TypesOf(args)
  <2> HIDE DEF s, t
  <2>1. TypesOf(args) = [i \in 1..n |-> Za!MakeType(args[i])]
    BY <1>1 DEF TypesOf
  <2> QED BY <1>6, <1>8, <2>1
<1> QED BY <1>4, <1>5, <1>9

(* zd finds the shape of an opcode that za wrote.                          *)
LEMMA ShapeFacts ==
  ASSUME NEW v \in 1..8, NEW form, Plain(v, form),
         NEW args \in Seq(Argument), Len(args) = form.args,
         NEW c, c.zversion = v, NEW a \in Nat,
         WrittenAt(c, a, Za!OpcodeBytes(form.count, form.number, args))
  PROVE  LET ops == Za!OpcodeBytes(form.count, form.number, args)
         IN /\ ops \in Seq(Byte)
            /\ Len(ops) \in 1..3
            /\ Shape(c, a) = ShapeOf(CountOf(form), form.number,
                                       TypesOf(args), a + Len(ops))
<1> DEFINE ops == Za!OpcodeBytes(form.count, form.number, args)
           n == form.number
           t(i) == Za!MakeType(args[i])
           Goal == /\ ops \in Seq(Byte)
                   /\ Len(ops) \in 1..3
                   /\ Shape(c, a) = ShapeOf(CountOf(form), n, TypesOf(args),
                                              a + Len(ops))
<1> SUFFICES Goal
  OBVIOUS
<1>1. WrittenAt(c, a, ops)
  OBVIOUS
<1>2. Len(args) \in Nat
  OBVIOUS
<1>3. \A i \in 1..Len(args) : t(i) \in 0..2
  <2>1. \A i \in 1..Len(args) : args[i] \in Argument
    OBVIOUS
  <2> QED BY <2>1, WrittenFacts
<1>4. ASSUME form.count = "Zero", n \in 0..13, form.args = 0
      PROVE  Goal
  <2>1. ops = <<176 + n>>
    BY Zenon, <1>4 DEF Za!OpcodeBytes
  <2>2. CountOf(form) = "Zero"
    BY Zenon, <1>4 DEF CountOf
  <2>3. TypesOf(args) = <<>>
    BY <1>4 DEF TypesOf
  <2> DEFINE op == 176 + n
  <2>4. op \in Byte /\ op >= 176 /\ op < 190 /\ op % 16 = n
    <3> HIDE DEF n
    <3> QED BY <1>4 DEF Byte
  <2> HIDE DEF ops, n, op
  <2>5. ops = <<op>>
    BY <2>1 DEF op
  <2>6. ops \in Seq(Byte) /\ Len(ops) = 1 /\ ops[1] = op
    BY <2>4, <2>5
  <2>7. ByteAt(c, a) = op
    <3>1. Len(ops) >= 1 /\ WrittenAt(c, a, ops)
      BY <1>1, <2>6
    <3>2. ByteAt(c, a) = ops[1]
      BY <2>6, <3>1, FirstBytes
    <3> QED BY <2>6, <3>2
  <2>8. Shape(c, a) = ShapeOf("Zero", op % 16, <<>>, a + 1)
    BY <2>4, <2>7, ShapeCases DEF ShapesOf
  <2> QED BY <2>2, <2>3, <2>4, <2>6, <2>8
<1>5. ASSUME form.count = "One", n \in 0..15, form.args = 1
      PROVE  Goal
  <2>1. ops = <<128 + t(1) * 16 + n>>
    BY Zenon, <1>5 DEF Za!OpcodeBytes
  <2>2. CountOf(form) = "One"
    BY Zenon, <1>5 DEF CountOf
  <2>3. TypesOf(args) = <<t(1)>>
    BY <1>5 DEF TypesOf
  <2> DEFINE x == t(1)
             op == 128 + x * 16 + n
  <2>4. x \in 0..2
    BY <1>3, <1>5
  <2> HIDE DEF ops, n, x
  <2>5. /\ op \in Byte /\ op >= 128 /\ op < 176 /\ op % 16 = n
        /\ (op \div 16) % 4 = x
    BY <1>5, <2>4 DEF Byte
  <2>6. ops = <<op>>
    BY <2>1 DEF x
  <2> HIDE DEF op
  <2>7. ops \in Seq(Byte) /\ Len(ops) = 1 /\ ops[1] = op
    BY <2>5, <2>6
  <2>8. ByteAt(c, a) = op
    <3>1. Len(ops) >= 1 /\ WrittenAt(c, a, ops)
      BY <1>1, <2>7
    <3>2. ByteAt(c, a) = ops[1]
      BY <2>7, <3>1, FirstBytes
    <3> QED BY <2>7, <3>2
  <2>9. Shape(c, a) = ShapeOf("One", op % 16, <<(op \div 16) % 4>>, a + 1)
    BY <2>5, <2>8, ShapeCases DEF ShapesOf
  <2>10. TypesOf(args) = <<x>>
    BY <2>3 DEF x
  <2> QED BY <2>2, <2>5, <2>7, <2>9, <2>10
<1>6. ASSUME form.count = "Two", n \in 0..31, form.args \in 1..4
      PROVE  Goal
  <2>1. CountOf(form) = "Two"
    BY Zenon, <1>6 DEF CountOf
  <2> DEFINE short == Len(args) = 2 /\ \A i \in 1..2 : t(i) # 0
  <2>2. CASE short
    <3>1. ops = <<Za!Shortened(n, t(1), t(2))>>
      BY Zenon, <1>6, <2>2 DEF Za!OpcodeBytes
    <3>2. Len(args) = 2 /\ t(1) # 0 /\ t(2) # 0
      BY <2>2
    <3>3. t(1) \in 1..2 /\ t(2) \in 1..2
      BY <1>3, <3>2
    <3>4. TypesOf(args) = <<t(1), t(2)>>
      BY <3>2 DEF TypesOf
    <3> DEFINE x == t(1)
               y == t(2)
               op == n + (x - 1) * 64 + (y - 1) * 32
    <3> HIDE DEF ops, n, x, y
    <3>5. x \in 1..2 /\ y \in 1..2
      BY <3>3 DEF x, y
    <3>6. /\ op \in Byte /\ op < 128 /\ op % 32 = n
          /\ 1 + ((op \div 64) % 2) = x /\ 1 + ((op \div 32) % 2) = y
      BY <1>6, <3>5 DEF Byte
    <3>7. ops = <<op>>
      BY <3>1 DEF x, y, Za!Shortened
    <3> HIDE DEF op
    <3>8. ops \in Seq(Byte) /\ Len(ops) = 1 /\ ops[1] = op
      BY <3>6, <3>7
    <3>9. ByteAt(c, a) = op
      <4>1. Len(ops) >= 1 /\ WrittenAt(c, a, ops)
        BY <1>1, <3>8
      <4>2. ByteAt(c, a) = ops[1]
        BY <3>8, <4>1, FirstBytes
      <4> QED BY <3>8, <4>2
    <3>10. Shape(c, a) =
             ShapeOf("Two", op % 32,
                     <<1 + ((op \div 64) % 2), 1 + ((op \div 32) % 2)>>, a + 1)
      BY ZenonT(60), <3>6, <3>9, ShapeCases DEF ShapesOf
    <3>11. TypesOf(args) = <<x, y>>
      BY <3>4 DEF x, y
    <3> QED BY <2>1, <3>6, <3>8, <3>10, <3>11
  <2>3. CASE ~short
    <3> DEFINE op == 192 + n
               b == Za!Types(args, 1)
    <3>1. ops = <<op, b>>
      BY Zenon, <1>6, <2>3 DEF Za!OpcodeBytes
    <3>2. b \in Byte /\ TypesIn(b) = TypesOf(args)
      BY <1>2, <1>6, TypeByteFirst
    <3> HIDE DEF ops, n, b
    <3>3. op \in Byte /\ op >= 192 /\ op < 224 /\ op % 32 = n
      BY <1>6 DEF Byte
    <3> HIDE DEF op
    <3>4. ops \in Seq(Byte) /\ Len(ops) = 2 /\ ops[1] = op /\ ops[2] = b
      BY <3>1, <3>2, <3>3
    <3>5. ByteAt(c, a) = op /\ InMemory(c, a + 1) /\ ByteAt(c, a + 1) = b
      <4>1. Len(ops) >= 1 /\ Len(ops) >= 2 /\ WrittenAt(c, a, ops)
        BY <1>1, <3>4
      <4>2. ByteAt(c, a) = ops[1] /\ InMemory(c, a + 1)
            /\ ByteAt(c, a + 1) = ops[2]
        BY <3>4, <4>1, FirstBytes
      <4> QED BY <3>4, <4>2
    <3>6. Shape(c, a) = ShapeOf("Two", op % 32, TypesIn(b), a + 2)
      <4>1. ByteAt(c, a) \in Byte
        BY <3>3, <3>5
      <4>2. ShapesOf(c, a, op, b, ByteAt(c, a + 2))
        BY <3>5, <4>1, ShapeCases
      <4> QED BY <3>3, <3>5, <4>2 DEF ShapesOf
    <3> QED BY <2>1, <3>2, <3>3, <3>4, <3>6
  <2> QED BY <2>2, <2>3
<1>7. ASSUME form.count = "Var", n \in (0..31) \ {12, 26}, form.args \in 0..4
      PROVE  Goal
  <2>1. CountOf(form) = "Var"
    BY Zenon, <1>7 DEF CountOf
  <2> DEFINE op == 224 + n
             b == Za!Types(args, 1)
  <2>2. ops = <<op, b>>
    BY Zenon, <1>7 DEF Za!OpcodeBytes
  <2>3. b \in Byte /\ TypesIn(b) = TypesOf(args)
    BY <1>2, <1>7, TypeByteFirst
  <2> HIDE DEF ops, n, b
  <2>4. /\ op \in Byte /\ op >= 224 /\ op \notin {236, 250}
        /\ op % 32 = n
    BY <1>7 DEF Byte
  <2> HIDE DEF op
  <2>5. ops \in Seq(Byte) /\ Len(ops) = 2 /\ ops[1] = op /\ ops[2] = b
    BY <2>2, <2>3, <2>4
  <2>6. ByteAt(c, a) = op /\ InMemory(c, a + 1) /\ ByteAt(c, a + 1) = b
    <3>1. Len(ops) >= 1 /\ Len(ops) >= 2 /\ WrittenAt(c, a, ops)
      BY <1>1, <2>5
    <3>2. ByteAt(c, a) = ops[1] /\ InMemory(c, a + 1)
          /\ ByteAt(c, a + 1) = ops[2]
      BY <2>5, <3>1, FirstBytes
    <3> QED BY <2>5, <3>2
  <2>7. Shape(c, a) = ShapeOf("Var", op % 32, TypesIn(b), a + 2)
    <3>1. ByteAt(c, a) \in Byte
      BY <2>4, <2>6
    <3>2. ShapesOf(c, a, op, b, ByteAt(c, a + 2))
      BY <2>6, <3>1, ShapeCases
    <3> QED BY <2>4, <2>6, <3>2 DEF ShapesOf
  <2> QED BY <2>1, <2>3, <2>4, <2>5, <2>7
<1>8. ASSUME form.count = "VarDouble", n \in {12, 26}, form.args \in 1..8
      PROVE  Goal
  <2>1. CountOf(form) = "Var"
    BY Zenon, <1>8 DEF CountOf
  <2> DEFINE op == 224 + n
             b == Za!Types(args, 1)
             d == Za!Types(args, 5)
  <2>2. ops = <<op, b, d>>
    BY Zenon, <1>8 DEF Za!OpcodeBytes
  <2>3. b \in Byte /\ d \in Byte /\ TypesIn(b) \o TypesIn(d) = TypesOf(args)
    BY SMTT(60), <1>2, <1>8, TypeBytesBoth
  <2> HIDE DEF ops, n, b, d
  <2>4. op \in Byte /\ op \in {236, 250} /\ op % 32 = n
    BY <1>8 DEF Byte
  <2> HIDE DEF op
  <2>5. /\ ops \in Seq(Byte) /\ Len(ops) = 3
        /\ ops[1] = op /\ ops[2] = b /\ ops[3] = d
    BY <2>2, <2>3, <2>4
  <2>6. /\ ByteAt(c, a) = op
        /\ InMemory(c, a + 1) /\ ByteAt(c, a + 1) = b
        /\ InMemory(c, a + 2) /\ ByteAt(c, a + 2) = d
    <3>1. Len(ops) >= 1 /\ Len(ops) >= 2 /\ Len(ops) >= 3
          /\ WrittenAt(c, a, ops)
      BY <1>1, <2>5
    <3>2. /\ ByteAt(c, a) = ops[1]
          /\ InMemory(c, a + 1) /\ ByteAt(c, a + 1) = ops[2]
          /\ InMemory(c, a + 2) /\ ByteAt(c, a + 2) = ops[3]
      BY <2>5, <3>1, FirstBytes
    <3> QED BY <2>5, <3>2
  <2>7. Shape(c, a) =
          ShapeOf("Var", op % 32, TypesIn(b) \o TypesIn(d), a + 3)
    <3>1. ByteAt(c, a) \in Byte
      BY <2>4, <2>6
    <3>2. ShapesOf(c, a, op, b, d)
      BY <2>6, <3>1, ShapeCases
    <3> QED BY <2>4, <2>6, <3>2 DEF ShapesOf
  <2> QED BY <2>1, <2>3, <2>4, <2>5, <2>7
<1>9. ASSUME form.count = "Ext", n \in 0..255, form.args \in 0..4, v >= 5
      PROVE  Goal
  <2>1. CountOf(form) = "Ext"
    BY Zenon, <1>9 DEF CountOf
  <2> DEFINE op == 190
             d == Za!Types(args, 1)
  <2>2. ops = <<op, n, d>>
    BY Zenon, <1>9 DEF Za!OpcodeBytes
  <2>3. d \in Byte /\ TypesIn(d) = TypesOf(args)
    BY <1>2, <1>9, TypeByteFirst
  <2> HIDE DEF ops, n, d, op
  <2>4. n \in Byte /\ op \in Byte
    BY <1>9 DEF Byte, op
  <2>5. /\ ops \in Seq(Byte) /\ Len(ops) = 3
        /\ ops[1] = op /\ ops[2] = n /\ ops[3] = d
    BY <2>2, <2>3, <2>4
  <2>6. /\ ByteAt(c, a) = op
        /\ InMemory(c, a + 1) /\ ByteAt(c, a + 1) = n
        /\ InMemory(c, a + 2) /\ ByteAt(c, a + 2) = d
    <3>1. Len(ops) >= 1 /\ Len(ops) >= 2 /\ Len(ops) >= 3
          /\ WrittenAt(c, a, ops)
      BY <1>1, <2>5
    <3>2. /\ ByteAt(c, a) = ops[1]
          /\ InMemory(c, a + 1) /\ ByteAt(c, a + 1) = ops[2]
          /\ InMemory(c, a + 2) /\ ByteAt(c, a + 2) = ops[3]
      BY <2>5, <3>1, FirstBytes
    <3> QED BY <2>5, <3>2
  <2>7. Shape(c, a) = ShapeOf("Ext", n, TypesIn(d), a + 3)
    <3>1. ByteAt(c, a) \in Byte
      BY <2>4, <2>6
    <3>2. ShapesOf(c, a, op, n, d)
      BY <2>6, <3>1, ShapeCases
    <3>3. op = 190
      BY DEF op
    <3> QED BY <1>9, <2>6, <3>2, <3>3 DEF ShapesOf
  <2> QED BY <2>1, <2>3, <2>5, <2>7
<1> HIDE DEF Goal
<1> QED BY <1>4, <1>5, <1>6, <1>7, <1>8, <1>9 DEF Plain

----------------------------------------------------------------------------
(* The operands that zd reads.                                             *)

WrittenArgs(args) == [n \in 1..Len(args) |-> Za!Written(args[n])]

(* Of the operands up to n, those that take two bytes.                     *)
LargeUpTo(args, n) == {j \in 1..n : TypesOf(args)[j] = Large}

(* One more operand of two bytes, or none.                                 *)
LEMMA LargeCount ==
  ASSUME NEW args, NEW n \in Nat
  PROVE  /\ Cardinality(LargeUpTo(args, n)) \in Nat
         /\ Cardinality(LargeUpTo(args, 0)) = 0
         /\ Cardinality(LargeUpTo(args, n + 1)) =
              Cardinality(LargeUpTo(args, n))
                + (IF TypesOf(args)[n + 1] = Large THEN 1 ELSE 0)
<1> DEFINE L == LargeUpTo(args, n)
           M == LargeUpTo(args, n + 1)
           large == TypesOf(args)[n + 1] = Large
<1>1. IsFiniteSet(L)
  <2>1. L \subseteq 1..n /\ IsFiniteSet(1..n)
    BY FS_Interval DEF LargeUpTo
  <2> QED BY <2>1, FS_Subset
<1>2. Cardinality(L) \in Nat
  BY <1>1, FS_CardinalityType
<1>3. LargeUpTo(args, 0) = {}
  BY DEF LargeUpTo
<1>4. Cardinality({}) = 0
  BY FS_EmptySet
<1>5. CASE large
  <2>1. M = L \cup {n + 1} /\ n + 1 \notin L
    <3>1. M = L \cup {n + 1}
      <4>1. 1..(n + 1) = (1..n) \cup {n + 1}
        OBVIOUS
      <4> DEFINE T == TypesOf(args)
      <4> HIDE DEF T
      <4>2. {j \in 1..(n + 1) : T[j] = Large} =
              {j \in 1..n : T[j] = Large} \cup {j \in {n + 1} : T[j] = Large}
        BY <4>1
      <4>3. {j \in {n + 1} : T[j] = Large} = {n + 1}
        BY <1>5 DEF T
      <4> QED BY <4>2, <4>3 DEF LargeUpTo, T
    <3>2. n + 1 \notin 1..n
      OBVIOUS
    <3> QED BY <3>1, <3>2 DEF LargeUpTo
  <2>2. Cardinality(M) = Cardinality(L) + 1
    <3> HIDE DEF L, M
    <3> QED BY <1>1, <2>1, FS_AddElement
  <2> QED BY <1>2, <1>3, <1>4, <1>5, <2>2
<1>6. CASE ~large
  <2>1. M = L
    <3>1. 1..(n + 1) = (1..n) \cup {n + 1}
      OBVIOUS
    <3> DEFINE T == TypesOf(args)
    <3> HIDE DEF T
    <3>2. {j \in 1..(n + 1) : T[j] = Large} =
            {j \in 1..n : T[j] = Large} \cup {j \in {n + 1} : T[j] = Large}
      BY <3>1
    <3>3. {j \in {n + 1} : T[j] = Large} = {}
      BY <1>6 DEF T
    <3> QED BY <3>2, <3>3 DEF LargeUpTo, T
  <2> QED BY <1>2, <1>3, <1>4, <1>6, <2>1
<1> QED BY <1>5, <1>6

(* Where each operand is written, counted from the first.                  *)
Placed(args, at) ==
  /\ at \in [0..Len(args) -> Nat]
  /\ at[Len(args)] = Len(FlattenSeq(WrittenArgs(args)))
  /\ \A n \in 0..Len(args) : at[n] = n + Cardinality(LargeUpTo(args, n))
  /\ \A n \in 1..Len(args) :
       /\ at[n] <= Len(FlattenSeq(WrittenArgs(args)))
       /\ at[n] = at[n - 1] + Len(Za!Written(args[n]))
       /\ \A j \in 1..Len(Za!Written(args[n])) :
            FlattenSeq(WrittenArgs(args))[at[n - 1] + j] =
              Za!Written(args[n])[j]

(* Every operand has its place.                                            *)
LEMMA PlacesExist ==
  ASSUME NEW args \in Seq(Argument)
  PROVE  /\ FlattenSeq(WrittenArgs(args)) \in Seq(Byte)
         /\ \E at : Placed(args, at)
<1> DEFINE W == WrittenArgs(args)
           N == Len(args)
           flat == FlattenSeq(W)
<1>1. N \in Nat /\ \A n \in 1..N : args[n] \in Argument
  OBVIOUS
<1>2. \A n \in 1..N : Za!Written(args[n]) \in Seq(Byte)
  BY <1>1, WrittenFacts
<1>3. W \in Seq(Seq(Byte)) /\ Len(W) = N
      /\ \A n \in 1..N : W[n] = Za!Written(args[n])
  <2>1. W = [n \in 1..N |-> Za!Written(args[n])]
    BY DEF WrittenArgs
  <2> HIDE DEF N, W
  <2> QED BY <1>1, <1>2, <2>1
<1> HIDE DEF W
<1>4. flat \in Seq(Byte)
  BY <1>3, FlattenFacts
<1>5. PICK at : Layout(W, at)
  BY <1>3, FlattenFacts
<1>6. /\ at \in [0..N -> Nat]
       /\ at[0] = 0
       /\ at[N] = Len(flat)
       /\ \A n \in 1..N :
            /\ at[n] = at[n - 1] + Len(W[n])
            /\ at[n] <= Len(flat)
            /\ \A j \in 1..Len(W[n]) : flat[at[n - 1] + j] = W[n][j]
  BY <1>3, <1>5 DEF Layout
<1> HIDE DEF flat, N
<1>7. ASSUME NEW n \in 1..N
      PROVE  /\ n - 1 \in 0..N /\ at[n - 1] \in Nat
             /\ at[n] = at[n - 1] + Len(Za!Written(args[n]))
             /\ Len(Za!Written(args[n])) =
                  1 + (IF TypesOf(args)[n] = Large THEN 1 ELSE 0)
  <2>1. n - 1 \in 0..N
    BY <1>1
  <2>2. TypesOf(args)[n] = Za!MakeType(args[n])
    BY DEF TypesOf, N
  <2>3. /\ Za!MakeType(args[n]) = 0 => Len(Za!Written(args[n])) = 2
        /\ Za!MakeType(args[n]) # 0 => Len(Za!Written(args[n])) = 1
    BY <1>1, WrittenFacts
  <2>4. at[n] = at[n - 1] + Len(Za!Written(args[n])) /\ at[n - 1] \in Nat
    BY <1>3, <1>6, <2>1
  <2>5. Len(Za!Written(args[n])) =
          1 + (IF TypesOf(args)[n] = Large THEN 1 ELSE 0)
    <3>1. CASE TypesOf(args)[n] = Large
      BY <2>2, <2>3, <3>1 DEF Large
    <3>2. CASE TypesOf(args)[n] # Large
      BY <2>2, <2>3, <3>2 DEF Large
    <3> QED BY <3>1, <3>2
  <2> QED BY <2>1, <2>4, <2>5
<1> DEFINE G == {n \in Nat : n <= N =>
                   at[n] = n + Cardinality(LargeUpTo(args, n))}
<1>8. 0 \in G
  BY <1>6, LargeCount
<1>9. ASSUME NEW n \in Nat, n \in G PROVE n + 1 \in G
  <2>1. ASSUME n + 1 <= N
        PROVE  at[n + 1] = (n + 1) + Cardinality(LargeUpTo(args, n + 1))
    <3>1. n + 1 \in 1..N /\ (n + 1) - 1 = n /\ n <= N
      BY <1>1, <2>1
    <3>2. at[n] = n + Cardinality(LargeUpTo(args, n))
      BY <1>9, <3>1
    <3>3. at[n + 1] =
            at[n] + (1 + (IF TypesOf(args)[n + 1] = Large THEN 1 ELSE 0))
      BY <1>7, <3>1
    <3> DEFINE x == IF TypesOf(args)[n + 1] = Large THEN 1 ELSE 0
               y == Cardinality(LargeUpTo(args, n))
               z == Cardinality(LargeUpTo(args, n + 1))
    <3>4. y \in Nat /\ z = y + x /\ x \in Nat
      BY LargeCount
    <3> HIDE DEF x, y, z
    <3>5. at[n] = n + y /\ at[n + 1] = at[n] + (1 + x)
      BY <3>2, <3>3 DEF x, y
    <3>6. at[n + 1] = (n + 1) + z
      BY <3>4, <3>5
    <3> QED BY <3>6 DEF z
  <2> QED BY <2>1
<1>10. \A n \in Nat : n \in G
  <2> HIDE DEF G
  <2> QED BY <1>8, <1>9, Induction
<1>11. \A n \in 0..N : at[n] = n + Cardinality(LargeUpTo(args, n))
  BY <1>1, <1>10
<1>12. Placed(args, at)
  BY ZenonT(60), <1>3, <1>6, <1>7, <1>11 DEF Placed, N, flat, W
<1> QED BY <1>4, <1>12 DEF flat, W

(* zd reads the operands that za wrote, and ends after the last of them.   *)
LEMMA OperandsRead ==
  ASSUME NEW args \in Seq(Argument), NEW c, NEW s, s.types = TypesOf(args),
         s.at \in Nat, WrittenAt(c, s.at, FlattenSeq(WrittenArgs(args)))
  PROVE  /\ OperandsEnd(s) = s.at + Len(FlattenSeq(WrittenArgs(args)))
         /\ Arguments(c, s) = [n \in 1..Len(args) |-> Operand(args[n])]
<1> DEFINE flat == FlattenSeq(WrittenArgs(args))
           N == Len(args)
           p == s.at
<1>1. N \in Nat /\ p \in Nat /\ \A n \in 1..N : args[n] \in Argument
  OBVIOUS
<1>2. PICK at : Placed(args, at)
  BY PlacesExist
<1>3. \A j \in 1..Len(flat) :
        InMemory(c, (p + j) - 1) /\ ByteAt(c, (p + j) - 1) = flat[j]
  BY DEF WrittenAt
<1>4. Len(s.types) = N
  <2>1. Len(TypesOf(args)) = N
    BY <1>1 DEF TypesOf
  <2> QED BY <2>1
<1>5. flat \in Seq(Byte)
  BY PlacesExist
<1> HIDE DEF N, flat, p
<1>6. /\ at \in [0..N -> Nat]
      /\ at[N] = Len(flat)
      /\ \A n \in 0..N : at[n] = n + Cardinality(LargeUpTo(args, n))
      /\ \A n \in 1..N :
           /\ at[n] <= Len(flat)
           /\ at[n] = at[n - 1] + Len(Za!Written(args[n]))
           /\ \A j \in 1..Len(Za!Written(args[n])) :
                flat[at[n - 1] + j] = Za!Written(args[n])[j]
  BY <1>2 DEF Placed, N, flat
<1>7. ASSUME NEW i \in 1..(N + 1) PROVE OperandAt(s, i) = p + at[i - 1]
  <2>1. i - 1 \in 0..N
    BY <1>1
  <2> DEFINE k == i - 1
             C == Cardinality(LargeUpTo(args, k))
  <2>2. OperandAt(s, i) = (p + k) + C
    BY DEF OperandAt, LargeUpTo, p
  <2>3. at[k] = k + C /\ at[k] \in Nat /\ k \in Nat
    BY <1>1, <1>6, <2>1
  <2>4. C \in Nat
    BY <2>3, LargeCount
  <2> HIDE DEF C, k
  <2>5. OperandAt(s, i) = p + at[k]
    BY <1>1, <2>2, <2>3, <2>4
  <2> QED BY <2>5 DEF k
<1>8. OperandsEnd(s) = p + Len(flat)
  <2>1. N + 1 \in 1..(N + 1) /\ (N + 1) - 1 = N
    BY <1>1
  <2>2. OperandAt(s, N + 1) = p + at[N]
    BY <1>7, <2>1
  <2> QED BY <1>4, <1>6, <2>2 DEF OperandsEnd
<1>9. ASSUME NEW n \in 1..N
      PROVE  Operand(args[n]) =
               [variable |-> s.types[n] = Variable,
                value |-> Constant(c, s, n)]
  <2> DEFINE x == at[n - 1]
             w == Za!Written(args[n])
  <2>1. /\ n - 1 \in 0..N /\ x \in Nat /\ w \in Seq(Byte) /\ Len(w) \in Nat
        /\ x + Len(w) <= Len(flat)
    <3>1. n - 1 \in 0..N
      BY <1>1
    <3>2. w \in Seq(Byte)
      BY <1>1, WrittenFacts
    <3>3. Len(w) \in Nat
      BY <3>2
    <3> QED BY <1>6, <3>1, <3>2, <3>3
  <2>2. \A j \in 1..Len(w) : flat[x + j] = w[j]
    BY <1>6
  <2>3. OperandAt(s, n) = p + x
    <3>1. n \in 1..(N + 1)
      BY <1>1
    <3> QED BY <1>7, <3>1
  <2>4. s.types[n] = Za!MakeType(args[n])
    BY DEF TypesOf, N
  <2>5. /\ Za!MakeType(args[n]) = 0 =>
             Len(w) = 2 /\ Operand(args[n]).value = w[1] * 256 + w[2]
        /\ Za!MakeType(args[n]) # 0 =>
             Len(w) = 1 /\ Operand(args[n]).value = w[1]
    BY <1>1, WrittenFacts
  <2>6. Len(flat) \in Nat
    BY <1>5
  <2> HIDE DEF x, w
  <2>7. ASSUME NEW j \in 1..Len(w)
        PROVE  ByteAt(c, ((p + x) + j) - 1) = w[j]
    <3>1. x + j \in 1..Len(flat) /\ (p + (x + j)) - 1 = ((p + x) + j) - 1
      BY <1>1, <2>1, <2>6
    <3>2. ByteAt(c, (p + (x + j)) - 1) = flat[x + j]
      BY <1>3, <3>1
    <3> QED BY <2>2, <3>1, <3>2
  <2>8. Constant(c, s, n) = Operand(args[n]).value
    <3>1. CASE Za!MakeType(args[n]) = 0
      <4>1. Constant(c, s, n) = ByteAt(c, p + x) * 256 + ByteAt(c, (p + x) + 1)
        BY <2>3, <2>4, <3>1 DEF Constant, WordAt, Large
      <4>2. 1 \in 1..Len(w) /\ 2 \in 1..Len(w)
        <5>1. Len(w) = 2
          BY Zenon, <2>5, <3>1
        <5> QED BY <5>1
      <4>3. ((p + x) + 1) - 1 = p + x /\ ((p + x) + 2) - 1 = (p + x) + 1
        BY <1>1, <2>1
      <4>4. ByteAt(c, p + x) = w[1] /\ ByteAt(c, (p + x) + 1) = w[2]
        <5>1. /\ ByteAt(c, ((p + x) + 1) - 1) = w[1]
              /\ ByteAt(c, ((p + x) + 2) - 1) = w[2]
          BY <2>7, <4>2
        <5> QED BY Zenon, <4>3, <5>1
      <4> QED BY <2>5, <3>1, <4>1, <4>4
    <3>2. CASE Za!MakeType(args[n]) # 0
      <4>1. Constant(c, s, n) = ByteAt(c, p + x)
        BY <2>3, <2>4, <3>2 DEF Constant, Large
      <4>2. 1 \in 1..Len(w)
        <5>1. Len(w) = 1
          BY Zenon, <2>5, <3>2
        <5> QED BY <5>1
      <4>3. ((p + x) + 1) - 1 = p + x
        BY <1>1, <2>1
      <4>4. ByteAt(c, p + x) = w[1]
        <5>1. ByteAt(c, ((p + x) + 1) - 1) = w[1]
          BY <2>7, <4>2
        <5> QED BY Zenon, <4>3, <5>1
      <4> QED BY <2>5, <3>2, <4>1, <4>4
    <3> QED BY <3>1, <3>2
  <2>9. Operand(args[n]) = [variable |-> Za!MakeType(args[n]) = Variable,
                            value |-> Operand(args[n]).value]
    BY <1>1, OperandFacts
  <2> QED BY Zenon, <2>4, <2>8, <2>9
<1>10. Arguments(c, s) = [n \in 1..N |-> Operand(args[n])]
  BY <1>4, <1>9 DEF Arguments
<1> QED BY <1>8, <1>10 DEF N, flat, p

----------------------------------------------------------------------------
(* The words of a string.                                                  *)

(* Sequences of one length, one after another.                             *)
LEMMA FlattenEven ==
  ASSUME NEW S, NEW seqs \in Seq(Seq(S)), NEW k \in {2, 3},
         \A n \in 1..Len(seqs) : Len(seqs[n]) = k
  PROVE  /\ FlattenSeq(seqs) \in Seq(S)
         /\ Len(FlattenSeq(seqs)) = k * Len(seqs)
         /\ \A n \in 1..Len(seqs) : \A j \in 1..k :
              FlattenSeq(seqs)[k * (n - 1) + j] = seqs[n][j]
<1> DEFINE N == Len(seqs)
           flat == FlattenSeq(seqs)
<1>1. N \in Nat
  OBVIOUS
<1>2. PICK at : Layout(seqs, at)
  BY FlattenFacts
<1>3. flat \in Seq(S)
  BY FlattenFacts
<1>4. /\ at \in [0..N -> Nat] /\ at[0] = 0 /\ at[N] = Len(flat)
      /\ \A n \in 1..N :
           /\ at[n] = at[n - 1] + k
           /\ \A j \in 1..k : flat[at[n - 1] + j] = seqs[n][j]
  BY <1>2 DEF Layout
<1> HIDE DEF N, flat
<1> DEFINE G == {n \in Nat : n <= N => at[n] = k * n}
<1>5. 0 \in G
  BY <1>4
<1>6. ASSUME NEW n \in Nat, n \in G PROVE n + 1 \in G
  <2>1. ASSUME n + 1 <= N PROVE at[n + 1] = k * (n + 1)
    <3>1. n + 1 \in 1..N /\ (n + 1) - 1 = n /\ n <= N
      BY <1>1, <2>1
    <3>2. at[n] = k * n
      BY <1>6, <3>1
    <3>3. at[n + 1] = at[n] + k
      BY <1>4, <3>1
    <3> QED BY <3>2, <3>3
  <2> QED BY <2>1
<1>7. \A n \in Nat : n \in G
  <2> HIDE DEF G
  <2> QED BY <1>5, <1>6, Induction
<1>8. \A n \in 0..N : at[n] = k * n
  BY <1>1, <1>7
<1>9. ASSUME NEW n \in 1..N, NEW j \in 1..k
      PROVE  flat[k * (n - 1) + j] = seqs[n][j]
  <2>1. n - 1 \in 0..N
    BY <1>1
  <2>2. at[n - 1] = k * (n - 1)
    BY <1>8, <2>1
  <2>3. flat[at[n - 1] + j] = seqs[n][j]
    BY <1>4
  <2> QED BY <2>2, <2>3
<1>10. N \in 0..N
  BY <1>1
<1> QED BY <1>3, <1>4, <1>8, <1>9, <1>10 DEF N, flat

Zchar == 0..31

WordOf(z, i) ==
  z[3 * i - 2] * 1024 + z[3 * i - 1] * 32 + z[3 * i]
    + (IF i = Len(z) \div 3 THEN 32768 ELSE 0)

WordsOf(z) == [i \in 1..(Len(z) \div 3) |-> Za!Word(WordOf(z, i))]

WordFact(x, y, z, m, w) ==
  /\ w \in Nat /\ w <= 65535
  /\ w \div 256 < 128 <=> m = 0
  /\ (w \div 1024) % 32 = x /\ (w \div 32) % 32 = y /\ w % 32 = z

(* Three Z-characters in a word, which is marked if it is the last.        *)
LEMMA WordFacts ==
  ASSUME NEW x \in Zchar, NEW y \in Zchar, NEW z \in Zchar, NEW m \in {0, 1},
         NEW w, w = x * 1024 + y * 32 + z + m * 32768
  PROVE  WordFact(x, y, z, m, w)
<1> x \in Int /\ 0 <= x /\ x <= 31 /\ y \in Int /\ 0 <= y /\ y <= 31
    /\ z \in Int /\ 0 <= z /\ z <= 31
  BY DEF Zchar
<1>1. CASE m = 0
  BY <1>1 DEF WordFact
<1>2. CASE m = 1
  BY <1>2 DEF WordFact
<1> QED BY <1>1, <1>2

(* The three Z-characters that zd finds in a word.                         *)
ThreeOf(w) == <<(w \div 1024) % 32, (w \div 32) % 32, w % 32>>

(* A string, of which z is the Z-characters.                               *)
IsString(z, s) ==
  /\ z \in Seq(Zchar) /\ Len(z) > 0 /\ Len(z) % 3 = 0
  /\ s = FlattenSeq(WordsOf(z))

(* The n words of a string, as za writes them.                             *)
WordsFact(z, s, n) ==
  /\ z \in Seq(Zchar) /\ n \in Nat /\ n >= 1 /\ Len(z) = 3 * n
  /\ s \in Seq(Byte) /\ Len(s) = 2 * n
  /\ \A i \in 1..n :
       LET w == WordOf(z, i)
       IN /\ w \div 256 < 128 <=> i # n
          /\ ThreeOf(w) = <<z[3 * i - 2], z[3 * i - 1], z[3 * i]>>
          /\ w = (w \div 256) * 256 + (w % 256)
          /\ s[2 * (i - 1) + 1] = w \div 256
          /\ s[2 * (i - 1) + 2] = w % 256

(* zd finds the words of a string where za wrote them.                     *)
LEMMA StringWords ==
  ASSUME NEW z, NEW s, IsString(z, s)
  PROVE  WordsFact(z, s, Len(z) \div 3)
<1> DEFINE n == Len(z) \div 3
           W == WordsOf(z)
<1>1. z \in Seq(Zchar) /\ s = FlattenSeq(W) /\ Len(z) \in Nat
      /\ Len(z) > 0 /\ Len(z) % 3 = 0
  <2>1. z \in Seq(Zchar) /\ s = FlattenSeq(W) /\ Len(z) > 0 /\ Len(z) % 3 = 0
    BY Zenon DEF IsString
  <2> HIDE DEF W
  <2> QED BY <2>1
<1>2. n \in Nat /\ n >= 1 /\ Len(z) = 3 * n
  <2> DEFINE l == Len(z)
  <2>1. l \in Nat /\ l > 0 /\ l % 3 = 0
    BY <1>1
  <2> HIDE DEF l
  <2>2. l \div 3 \in Nat /\ l \div 3 >= 1 /\ l = 3 * (l \div 3)
    BY <2>1
  <2> QED BY <2>2 DEF l
<1>3. W = [i \in 1..n |-> Za!Word(WordOf(z, i))]
  BY DEF WordsOf
<1> DEFINE w(i) == WordOf(z, i)
<1>4. ASSUME NEW i \in 1..n
      PROVE  /\ w(i) \in Nat /\ w(i) <= 65535
             /\ w(i) \div 256 < 128 <=> i # n
             /\ ThreeOf(w(i)) = <<z[3 * i - 2], z[3 * i - 1], z[3 * i]>>
  <2> DEFINE x == z[3 * i - 2]
             y == z[3 * i - 1]
             t == z[3 * i]
             m == IF i = n THEN 1 ELSE 0
             ww == WordOf(z, i)
  <2>1. 3 * i - 2 \in 1..Len(z) /\ 3 * i - 1 \in 1..Len(z)
        /\ 3 * i \in 1..Len(z)
    <3> HIDE DEF n
    <3> QED BY <1>2
  <2>2. x \in Zchar /\ y \in Zchar /\ t \in Zchar
    BY <1>1, <2>1
  <2>3. m \in {0, 1} /\ (m = 0 <=> i # n)
    OBVIOUS
  <2>4. ww = x * 1024 + y * 32 + t + m * 32768
    <3>1. CASE i = n
      <4>1. ww = x * 1024 + y * 32 + t + 32768 /\ m = 1
        BY <3>1 DEF WordOf
      <4> HIDE DEF x, y, t, m, ww
      <4> QED BY <4>1, <2>2 DEF Zchar
    <3>2. CASE i # n
      <4>1. ww = x * 1024 + y * 32 + t + 0 /\ m = 0
        BY <3>2 DEF WordOf
      <4> HIDE DEF x, y, t, m, ww
      <4> QED BY <4>1, <2>2 DEF Zchar
    <3> QED BY <3>1, <3>2
  <2> HIDE DEF x, y, t, m, ww
  <2>5. /\ ww \in Nat /\ ww <= 65535
        /\ ww \div 256 < 128 <=> m = 0
        /\ (ww \div 1024) % 32 = x /\ (ww \div 32) % 32 = y /\ ww % 32 = t
    <3>1. WordFact(x, y, t, m, ww)
      BY <2>2, <2>3, <2>4, WordFacts
    <3> QED BY <3>1 DEF WordFact
  <2>6. ThreeOf(ww) = <<x, y, t>>
    BY <2>5 DEF ThreeOf
  <2> QED BY <2>3, <2>5, <2>6 DEF x, y, t, ww
<1> DEFINE hi(i) == w(i) \div 256
           lo(i) == w(i) % 256
<1>5. ASSUME NEW i \in 1..n
      PROVE  /\ W[i] = <<hi(i), lo(i)>> /\ W[i] \in Seq(Byte) /\ Len(W[i]) = 2
             /\ W[i][1] = hi(i) /\ W[i][2] = lo(i)
             /\ w(i) = hi(i) * 256 + lo(i)
             /\ hi(i) \in Nat
  <2> DEFINE ww == w(i)
             u == ww \div 256
             v == ww % 256
  <2>1. ww \in Nat /\ ww <= 65535
    BY <1>4
  <2>2. W[i] = <<u, v>>
    <3>1. W[i] = Za!Word(ww)
      <4> HIDE DEF W, n, ww
      <4> QED BY <1>3 DEF ww
    <3> QED BY <3>1 DEF Za!Word
  <2> HIDE DEF ww, W
  <2>3. u \in Byte /\ v \in Byte /\ ww = u * 256 + v
    BY <2>1, TwoBytes DEF Byte
  <2>4. u \in Nat
    BY <2>1
  <2> HIDE DEF u, v
  <2>5. <<u, v>> \in Seq(Byte) /\ Len(<<u, v>>) = 2
    BY <2>3
  <2> QED BY <2>2, <2>3, <2>4, <2>5 DEF u, v, ww
<1> HIDE DEF W, n, hi, lo
<1>6. W \in Seq(Seq(Byte)) /\ Len(W) = n /\ \A i \in 1..Len(W) : Len(W[i]) = 2
  <2> DEFINE g(i) == Za!Word(WordOf(z, i))
  <2>1. W = [i \in 1..n |-> g(i)] /\ n \in Nat
    BY <1>2, <1>3
  <2>2. \A i \in 1..n : W[i] \in Seq(Byte) /\ Len(W[i]) = 2
    BY <1>5
  <2> HIDE DEF g
  <2> QED BY <2>1, <2>2
<1>7. /\ s \in Seq(Byte) /\ Len(s) = 2 * n
      /\ \A i \in 1..n : /\ s[2 * (i - 1) + 1] = W[i][1]
                         /\ s[2 * (i - 1) + 2] = W[i][2]
  <2>1. /\ FlattenSeq(W) \in Seq(Byte) /\ Len(FlattenSeq(W)) = 2 * Len(W)
        /\ \A i \in 1..Len(W) : \A j \in 1..2 :
             FlattenSeq(W)[2 * (i - 1) + j] = W[i][j]
    BY <1>6, FlattenEven
  <2>2. 1 \in 1..2 /\ 2 \in 1..2
    OBVIOUS
  <2> QED BY <1>1, <1>6, <2>1, <2>2
<1>8. ASSUME NEW i \in 1..n
      PROVE  /\ hi(i) < 128 <=> i # n
             /\ ThreeOf(w(i)) = <<z[3 * i - 2], z[3 * i - 1], z[3 * i]>>
             /\ w(i) = hi(i) * 256 + lo(i)
             /\ s[2 * (i - 1) + 1] = hi(i)
             /\ s[2 * (i - 1) + 2] = lo(i)
  <2>1. hi(i) < 128 <=> i # n
    BY <1>4 DEF hi
  <2>2. s[2 * (i - 1) + 1] = hi(i) /\ s[2 * (i - 1) + 2] = lo(i)
    BY <1>5, <1>7
  <2>3. ThreeOf(w(i)) = <<z[3 * i - 2], z[3 * i - 1], z[3 * i]>>
    BY <1>4
  <2>4. w(i) = hi(i) * 256 + lo(i)
    BY <1>5
  <2> HIDE DEF w
  <2> QED BY Zenon, <2>1, <2>2, <2>3, <2>4
<1> QED BY <1>1, <1>2, <1>7, <1>8 DEF WordsFact, n, hi, lo

(* A string is bytes, and at least two of them.                            *)
LEMMA StringType ==
  ASSUME NEW z, NEW s, IsString(z, s)
  PROVE  s \in Seq(Byte) /\ Len(s) > 0
BY StringWords DEF WordsFact

(* A string in memory at an address is read to its end, and its            *)
(* Z-characters are those it was made of.                                  *)
LEMMA StringRead ==
  ASSUME NEW z, NEW s, IsString(z, s), NEW c, NEW a \in Nat, Size(c) \in Nat,
         WrittenAt(c, a, s)
  PROVE  StringEnd(c, a) = a + Len(s) /\ CharactersAt(c, a) = z
<1> DEFINE n == Len(z) \div 3
           w(i) == WordOf(z, i)
           hi(i) == w(i) \div 256
           lo(i) == w(i) % 256
<1>1. WordsFact(z, s, n)
  BY StringWords
<1>2. n \in Nat /\ n >= 1 /\ Len(z) = 3 * n /\ z \in Seq(Zchar)
  BY <1>1 DEF WordsFact
<1>4. \A i \in 1..n :
        /\ w(i) \div 256 < 128 <=> i # n
        /\ ThreeOf(w(i)) = <<z[3 * i - 2], z[3 * i - 1], z[3 * i]>>
  BY <1>1 DEF WordsFact
<1>5. \A i \in 1..n :
        /\ w(i) = hi(i) * 256 + lo(i)
        /\ s[2 * (i - 1) + 1] = hi(i)
        /\ s[2 * (i - 1) + 2] = lo(i)
  BY <1>1 DEF WordsFact
<1>7. s \in Seq(Byte) /\ Len(s) = 2 * n
  BY <1>1 DEF WordsFact
<1> HIDE DEF n, hi, lo
<1>8. \A j \in 1..Len(s) :
        InMemory(c, (a + j) - 1) /\ ByteAt(c, (a + j) - 1) = s[j]
  BY DEF WrittenAt
<1>9. ASSUME NEW i \in 1..n
      PROVE  /\ InMemory(c, (a + 2 * (i - 1)) + 1)
             /\ ByteAt(c, a + 2 * (i - 1)) = hi(i)
             /\ ByteAt(c, (a + 2 * (i - 1)) + 1) = lo(i)
  <2> DEFINE p == 2 * (i - 1) + 1
             q == 2 * (i - 1) + 2
  <2>1. p \in 1..Len(s) /\ q \in 1..Len(s)
        /\ (a + p) - 1 = a + 2 * (i - 1) /\ (a + q) - 1 = (a + 2 * (i - 1)) + 1
    <3>1. Len(s) = 2 * n
      BY <1>7
    <3> DEFINE l == Len(s)
    <3>2. l = 2 * n /\ n \in Nat /\ i \in Int /\ 1 <= i /\ i <= n
      BY <1>2, <3>1
    <3> HIDE DEF l
    <3>3. /\ p \in 1..l /\ q \in 1..l
          /\ (a + p) - 1 = a + 2 * (i - 1)
          /\ (a + q) - 1 = (a + 2 * (i - 1)) + 1
      BY <3>2
    <3> QED BY <3>3 DEF l
  <2>2. s[p] = hi(i) /\ s[q] = lo(i)
    BY <1>5
  <2> HIDE DEF p, q
  <2>3. /\ ByteAt(c, (a + p) - 1) = s[p]
        /\ InMemory(c, (a + q) - 1) /\ ByteAt(c, (a + q) - 1) = s[q]
    BY <1>8, <2>1
  <2> QED BY <2>1, <2>2, <2>3
<1>10. ASSUME NEW i \in 1..n
       PROVE  WordAt(c, a + 2 * (i - 1)) = w(i)
  BY <1>5, <1>9 DEF WordAt
<1>11. StringEnd(c, a) = a + 2 * n
  <2> DEFINE words == (Size(c) - a) \div 2
             inner == {k \in 1..words :
                         \A m \in 1..k : ByteAt(c, a + 2 * (m - 1)) < 128}
             d == Cardinality(inner)
  <2>1. words \in Int /\ words >= n
    <3>1. n \in 1..n
      BY <1>2
    <3>2. InMemory(c, (a + 2 * (n - 1)) + 1)
      BY <1>9, <3>1
    <3>3. (a + 2 * (n - 1)) + 1 < Size(c)
      BY <3>2 DEF InMemory
    <3> DEFINE b == Size(c)
    <3>4. b \in Nat /\ (a + 2 * (n - 1)) + 1 < b
      BY <3>3
    <3> HIDE DEF b
    <3>5. (b - a) \div 2 \in Int /\ (b - a) \div 2 >= n
      BY <1>2, <3>4
    <3> QED BY <3>5 DEF b
  <2> HIDE DEF words
  <2>2. ASSUME NEW k \in 1..words
        PROVE  (\A m \in 1..k : ByteAt(c, a + 2 * (m - 1)) < 128)
                 <=> k <= n - 1
    <3>1. ASSUME k <= n - 1, NEW m \in 1..k
          PROVE  ByteAt(c, a + 2 * (m - 1)) < 128
      <4>1. m \in 1..n /\ m # n
        BY <1>2, <3>1
      <4>2. hi(m) < 128
        BY <1>4, <4>1 DEF hi
      <4> QED BY <4>1, <4>2, <1>9
    <3>2. ASSUME ~(k <= n - 1)
          PROVE  n \in 1..k /\ ~(ByteAt(c, a + 2 * (n - 1)) < 128)
      <4>1. n \in 1..k /\ n \in 1..n
        BY <1>2, <2>1, <3>2
      <4>2. ~(hi(n) < 128)
        BY <1>4, <4>1 DEF hi
      <4> QED BY <4>1, <4>2, <1>9
    <3> QED BY <3>1, <3>2
  <2>3. inner = 1..(n - 1)
    <3>1. inner = {k \in 1..words : k <= n - 1}
      BY <2>2
    <3> HIDE DEF inner
    <3> QED BY <1>2, <2>1, <3>1
  <2>4. d = n - 1
    <3>1. n - 1 \in Nat
      BY <1>2
    <3> HIDE DEF inner
    <3> QED BY <2>3, <3>1, Counted
  <2>5. StringEnd(c, a) = IF d >= words THEN Beyond(c) ELSE a + 2 * (d + 1)
    BY Zenon DEF StringEnd, words
  <2> HIDE DEF d, inner
  <2> QED BY <1>2, <2>1, <2>4, <2>5
<1>12. CharactersAt(c, a) = z
  <2> DEFINE g == [i \in 1..n |-> ThreeOf(w(i))]
  <2>1. CharactersAt(c, a) = FlattenSeq(g)
    <3> DEFINE h(e) == [i \in 1..((e - a) \div 2) |->
                          ThreeOf(WordAt(c, a + 2 * (i - 1)))]
    <3>1. CharactersAt(c, a) = FlattenSeq(h(a + 2 * n))
      BY Zenon, <1>11 DEF CharactersAt, ThreeOf
    <3>2. ((a + 2 * n) - a) \div 2 = n
      BY <1>2
    <3>3. h(a + 2 * n) = g
      BY <1>10, <3>2
    <3> QED BY <3>1, <3>3
  <2>2. ASSUME NEW i \in 1..n
        PROVE  /\ g[i] \in Seq(Zchar) /\ Len(g[i]) = 3
               /\ g[i][1] = z[3 * (i - 1) + 1] /\ g[i][2] = z[3 * (i - 1) + 2]
               /\ g[i][3] = z[3 * (i - 1) + 3]
    <3>1. g[i] = <<z[3 * i - 2], z[3 * i - 1], z[3 * i]>>
      BY <1>4
    <3>2. 3 * i - 2 \in 1..Len(z) /\ 3 * i - 1 \in 1..Len(z)
          /\ 3 * i \in 1..Len(z)
      BY <1>2
    <3>3. z[3 * i - 2] \in Zchar /\ z[3 * i - 1] \in Zchar
          /\ z[3 * i] \in Zchar
      BY <1>2, <3>2
    <3>4. /\ 3 * i - 2 = 3 * (i - 1) + 1 /\ 3 * i - 1 = 3 * (i - 1) + 2
          /\ 3 * i = 3 * (i - 1) + 3
      OBVIOUS
    <3> HIDE DEF g
    <3> QED BY <3>1, <3>3, <3>4
  <2>3. g \in Seq(Seq(Zchar)) /\ Len(g) = n
        /\ \A i \in 1..Len(g) : Len(g[i]) = 3
    <3> DEFINE k(i) == ThreeOf(w(i))
    <3>1. g = [i \in 1..n |-> k(i)]
      OBVIOUS
    <3>2. \A i \in 1..n : g[i] \in Seq(Zchar) /\ Len(g[i]) = 3
      BY <2>2
    <3> HIDE DEF g, k
    <3> QED BY <1>2, <3>1, <3>2
  <2> HIDE DEF g
  <2> DEFINE f == FlattenSeq(g)
  <2>4. /\ f \in Seq(Zchar) /\ Len(f) = 3 * n
        /\ \A i \in 1..n : \A j \in 1..3 : f[3 * (i - 1) + j] = g[i][j]
    BY SMTT(60), <2>3, FlattenEven
  <2> HIDE DEF f
  <2>5. ASSUME NEW p \in 1..Len(z) PROVE f[p] = z[p]
    <3> DEFINE i == ((p - 1) \div 3) + 1
               j == ((p - 1) % 3) + 1
    <3>1. i \in 1..n /\ j \in 1..3 /\ p = 3 * (i - 1) + j
      BY <1>2
    <3> HIDE DEF i, j
    <3>2. f[p] = g[i][j]
      BY <2>4, <3>1
    <3>3. CASE j = 1
      BY <2>2, <3>1, <3>2, <3>3
    <3>4. CASE j = 2
      BY <2>2, <3>1, <3>2, <3>4
    <3>5. CASE j = 3
      BY <2>2, <3>1, <3>2, <3>5
    <3> QED BY <3>1, <3>3, <3>4, <3>5
  <2>6. f = z
    BY <1>2, <2>4, <2>5
  <2> QED BY <2>1, <2>6 DEF f
<1> QED BY <1>7, <1>11, <1>12

----------------------------------------------------------------------------
(* Folds.                                                                  *)

(* A set of numbers up to n has a greatest.                                *)
LEMMA MaxFacts ==
  ASSUME NEW n \in Nat, NEW s \in SUBSET (1..n), s # {}
  PROVE  Max(s) \in s /\ \A x \in s : Max(s) >= x
<1> DEFINE S == {k \in Nat : n - k \in s}
<1>1. S \subseteq Nat /\ S # {}
  <2>1. PICK x \in s : TRUE
    OBVIOUS
  <2>2. n - x \in Nat /\ n - (n - x) = x
    OBVIOUS
  <2>3. n - x \in S
    BY <2>2
  <2> QED BY <2>3
<1>2. PICK k \in S : \A j \in S : k <= j
  <2> HIDE DEF S
  <2> QED BY <1>1, Least
<1>3. n - k \in s
  OBVIOUS
<1>4. ASSUME NEW x \in s PROVE n - k >= x
  <2>1. n - x \in Nat /\ n - (n - x) = x
    OBVIOUS
  <2>2. n - x \in S
    BY <2>1
  <2>3. k <= n - x
    BY <1>2, <2>2
  <2> QED BY <2>3
<1> QED BY <1>3, <1>4 DEF Max

(* h folds Step over the sets of numbers up to N, the greatest last.       *)
FoldsTo(T, base, N, Step, h) ==
  /\ h \in [SUBSET (1..N) -> T]
  /\ \A s \in SUBSET (1..N) :
       h[s] = IF s = {} THEN base ELSE Step[Max(s)][h[s \ {Max(s)}]]

(* There is a function that folds, whatever the step is.                   *)
LEMMA FoldExists ==
  ASSUME NEW T, NEW base \in T, NEW N \in Nat, NEW Step \in [1..N -> [T -> T]]
  PROVE  \E h : FoldsTo(T, base, N, Step, h)
<1> DEFINE Is(m, h) == FoldsTo(T, base, m, Step, h)
           G == {m \in Nat : m <= N => \E h : Is(m, h)}
<1>1. 0 \in G
  <2> DEFINE h == [s \in SUBSET (1..0) |-> base]
  <2>1. \A s \in SUBSET (1..0) : s = {}
    OBVIOUS
  <2>2. Is(0, h)
    BY <2>1 DEF FoldsTo
  <2> HIDE DEF h, Is
  <2> QED BY <2>2
<1>2. ASSUME NEW m \in Nat, m \in G PROVE m + 1 \in G
  <2>1. ASSUME m + 1 <= N PROVE \E g : Is(m + 1, g)
    <3>1. \E h : Is(m, h)
      <4>1. m <= N BY <2>1
      <4> HIDE DEF Is
      <4> QED BY <4>1, <1>2
    <3>2. PICK h : Is(m, h)
      BY <3>1
    <3>3. /\ h \in [SUBSET (1..m) -> T]
          /\ \A s \in SUBSET (1..m) :
               h[s] = IF s = {} THEN base ELSE Step[Max(s)][h[s \ {Max(s)}]]
      BY <3>2 DEF FoldsTo
    <3>4. m + 1 \in 1..N /\ Step[m + 1] \in [T -> T]
      BY <2>1
    <3> DEFINE M == m + 1
               D == SUBSET (1..M)
               E == SUBSET (1..m)
               g == [s \in D |-> IF M \in s THEN Step[M][h[s \ {M}]] ELSE h[s]]
    <3>5. ASSUME NEW s \in D
          PROVE  /\ s \ {M} \in D /\ s \ {M} \in E
                 /\ M \notin s => s \in E
      OBVIOUS
    <3>6. g \in [D -> T]
      <4>1. ASSUME NEW s \in D
            PROVE  (IF M \in s THEN Step[M][h[s \ {M}]] ELSE h[s]) \in T
        <5>1. s \ {M} \in E /\ (M \notin s => s \in E)
          BY <3>5
        <5> HIDE DEF M, D, E
        <5> QED BY <5>1, <3>3, <3>4 DEF M, E
      <4> QED BY <4>1
    <3>7. ASSUME NEW s \in D
          PROVE  g[s] = IF s = {} THEN base ELSE Step[Max(s)][g[s \ {Max(s)}]]
      <4>1. CASE M \in s
        <5>1. Max(s) = M
          <6>1. M \in Nat /\ s # {}
            BY <4>1
          <6>2. Max(s) \in s /\ \A x \in s : Max(s) >= x
            <7> HIDE DEF M
            <7> QED BY <6>1, MaxFacts
          <6> DEFINE mx == Max(s)
          <6>3. mx \in 1..M /\ mx >= M
            BY <4>1, <6>2
          <6> HIDE DEF mx
          <6>4. mx = M
            BY <6>3
          <6> QED BY <6>4 DEF mx
        <5>2. g[s] = Step[M][h[s \ {M}]]
          BY <4>1
        <5>3. g[s \ {M}] = h[s \ {M}]
          <6>1. s \ {M} \in D /\ M \notin s \ {M}
            BY <3>5
          <6> HIDE DEF M, D
          <6> QED BY <6>1
        <5>4. s # {}
          BY <4>1
        <5> HIDE DEF g, M, D
        <5> QED BY Zenon, <5>1, <5>2, <5>3, <5>4
      <4>2. CASE M \notin s
        <5>1. s \in E
          BY <3>5, <4>2
        <5>2. g[s] = h[s]
          BY <4>2
        <5>3. CASE s = {}
          BY <3>3, <5>1, <5>2, <5>3
        <5>4. CASE s # {}
          <6>1. Max(s) \in s
            BY <5>1, <5>4, MaxFacts
          <6>2. s \ {Max(s)} \in D /\ M \notin s \ {Max(s)}
            BY <4>2
          <6>3. g[s \ {Max(s)}] = h[s \ {Max(s)}]
            <7> HIDE DEF M, D
            <7> QED BY <6>2
          <6>4. h[s] = Step[Max(s)][h[s \ {Max(s)}]]
            BY <3>3, <5>1, <5>4
          <6> HIDE DEF g, M, D
          <6> QED BY Zenon, <5>2, <5>4, <6>3, <6>4
        <5> QED BY <5>3, <5>4
      <4> QED BY <4>1, <4>2
    <3>8. Is(m + 1, g)
      <4> HIDE DEF g
      <4> QED BY <3>6, <3>7 DEF FoldsTo
    <3> HIDE DEF Is, g
    <3> QED BY <3>8
  <2> HIDE DEF Is
  <2> QED BY <2>1
<1>3. N \in G
  <2> HIDE DEF G
  <2> QED BY <1>1, <1>2, Induction
<1> HIDE DEF Is
<1>4. \E h : Is(N, h)
  BY <1>3
<1> QED BY <1>4 DEF Is

(* The numbers up to k + 1 without the greatest are those up to k.         *)
LEMMA UpToFacts ==
  ASSUME NEW k \in Nat
  PROVE  /\ Max(1..(k + 1)) = k + 1
         /\ (1..(k + 1)) \ {k + 1} = 1..k
         /\ 1..(k + 1) # {}
         /\ 1..0 = {}
<1>1. 1..(k + 1) \in SUBSET (1..(k + 1)) /\ k + 1 \in 1..(k + 1)
  OBVIOUS
<1>2. /\ Max(1..(k + 1)) \in 1..(k + 1)
      /\ \A x \in 1..(k + 1) : Max(1..(k + 1)) >= x
  <2> DEFINE n == k + 1
             s == 1..n
  <2>1. n \in Nat /\ s \in SUBSET (1..n) /\ s # {}
    BY <1>1
  <2>2. Max(s) \in s /\ \A x \in s : Max(s) >= x
    <3> HIDE DEF n
    <3> QED BY <2>1, MaxFacts
  <2> QED BY <2>2
<1> DEFINE mx == Max(1..(k + 1))
<1>3. mx \in 1..(k + 1) /\ mx >= k + 1
  BY <1>1, <1>2
<1> HIDE DEF mx
<1>4. mx = k + 1
  BY <1>3
<1> QED BY <1>4 DEF mx

(* za's table grows by what a text needs, one character after another.     *)
Learnt(v, table, text, f) ==
  /\ DOMAIN f = 0..Len(text)
  /\ f[0] = table
  /\ \A n \in 1..Len(text) : f[n] = Za!Learn(v, f[n - 1], text[n])
  /\ f[Len(text)] = Za!TableAfter(v, table, text)

(* A character stays a number when it is cut to 16 bits.                   *)
LEMMA CutFacts ==
  ASSUME NEW x \in Nat
  PROVE  Za!Cut(x) \in Nat
BY DEF Za!Cut, Za!Replacement

(* The table stays one of characters, and has a state after every          *)
(* character of a text.                                                    *)
LEMMA LearnType ==
  ASSUME NEW v, NEW x \in Nat, NEW table \in Seq(Nat)
  PROVE  Za!Learn(v, table, x) \in Seq(Nat)
<1> DEFINE y == Za!Cut(x)
<1>1. y \in Nat
  BY CutFacts
<1>2. Za!Learn(v, table, x) \in {Append(table, y), table}
  BY Zenon DEF Za!Learn
<1> HIDE DEF y
<1> QED BY SMTT(60), <1>1, <1>2

LEMMA LearntExists ==
  ASSUME NEW v, NEW table \in Seq(Nat), NEW text \in Seq(Nat)
  PROVE  \E f : Learnt(v, table, text, f)
<1> DEFINE T == Seq(Nat)
           N == Len(text)
           Step == [n \in 1..N |-> [t \in T |-> Za!Learn(v, t, text[n])]]
           Is(g) == g = [s \in SUBSET DOMAIN text |->
                           IF s = {} THEN table
                           ELSE Za!Learn(v, g[s \ {Max(s)}], text[Max(s)])]
           g == CHOOSE g : Is(g)
<1>1. Za!TableAfter(v, table, text) = g[DOMAIN text]
  BY Zenon DEF Za!TableAfter, Za!FoldLeft, Za!MapThenFoldSet, Za!Max, Max
<1>2. N \in Nat /\ DOMAIN text = 1..N /\ \A n \in 1..N : text[n] \in Nat
  OBVIOUS
<1>3. Step \in [1..N -> [T -> T]]
  <2>1. ASSUME NEW n \in 1..N, NEW t \in T
        PROVE  Za!Learn(v, t, text[n]) \in T
    BY <1>2, LearnType
  <2> QED BY <2>1
<1>4. PICK h : FoldsTo(T, table, N, Step, h)
  <2> HIDE DEF T, N, Step
  <2> QED BY <1>2, <1>3, FoldExists DEF T
<1>5. Is(h)
  <2>1. /\ h \in [SUBSET (1..N) -> T]
        /\ \A s \in SUBSET (1..N) :
             h[s] = IF s = {} THEN table ELSE Step[Max(s)][h[s \ {Max(s)}]]
    BY <1>4 DEF FoldsTo
  <2>2. ASSUME NEW s \in SUBSET (1..N)
        PROVE  h[s] = IF s = {} THEN table
                      ELSE Za!Learn(v, h[s \ {Max(s)}], text[Max(s)])
    <3>1. CASE s = {}
      BY <2>1, <3>1
    <3>2. CASE s # {}
      <4>1. Max(s) \in 1..N
        <5>1. Max(s) \in s
          <6> HIDE DEF N
          <6> QED BY <1>2, <3>2, MaxFacts
        <5> QED BY <5>1
      <4>2. h[s \ {Max(s)}] \in T
        <5> HIDE DEF N, T
        <5> QED BY <2>1
      <4> DEFINE mx == Max(s)
                 t == h[s \ {mx}]
      <4>3. mx \in 1..N /\ t \in T
        BY <4>1, <4>2
      <4>4. h[s] = Step[mx][t]
        BY <2>1, <3>2
      <4> HIDE DEF mx, t, N, T
      <4>5. Step[mx][t] = Za!Learn(v, t, text[mx])
        BY <4>3
      <4>6. h[s] = Za!Learn(v, t, text[mx])
        BY <4>4, <4>5
      <4> QED BY <3>2, <4>6 DEF mx, t
    <3> QED BY <3>1, <3>2
  <2> HIDE DEF N
  <2> QED BY <1>2, <2>1, <2>2
<1>6. Is(g)
  <2> HIDE DEF Is
  <2> QED BY <1>5
<1> DEFINE f == [k \in 0..N |-> g[1..k]]
<1>7. ASSUME NEW s \in SUBSET (1..N)
      PROVE  g[s] = IF s = {} THEN table
                    ELSE Za!Learn(v, g[s \ {Max(s)}], text[Max(s)])
  <2>1. g = [s_ \in SUBSET (1..N) |->
              IF s_ = {} THEN table
              ELSE Za!Learn(v, g[s_ \ {Max(s_)}], text[Max(s_)])]
    <3> HIDE DEF g, N
    <3> QED BY Zenon, <1>2, <1>6
  <2> HIDE DEF g, N
  <2> QED BY Zenon, <2>1
<1> HIDE DEF g
<1>8. f[0] = table
  <2>1. 1..0 = {} /\ 0 \in 0..N
    BY <1>2
  <2>2. f[0] = g[{}]
    BY <2>1
  <2>3. g[{}] = table
    BY <1>7
  <2> QED BY <2>2, <2>3
<1>9. ASSUME NEW n \in 1..N PROVE f[n] = Za!Learn(v, f[n - 1], text[n])
  <2> DEFINE k == n - 1
             s == 1..(k + 1)
  <2>1. k \in Nat /\ k + 1 = n /\ k \in 0..N /\ n \in 0..N
    BY <1>2
  <2>2. Max(s) = k + 1 /\ s \ {k + 1} = 1..k /\ s # {}
    <3> HIDE DEF k
    <3> QED BY <2>1, UpToFacts
  <2>3. f[n] = g[s] /\ f[k] = g[1..k]
    <3> HIDE DEF k
    <3> QED BY <2>1
  <2>4. s \in SUBSET (1..N)
    <3> HIDE DEF k
    <3> QED BY <1>2, <2>1
  <2>5. g[s] = IF s = {} THEN table
               ELSE Za!Learn(v, g[s \ {Max(s)}], text[Max(s)])
    <3> HIDE DEF s, N
    <3> QED BY <1>7, <2>4
  <2> HIDE DEF k, s, f
  <2> QED BY Zenon, <2>1, <2>2, <2>3, <2>5 DEF k
<1>10. f[N] = Za!TableAfter(v, table, text)
  <2>1. N \in 0..N
    BY <1>2
  <2>2. f[N] = g[1..N]
    <3> HIDE DEF N
    <3> QED BY <2>1
  <2> QED BY <1>1, <1>2, <2>2
<1>11. DOMAIN f = 0..N
  OBVIOUS
<1>12. Learnt(v, table, text, f)
  <2> HIDE DEF f
  <2> QED BY <1>8, <1>9, <1>10, <1>11 DEF Learnt
<1> HIDE DEF f
<1> QED BY <1>12

Grown(t, u) == Len(t) <= Len(u) /\ \A i \in 1..Len(t) : u[i] = t[i]

(* A character is in the table once it is learnt, and nothing is lost.     *)
LEMMA LearnFacts ==
  ASSUME NEW v \in 1..8, NEW table \in Seq(Nat), NEW x \in Nat
  PROVE  /\ v < 5 => Za!Learn(v, table, x) = table
         /\ Grown(table, Za!Learn(v, table, x))
         /\ v >= 5 /\ Za!Coded(v, Za!Cut(x)) =>
              Contains(Za!Learn(v, table, x), Za!Cut(x))
<1> DEFINE y == Za!Cut(x)
           coded == Za!Coded(v, y)
           u == Za!Learn(v, table, x)
<1>1. y \in Nat
  BY CutFacts
<1>2. u = IF coded /\ v >= 5 /\ ~Contains(table, y) THEN Append(table, y)
          ELSE table
  BY Zenon DEF Za!Learn, Za!Contains, Contains
<1> HIDE DEF y, coded, u
<1>3. Grown(table, table) /\ Grown(table, Append(table, y))
  BY <1>1 DEF Grown
<1>4. Contains(Append(table, y), y)
  <2>1. Len(table) + 1 \in 1..Len(Append(table, y))
        /\ Append(table, y)[Len(table) + 1] = y
    BY <1>1
  <2> QED BY <2>1 DEF Contains
<1>5. v < 5 => ~(v >= 5)
  OBVIOUS
<1>6. /\ v < 5 => u = table
      /\ Grown(table, u)
      /\ v >= 5 /\ coded => Contains(u, y)
  <2>1. CASE coded /\ v >= 5 /\ ~Contains(table, y)
    <3>1. u = Append(table, y)
      BY <1>2, <2>1
    <3> QED BY <1>3, <1>4, <1>5, <2>1, <3>1
  <2>2. CASE ~(coded /\ v >= 5 /\ ~Contains(table, y))
    <3>1. u = table
      BY <1>2, <2>2
    <3> QED BY <1>3, <2>2, <3>1
  <2> QED BY <2>1, <2>2
<1> QED BY <1>6 DEF y, coded, u

(* A table that has grown twice has grown, and has what it had.            *)
LEMMA GrownFacts ==
  ASSUME NEW t \in Seq(Nat), NEW u \in Seq(Nat), NEW w \in Seq(Nat),
         Grown(t, u), Grown(u, w)
  PROVE  /\ Grown(t, w)
         /\ \A y : Contains(u, y) => Contains(w, y)
<1>1. /\ Len(t) \in Nat /\ Len(u) \in Nat /\ Len(w) \in Nat
      /\ Len(t) <= Len(u) /\ Len(u) <= Len(w)
      /\ \A i \in 1..Len(t) : u[i] = t[i]
      /\ \A i \in 1..Len(u) : w[i] = u[i]
  BY DEF Grown
<1>2. /\ \A i \in 1..Len(t) : i \in 1..Len(u)
      /\ \A i \in 1..Len(u) : i \in 1..Len(w)
      /\ Len(t) <= Len(w)
  BY <1>1
<1>3. Grown(t, w)
  BY <1>1, <1>2 DEF Grown
<1>4. ASSUME NEW y, Contains(u, y) PROVE Contains(w, y)
  <2>1. PICK i \in 1..Len(u) : u[i] = y
    BY <1>4 DEF Contains
  <2>2. i \in 1..Len(w) /\ w[i] = y
    BY <1>1, <1>2, <2>1
  <2> QED BY <2>2 DEF Contains
<1> QED BY <1>3, <1>4

(* After a text the table has, in the later versions, each character that  *)
(* needs a code; what it had is where it was, and the first versions have  *)
(* no table to change.                                                     *)
LEMMA TableFacts ==
  ASSUME NEW v \in 1..8, NEW table \in Seq(Nat), NEW text \in Seq(Nat)
  PROVE  /\ Za!TableAfter(v, table, text) \in Seq(Nat)
         /\ v < 5 => Za!TableAfter(v, table, text) = table
         /\ Grown(table, Za!TableAfter(v, table, text))
         /\ v >= 5 =>
              \A i \in 1..Len(text) :
                Za!Coded(v, Za!Cut(text[i])) =>
                  Contains(Za!TableAfter(v, table, text), Za!Cut(text[i]))
<1> DEFINE N == Len(text)
           has(t, i) == v >= 5 /\ Za!Coded(v, Za!Cut(text[i])) =>
                          Contains(t, Za!Cut(text[i]))
<1>1. PICK f : Learnt(v, table, text, f)
  BY LearntExists
<1>2. /\ f[0] = table
      /\ \A n \in 1..N : f[n] = Za!Learn(v, f[n - 1], text[n])
      /\ f[N] = Za!TableAfter(v, table, text)
  BY <1>1 DEF Learnt
<1>3. N \in Nat /\ \A n \in 1..N : text[n] \in Nat
  OBVIOUS
<1> DEFINE Ok(n) == /\ f[n] \in Seq(Nat)
                    /\ v < 5 => f[n] = table
                    /\ Grown(table, f[n])
                    /\ \A i \in 1..n : has(f[n], i)
           G == {n \in Nat : n <= N => Ok(n)}
<1> HIDE DEF N, has
<1>4. 0 \in G
  BY <1>2 DEF Grown
<1>5. ASSUME NEW n \in Nat, n \in G PROVE n + 1 \in G
  <2>1. ASSUME n + 1 <= N PROVE Ok(n + 1)
    <3> DEFINE t == f[n]
               u == f[n + 1]
               x == text[n + 1]
    <3>1. n + 1 \in 1..N /\ (n + 1) - 1 = n /\ n <= N
      BY <1>3, <2>1
    <3>2. /\ t \in Seq(Nat) /\ (v < 5 => t = table) /\ Grown(table, t)
          /\ \A i \in 1..n : has(t, i)
      BY <1>5, <3>1
    <3>3. u = Za!Learn(v, t, x)
      BY <1>2, <3>1
    <3>4. x \in Nat
      BY <1>3, <3>1
    <3> HIDE DEF t, u, x
    <3>5. /\ u \in Seq(Nat)
          /\ v < 5 => u = t
          /\ Grown(t, u)
          /\ v >= 5 /\ Za!Coded(v, Za!Cut(x)) => Contains(u, Za!Cut(x))
      <4> DEFINE l == Za!Learn(v, t, x)
                 y == Za!Cut(x)
                 coded == Za!Coded(v, y)
      <4>1. l \in Seq(Nat)
        BY <3>2, <3>4, LearnType
      <4>2. /\ v < 5 => l = t
            /\ Grown(t, l)
            /\ v >= 5 /\ coded => Contains(l, y)
        BY <3>2, <3>4, LearnFacts
      <4> HIDE DEF l, y, coded
      <4>3. u = l
        BY <3>3 DEF l
      <4>4. /\ u \in Seq(Nat)
            /\ v < 5 => u = t
            /\ Grown(t, u)
            /\ v >= 5 /\ coded => Contains(u, y)
        BY Zenon, <4>1, <4>2, <4>3
      <4> QED BY Zenon, <4>4 DEF y, coded
    <3>6. Grown(table, u) /\ \A y : Contains(t, y) => Contains(u, y)
      <4>1. /\ t \in Seq(Nat) /\ u \in Seq(Nat) /\ table \in Seq(Nat)
            /\ Grown(table, t) /\ Grown(t, u)
        BY <3>2, <3>5
      <4> QED BY <4>1, GrownFacts
    <3>7. has(u, n + 1)
      BY <3>5 DEF has, x
    <3>8. ASSUME NEW i \in 1..(n + 1) PROVE has(u, i)
      <4>1. CASE i = n + 1
        BY <3>7, <4>1
      <4>2. CASE i # n + 1
        <5>1. i \in 1..n
          BY <4>2
        <5> QED BY <3>2, <3>6, <5>1 DEF has
      <4> QED BY <4>1, <4>2
    <3> QED BY <3>2, <3>5, <3>6, <3>8 DEF u
  <2> HIDE DEF Ok
  <2> QED BY <2>1
<1>6. \A n \in Nat : n \in G
  <2> HIDE DEF G
  <2> QED BY <1>4, <1>5, Induction
<1>7. Ok(N)
  BY <1>3, <1>6
<1> QED BY <1>2, <1>7 DEF has, N

(* The entries of the table are words.                                     *)
Words16 == {n \in Nat : n <= 65535}

LEMMA Widened ==
  ASSUME NEW s \in Seq(Words16)
  PROVE  s \in Seq(Nat)
<1>1. Len(s) \in Nat /\ s = [i \in 1..Len(s) |-> s[i]]
  OBVIOUS
<1>2. \A i \in 1..Len(s) : s[i] \in Words16
  OBVIOUS
<1>3. \A i \in 1..Len(s) : s[i] \in Nat
  BY <1>2 DEF Words16
<1>4. [i \in 1..Len(s) |-> s[i]] \in Seq(Nat)
  BY <1>1, <1>3
<1> QED BY <1>1, <1>4

LEMMA TableWords ==
  ASSUME NEW v, NEW table \in Seq(Words16), NEW text \in Seq(Nat)
  PROVE  Za!TableAfter(v, table, text) \in Seq(Words16)
<1> DEFINE N == Len(text)
<1>1. PICK f : Learnt(v, table, text, f)
  BY Widened, LearntExists
<1>2. /\ f[0] = table
      /\ \A n \in 1..N : f[n] = Za!Learn(v, f[n - 1], text[n])
      /\ f[N] = Za!TableAfter(v, table, text)
  BY <1>1 DEF Learnt
<1>3. N \in Nat /\ \A n \in 1..N : text[n] \in Nat
  OBVIOUS
<1> DEFINE G == {n \in Nat : n <= N => f[n] \in Seq(Words16)}
<1> HIDE DEF N
<1>4. 0 \in G
  BY <1>2
<1>5. ASSUME NEW n \in Nat, n \in G PROVE n + 1 \in G
  <2>1. ASSUME n + 1 <= N PROVE f[n + 1] \in Seq(Words16)
    <3> DEFINE t == f[n]
               y == Za!Cut(text[n + 1])
    <3>1. n + 1 \in 1..N /\ (n + 1) - 1 = n /\ n <= N
      BY <1>3, <2>1
    <3>2. t \in Seq(Words16)
      BY <1>5, <3>1
    <3>3. y \in Words16
      <4>1. PICK x \in Nat : x = text[n + 1]
        BY <1>3, <3>1
      <4>2. y = Za!Cut(x)
        BY <4>1
      <4> HIDE DEF y
      <4> QED BY SMT, <4>2 DEF Za!Cut, Za!Replacement, Words16
    <3>4. f[n + 1] \in {Append(t, y), t}
      <4>1. f[n + 1] = Za!Learn(v, t, text[n + 1])
        BY <1>2, <3>1
      <4> HIDE DEF t
      <4> QED BY Zenon, <4>1 DEF Za!Learn
    <3> HIDE DEF t, y
    <3>5. Append(t, y) \in Seq(Words16)
      BY <3>2, <3>3
    <3> QED BY <3>2, <3>4, <3>5
  <2> QED BY <2>1
<1>6. \A n \in Nat : n \in G
  <2> HIDE DEF G
  <2> QED BY <1>4, <1>5, Induction
<1> QED BY <1>2, <1>3, <1>6

----------------------------------------------------------------------------
(* The Z-characters of a text.                                             *)

(* The table in which a character that needs a code has it.                *)
CodesOf(v, table) == IF v < 5 THEN Za!Latin ELSE table

HasCode(v, table, x) == Za!Coded(v, x) => Contains(CodesOf(v, table), x)

(* The table of the versions before V5.                                    *)
LEMMA LatinFacts ==
  Za!Latin \in Seq(Nat) /\ Len(Za!Latin) = 69
BY DEF Za!Latin

(* A sequence of n numbers.                                                *)
Sized(s, n) == s \in Seq(Nat) /\ Len(s) = n

(* How long the parts of an alphabet are.                                  *)
LEMMA ConcatSize ==
  ASSUME NEW s, NEW t, NEW m \in Nat, NEW n \in Nat, Sized(s, m), Sized(t, n)
  PROVE  Sized(s \o t, m + n)
BY SMTT(60) DEF Sized

LEMMA RunSize ==
  ASSUME NEW first \in Nat, NEW n \in Nat
  PROVE  Sized(Za!Run(first, n), n)
BY DEF Za!Run, Sized

(* The alphabet has at most 79 characters.                                 *)
LEMMA AlphabetSize ==
  ASSUME NEW v \in 1..8
  PROVE  \E n \in Nat : n <= 79 /\ Sized(Za!Alphabet(v), n)
<1> DEFINE a == Za!Run(97, 26)
           b == Za!Run(65, 26)
           c == IF v = 1 THEN <<32>> ELSE <<0>>
           d == <<94>>
           e == Za!Run(48, 10)
           f == <<46, 44, 33, 63, 95, 35, 39, 34, 47, 92>>
           g == IF v = 1 THEN <<60>> ELSE <<>>
           h == <<45, 58, 40, 41>>
<1>1. Sized(a, 26) /\ Sized(b, 26) /\ Sized(e, 10)
  <2> HIDE DEF a, b, e
  <2> QED BY RunSize DEF a, b, e
<1>2. Sized(c, 1) /\ Sized(d, 1) /\ Sized(h, 4)
  BY DEF Sized
<1>3. Sized(f, 10)
  BY DEF Sized
<1>4. PICK k \in {0, 1} : Sized(g, k)
  <2>1. Sized(g, IF v = 1 THEN 1 ELSE 0)
    BY DEF Sized
  <2> QED BY <2>1
<1>5. Za!Alphabet(v) = a \o b \o c \o d \o e \o f \o g \o h
  BY Zenon DEF Za!Alphabet
<1> HIDE DEF a, b, c, d, e, f, g, h
<1> DEFINE s2 == a \o b
           s3 == s2 \o c
           s4 == s3 \o d
           s5 == s4 \o e
           s6 == s5 \o f
           s7 == s6 \o g
           s8 == s7 \o h
<1>6. Sized(s2, 52)
  <2>1. Sized(s2, 26 + 26)
    BY <1>1, ConcatSize
  <2> HIDE DEF s2
  <2> QED BY <2>1
<1> HIDE DEF s2
<1>7. Sized(s3, 53)
  <2>1. Sized(s3, 52 + 1)
    BY <1>2, <1>6, ConcatSize
  <2> HIDE DEF s3
  <2> QED BY <2>1
<1> HIDE DEF s3
<1>8. Sized(s4, 54)
  <2>1. Sized(s4, 53 + 1)
    BY <1>2, <1>7, ConcatSize
  <2> HIDE DEF s4
  <2> QED BY <2>1
<1> HIDE DEF s4
<1>9. Sized(s5, 64)
  <2>1. Sized(s5, 54 + 10)
    BY <1>1, <1>8, ConcatSize
  <2> HIDE DEF s5
  <2> QED BY <2>1
<1> HIDE DEF s5
<1>10. Sized(s6, 74)
  <2>1. Sized(s6, 64 + 10)
    BY <1>3, <1>9, ConcatSize
  <2> HIDE DEF s6
  <2> QED BY <2>1
<1> HIDE DEF s6
<1>11. Sized(s7, 74 + k)
  BY <1>4, <1>10, ConcatSize
<1> HIDE DEF s7
<1>12. Sized(s8, (74 + k) + 4)
  <2>1. 74 + k \in Nat
    BY <1>4
  <2> HIDE DEF s8
  <2> QED BY <1>2, <1>11, <2>1, ConcatSize DEF s8
<1>13. (74 + k) + 4 \in Nat /\ (74 + k) + 4 <= 79
  BY <1>4
<1>14. Za!Alphabet(v) = s8
  BY <1>5 DEF s8, s7, s6, s5, s4, s3, s2
<1> HIDE DEF s8
<1> QED BY <1>12, <1>13, <1>14

(* A place in the alphabet is a number up to 78.                           *)
LEMMA PositionFacts ==
  ASSUME NEW v \in 1..8, NEW x, NEW at \in Za!Positions(v, x)
  PROVE  at \in Nat /\ at <= 78
<1>1. PICK n \in Nat : n <= 79 /\ Sized(Za!Alphabet(v), n)
  BY AlphabetSize
<1>2. at \in 0..(n - 1)
  BY <1>1 DEF Za!Positions, Sized
<1> QED BY <1>1, <1>2

(* A character that needs a code has one of 97 numbers.                    *)
Numbered(v, table, x) ==
  \E k \in 1..Len(CodesOf(v, table)) :
    /\ k \in Nat /\ k <= 97 /\ CodesOf(v, table)[k] = x
    /\ Za!UnicodeToZscii(v, table, x) = 154 + k

(* A character that has a code has one of the table's numbers.             *)
LEMMA CodeFacts ==
  ASSUME NEW v \in 1..8, NEW table \in Seq(Nat), Len(table) <= 97, NEW x,
         Za!Coded(v, x), HasCode(v, table, x)
  PROVE  Numbered(v, table, x)
<1> DEFINE t == CodesOf(v, table)
           k == CHOOSE i \in 1..Len(t) : t[i] = x
<1>1. t \in Seq(Nat) /\ Len(t) <= 97
  <2>1. t \in {Za!Latin, table}
    BY Zenon DEF CodesOf
  <2> HIDE DEF t
  <2>2. CASE t = Za!Latin
    BY <2>2, LatinFacts
  <2>3. CASE t = table
    BY <2>3
  <2> QED BY <2>1, <2>2, <2>3
<1>2. \E i \in 1..Len(t) : t[i] = x
  BY DEF HasCode, Contains
<1>3. k \in 1..Len(t) /\ t[k] = x
  <2> HIDE DEF t
  <2> QED BY <1>2
<1>4. Za!UnicodeToZscii(v, table, x) = 154 + k
  <2>1. CASE v < 5
    BY <2>1 DEF Za!UnicodeToZscii, Za!IndexIn, CodesOf
  <2>2. CASE ~(v < 5)
    BY <2>2 DEF Za!UnicodeToZscii, Za!IndexIn, CodesOf
  <2> QED BY <2>1, <2>2
<1> HIDE DEF t, k
<1>5. k \in Nat /\ k <= 97
  BY <1>1, <1>3
<1> QED BY <1>3, <1>4, <1>5 DEF t, Numbered

(* A character is written as its place in a row of the alphabet, as a      *)
(* space, or in full: by its code, for a character that needs one.         *)
InRow(v, x, z, at) ==
  /\ at \in Za!Positions(v, x)
  /\ \/ at < 26 /\ z = <<at + 6>>
     \/ at >= 26 /\ z = <<Za!ShiftBase(v) + at \div 26, (at % 26) + 6>>

InFull(v, table, x, z, code) ==
  /\ Za!Positions(v, x) = {}
  /\ code \in Nat /\ code <= 251
  /\ z = <<Za!ShiftBase(v) + 2, 6, code \div 32, code % 32>>
  /\ \/ x <= 126 /\ code = x
     \/ \E k \in 1..Len(CodesOf(v, table)) :
          k <= 97 /\ code = 154 + k /\ CodesOf(v, table)[k] = x

WaysToWrite(v, table, x, z) ==
  \/ \E at : InRow(v, x, z, at)
  \/ x = 32 /\ z = <<0>>
  \/ \E code : InFull(v, table, x, z, code)

(* Sequences of two.                                                       *)
LEMMA TwoLong ==
  ASSUME NEW S, NEW u \in Seq(S), Len(u) = 2
  PROVE  u = <<u[1], u[2]>>
OBVIOUS

LEMMA PairFacts ==
  ASSUME NEW S, NEW p \in S, NEW q \in S
  PROVE  <<p>> \o <<q>> = <<p, q>>
<1> DEFINE s == <<p>>
           t == <<q>>
           u == s \o t
<1>1. s \in Seq(S) /\ t \in Seq(S)
  OBVIOUS
<1>2. Len(s) = 1 /\ Len(t) = 1 /\ s[1] = p /\ t[1] = q
  OBVIOUS
<1> HIDE DEF s, t
<1>3. /\ u \in Seq(S) /\ Len(u) = Len(s) + Len(t)
      /\ \A i \in 1..Len(s) : u[i] = s[i]
      /\ \A i \in 1..Len(t) : u[Len(s) + i] = t[i]
  BY <1>1, ConcatFacts
<1> HIDE DEF u
<1>4. 1 \in 1..Len(s) /\ 1 \in 1..Len(t) /\ Len(u) = 2
  BY <1>2, <1>3
<1>5. u[1] = p /\ u[2] = q
  BY <1>2, <1>3, <1>4
<1>6. u = <<u[1], u[2]>>
  <2>1. u \in Seq(S)
    BY <1>3
  <2> QED BY <2>1, <1>4, TwoLong
<1>7. u = <<p, q>>
  BY <1>5, <1>6
<1> QED BY <1>7 DEF u, s, t

(* The Z-character before the first shift.                                 *)
LEMMA ShiftFacts ==
  ASSUME NEW v \in 1..8
  PROVE  Za!ShiftBase(v) = IF v <= 2 THEN 1 ELSE 3
BY DEF Za!ShiftBase

(* Each character is written in one of these ways, in up to four           *)
(* Z-characters.                                                           *)
LEMMA ZCharsWays ==
  ASSUME NEW v \in 1..8, NEW table \in Seq(Nat), Len(table) <= 97,
         NEW x \in Nat, HasCode(v, table, x)
  PROVE  WaysToWrite(v, table, x, Za!ZChars(v, table, x))
<1> DEFINE P == Za!Positions(v, x)
           at == CHOOSE i \in P : TRUE
           base == Za!ShiftBase(v)
           zscii == IF x > 126 THEN Za!UnicodeToZscii(v, table, x) ELSE x
           z == Za!ZChars(v, table, x)
<1>1. z = IF P # {}
            THEN (IF at < 26 THEN <<>> ELSE <<base + at \div 26>>)
                   \o <<(at % 26) + 6>>
          ELSE IF x = 32 THEN <<0>>
          ELSE <<base + 2, 6, zscii \div 32, zscii % 32>>
  BY Zenon DEF Za!ZChars
<1>2. CASE P # {}
  <2>1. at \in P
    BY <1>2
  <2>2. at \in Nat
    BY <2>1, PositionFacts
  <2>3. z = (IF at < 26 THEN <<>> ELSE <<base + at \div 26>>)
              \o <<(at % 26) + 6>>
    BY Zenon, <1>1, <1>2
  <2> HIDE DEF P, at, base, z
  <2> DEFINE p == base + at \div 26
             q == (at % 26) + 6
  <2>4. at < 26 => z = <<at + 6>>
    <3>1. ASSUME at < 26 PROVE z = <<q>>
      <4>1. z = <<>> \o <<q>>
        BY <2>3, <3>1
      <4> HIDE DEF q
      <4> QED BY <4>1
    <3>2. at < 26 => q = at + 6
      BY <2>2
    <3> QED BY <3>1, <3>2
  <2>5. at >= 26 => z = <<p, q>>
    <3>1. ASSUME at >= 26 PROVE z = <<p, q>>
      <4>1. ~(at < 26)
        BY <2>2, <3>1
      <4>2. z = <<p>> \o <<q>>
        BY <2>3, <4>1
      <4>3. p \in Int /\ q \in Int
        <5>1. base \in Int
          BY ShiftFacts DEF base
        <5> QED BY <2>2, <5>1
      <4> HIDE DEF p, q
      <4>4. <<p>> \o <<q>> = <<p, q>>
        BY <4>3, PairFacts
      <4> QED BY <4>2, <4>4
    <3> QED BY <3>1
  <2>6. InRow(v, x, z, at)
    BY <2>1, <2>2, <2>4, <2>5 DEF InRow, P, base
  <2>7. WaysToWrite(v, table, x, z)
    BY <2>6 DEF WaysToWrite
  <2> QED BY <2>7 DEF z
<1>3. CASE P = {} /\ x = 32
  <2>1. z = <<0>>
    BY Zenon, <1>1, <1>3
  <2>2. WaysToWrite(v, table, x, z)
    BY <1>3, <2>1 DEF WaysToWrite
  <2> QED BY <2>2
<1>4. CASE P = {} /\ x # 32
  <2>1. z = <<base + 2, 6, zscii \div 32, zscii % 32>>
    BY Zenon, <1>1, <1>4
  <2>2. \/ x <= 126 /\ zscii = x
        \/ \E k \in 1..Len(CodesOf(v, table)) :
             k \in Nat /\ k <= 97 /\ zscii = 154 + k /\ CodesOf(v, table)[k] = x
    <3>1. CASE x <= 126
      BY <3>1
    <3>2. CASE x > 126
      <4>1. Za!Coded(v, x)
        BY <1>4, <3>2 DEF Za!Coded
      <4>2. PICK k \in 1..Len(CodesOf(v, table)) :
              /\ k \in Nat /\ k <= 97 /\ CodesOf(v, table)[k] = x
              /\ Za!UnicodeToZscii(v, table, x) = 154 + k
        <5>1. Numbered(v, table, x)
          BY <4>1, CodeFacts
        <5> QED BY <5>1 DEF Numbered
      <4>3. zscii = 154 + k
        BY <3>2, <4>2
      <4> HIDE DEF zscii
      <4> QED BY <4>2, <4>3
    <3> QED BY <3>1, <3>2
  <2>3. Za!Positions(v, x) = {}
    BY <1>4
  <2> HIDE DEF z, zscii, base
  <2>4. zscii \in Nat /\ zscii <= 251
    BY <2>2
  <2>5. InFull(v, table, x, z, zscii)
    BY <2>1, <2>2, <2>3, <2>4 DEF InFull, base
  <2>6. WaysToWrite(v, table, x, z)
    BY <2>5 DEF WaysToWrite
  <2> QED BY <2>6 DEF z
<1> QED BY <1>2, <1>3, <1>4

LEMMA ZCharsType ==
  ASSUME NEW v \in 1..8, NEW table \in Seq(Nat), Len(table) <= 97,
         NEW x \in Nat, HasCode(v, table, x)
  PROVE  /\ Za!ZChars(v, table, x) \in Seq(Zchar)
         /\ Len(Za!ZChars(v, table, x)) \in 1..4
<1> DEFINE z == Za!ZChars(v, table, x)
           base == Za!ShiftBase(v)
<1> SUFFICES z \in Seq(Zchar) /\ Len(z) \in 1..4
  OBVIOUS
<1>1. base \in {1, 3}
  BY ShiftFacts
<1>2. WaysToWrite(v, table, x, z)
  BY ZCharsWays
<1> HIDE DEF z
<1>3. CASE \E at : InRow(v, x, z, at)
  <2>1. PICK at : InRow(v, x, z, at)
    BY <1>3
  <2>2. at \in Nat /\ at <= 78
    BY <2>1, PositionFacts DEF InRow
  <2>3. \/ at < 26 /\ z = <<at + 6>>
        \/ at >= 26 /\ z = <<base + at \div 26, (at % 26) + 6>>
    BY <2>1 DEF InRow
  <2> HIDE DEF base
  <2>4. CASE at < 26 /\ z = <<at + 6>>
    <3>1. at + 6 \in Zchar
      BY <2>2, <2>4 DEF Zchar
    <3> QED BY <2>4, <3>1
  <2>5. CASE at >= 26 /\ z = <<base + at \div 26, (at % 26) + 6>>
    <3> DEFINE p == base + at \div 26
               q == (at % 26) + 6
    <3>1. p \in Zchar /\ q \in Zchar
      BY <1>1, <2>2 DEF Zchar
    <3>2. z = <<p, q>>
      BY <2>5
    <3> HIDE DEF p, q
    <3> QED BY <3>1, <3>2
  <2> QED BY <2>3, <2>4, <2>5
<1>4. CASE x = 32 /\ z = <<0>>
  BY <1>4 DEF Zchar
<1>5. CASE \E code : InFull(v, table, x, z, code)
  <2>1. PICK code : InFull(v, table, x, z, code)
    BY <1>5
  <2>2. code \in Nat /\ code <= 251
        /\ z = <<base + 2, 6, code \div 32, code % 32>>
    BY <2>1 DEF InFull
  <2> DEFINE p == base + 2
             q == code \div 32
             r == code % 32
  <2> HIDE DEF base
  <2>3. p \in Zchar /\ 6 \in Zchar /\ q \in Zchar /\ r \in Zchar
    BY <1>1, <2>2 DEF Zchar
  <2>4. z = <<p, 6, q, r>>
    BY <2>2
  <2> HIDE DEF p, q, r
  <2> QED BY <2>3, <2>4
<1> QED BY Zenon, <1>2, <1>3, <1>4, <1>5 DEF WaysToWrite

(* The Z-characters of each character of a text, and those of the string,  *)
(* with its padding.                                                       *)
CharsOf(v, table, text) ==
  [i \in 1..Len(text) |-> Za!ZChars(v, table, Za!Cut(text[i]))]

Filled(z) == z \o [i \in 1..Za!Padding(Len(z)) |-> 5]

Padded(v, table, text) == Filled(FlattenSeq(CharsOf(v, table, text)))

(* Padding fills the last word, and leaves what it follows as it is.       *)
LEMMA PaddingFacts ==
  ASSUME NEW n \in Nat
  PROVE  /\ Za!Padding(n) \in Nat
         /\ (n + Za!Padding(n)) % 3 = 0 /\ n + Za!Padding(n) > 0
<1>1. CASE n = 0
  BY <1>1 DEF Za!Padding
<1>2. CASE n # 0
  BY <1>2 DEF Za!Padding
<1> QED BY <1>1, <1>2

LEMMA FilledFacts ==
  ASSUME NEW z \in Seq(Zchar)
  PROVE  /\ Filled(z) \in Seq(Zchar)
         /\ Len(Filled(z)) > 0 /\ Len(Filled(z)) % 3 = 0
         /\ Len(z) <= Len(Filled(z))
         /\ \A i \in 1..Len(z) : Filled(z)[i] = z[i]
         /\ \A i \in 1..Len(Filled(z)) : i > Len(z) => Filled(z)[i] = 5
<1> DEFINE n == Len(z)
           k == Za!Padding(n)
           p == [i \in 1..k |-> 5]
           u == z \o p
<1>1. n \in Nat
  OBVIOUS
<1>2. k \in Nat /\ (n + k) % 3 = 0 /\ n + k > 0
  <2> HIDE DEF n
  <2> QED BY <1>1, PaddingFacts
<1> HIDE DEF k
<1>3. 5 \in Zchar
  BY DEF Zchar
<1>4. p \in Seq(Zchar) /\ Len(p) = k /\ \A i \in 1..k : p[i] = 5
  BY <1>2, <1>3
<1> HIDE DEF p
<1>5. /\ u \in Seq(Zchar) /\ Len(u) = Len(z) + Len(p)
      /\ \A i \in 1..Len(z) : u[i] = z[i]
      /\ \A i \in 1..Len(p) : u[Len(z) + i] = p[i]
  <2> DEFINE S == Zchar
  <2>1. z \in Seq(S) /\ p \in Seq(S)
    BY <1>4
  <2> HIDE DEF S
  <2>2. /\ u \in Seq(S) /\ Len(u) = Len(z) + Len(p)
        /\ \A i \in 1..Len(z) : u[i] = z[i]
        /\ \A i \in 1..Len(p) : u[Len(z) + i] = p[i]
    BY <2>1, ConcatFacts
  <2> QED BY <2>2 DEF S
<1>6. Filled(z) = u
  BY DEF Filled, p, k
<1> HIDE DEF u, n
<1>7. Len(u) = n + k
  BY <1>4, <1>5 DEF n
<1>8. ASSUME NEW i \in 1..Len(u), i > n PROVE u[i] = 5
  <2>1. i - n \in 1..k /\ n + (i - n) = i
    BY <1>1, <1>2, <1>7, <1>8
  <2>2. u[n + (i - n)] = p[i - n]
    BY <1>4, <1>5, <2>1 DEF n
  <2> QED BY <1>4, <2>1, <2>2
<1>9. /\ Len(u) > 0 /\ Len(u) % 3 = 0 /\ n <= Len(u)
  BY <1>1, <1>2, <1>7
<1> QED BY <1>5, <1>6, <1>8, <1>9 DEF n

(* The two instances of the operator are the same.                         *)
LEMMA SameFlatten ==
  ASSUME NEW s
  PROVE  Za!FlattenSeq(s) = FlattenSeq(s)
BY DEF Za!FlattenSeq, FlattenSeq

(* One sequence of Z-characters for each character of a text.              *)
LEMMA CharsFacts ==
  ASSUME NEW v \in 1..8, NEW table \in Seq(Nat), Len(table) <= 97,
         NEW text \in Seq(Nat),
         \A i \in 1..Len(text) : HasCode(v, table, Za!Cut(text[i]))
  PROVE  /\ CharsOf(v, table, text) \in Seq(Seq(Zchar))
         /\ Len(CharsOf(v, table, text)) = Len(text)
<1> DEFINE g(i) == Za!ZChars(v, table, Za!Cut(text[i]))
<1>1. \A i \in 1..Len(text) : text[i] \in Nat /\ Len(text) \in Nat
  OBVIOUS
<1>2. ASSUME NEW i \in 1..Len(text) PROVE g(i) \in Seq(Zchar)
  <2>1. Za!Cut(text[i]) \in Nat /\ HasCode(v, table, Za!Cut(text[i]))
    <3> DEFINE x == text[i]
    <3>1. x \in Nat
      BY <1>1
    <3>2. HasCode(v, table, Za!Cut(x))
      OBVIOUS
    <3> HIDE DEF x
    <3>3. Za!Cut(x) \in Nat
      BY <3>1, CutFacts
    <3> QED BY <3>2, <3>3 DEF x
  <2> DEFINE y == Za!Cut(text[i])
  <2>2. y \in Nat /\ HasCode(v, table, y)
    BY <2>1
  <2> HIDE DEF y
  <2>3. Za!ZChars(v, table, y) \in Seq(Zchar)
    BY <2>2, ZCharsType
  <2> QED BY <2>3 DEF y
<1>3. CharsOf(v, table, text) = [i \in 1..Len(text) |-> g(i)]
  BY DEF CharsOf
<1> HIDE DEF g
<1> QED BY <1>2, <1>3

(* A text whose characters have codes is encoded as a string.              *)
LEMMA TextEncoded ==
  ASSUME NEW v \in 1..8, NEW table \in Seq(Nat), Len(table) <= 97,
         NEW text \in Seq(Nat),
         \A i \in 1..Len(text) : HasCode(v, table, Za!Cut(text[i]))
  PROVE  IsString(Padded(v, table, text), Za!EncodeString(v, table, text))
<1> DEFINE C == CharsOf(v, table, text)
           chars == FlattenSeq(C)
           z == Padded(v, table, text)
<1>1. C \in Seq(Seq(Zchar))
  BY CharsFacts
<1>2. chars \in Seq(Zchar)
  <2> HIDE DEF C
  <2> QED BY <1>1, FlattenFacts
<1>3. z \in Seq(Zchar) /\ Len(z) > 0 /\ Len(z) % 3 = 0
  BY <1>2, FilledFacts DEF Padded
<1>4. Za!EncodeString(v, table, text) = FlattenSeq(WordsOf(z))
  <2> DEFINE flat(s) == Za!FlattenSeq(s)
             y == flat(C) \o [i \in 1..Za!Padding(Len(flat(C))) |-> 5]
  <2>1. flat(C) = chars
    BY SameFlatten
  <2>2. y = z
    BY Zenon, <2>1 DEF Padded, Filled
  <2>3. Za!EncodeString(v, table, text) = flat(WordsOf(y))
    BY DEF Za!EncodeString, WordsOf, WordOf, CharsOf
  <2>4. flat(WordsOf(z)) = FlattenSeq(WordsOf(z))
    BY SameFlatten
  <2> HIDE DEF flat, y, z
  <2> QED BY <2>2, <2>3, <2>4
<1> HIDE DEF z
<1> QED BY <1>3, <1>4 DEF IsString, z

----------------------------------------------------------------------------
(* A line of the source, and what zd reads where it is written.            *)

(* The bytes before the operands are one to three, whatever the operands.  *)
LEMMA OpcodeType ==
  ASSUME NEW v \in 1..8, NEW form, Plain(v, form), NEW args \in Seq(Argument),
         Len(args) = form.args
  PROVE  /\ Za!OpcodeBytes(form.count, form.number, args) \in Seq(Byte)
         /\ Len(Za!OpcodeBytes(form.count, form.number, args)) > 0
<1> DEFINE ops == Za!OpcodeBytes(form.count, form.number, args)
           n == form.number
           t(i) == Za!MakeType(args[i])
           Goal == ops \in Seq(Byte) /\ Len(ops) > 0
<1> SUFFICES Goal
  OBVIOUS
<1>1. \A i \in 1..Len(args) : t(i) \in 0..2
  <2>1. \A i \in 1..Len(args) : args[i] \in Argument
    OBVIOUS
  <2> QED BY <2>1, WrittenFacts
<1>2. Len(args) \in Nat
  OBVIOUS
<1>3. ASSUME form.count = "Zero", n \in 0..13, form.args = 0
      PROVE  Goal
  <2>1. ops = <<176 + n>>
    BY Zenon, <1>3 DEF Za!OpcodeBytes
  <2> HIDE DEF ops, n
  <2>2. 176 + n \in Byte
    BY <1>3 DEF Byte
  <2> QED BY <2>1, <2>2
<1>4. ASSUME form.count = "One", n \in 0..15, form.args = 1
      PROVE  Goal
  <2> DEFINE x == t(1)
             op == 128 + x * 16 + n
  <2>1. ops = <<op>>
    BY Zenon, <1>4 DEF Za!OpcodeBytes
  <2>2. x \in 0..2
    BY <1>1, <1>4
  <2> HIDE DEF ops, n, x
  <2>3. op \in Byte
    BY <1>4, <2>2 DEF Byte
  <2> HIDE DEF op
  <2> QED BY <2>1, <2>3
<1>5. ASSUME form.count = "Two", n \in 0..31, form.args \in 1..4
      PROVE  Goal
  <2> DEFINE short == Len(args) = 2 /\ \A i \in 1..2 : t(i) # 0
  <2>1. CASE short
    <3> DEFINE x == t(1)
               y == t(2)
               op == n + (x - 1) * 64 + (y - 1) * 32
    <3>1. ops = <<op>>
      BY Zenon, <1>5, <2>1 DEF Za!OpcodeBytes, Za!Shortened
    <3>2. x \in 1..2 /\ y \in 1..2
      <4>1. Len(args) = 2 /\ t(1) # 0 /\ t(2) # 0
        BY <2>1
      <4> QED BY <1>1, <4>1
    <3> HIDE DEF ops, n, x, y
    <3>3. op \in Byte
      BY <1>5, <3>2 DEF Byte
    <3> HIDE DEF op
    <3> QED BY <3>1, <3>3
  <2>2. CASE ~short
    <3> DEFINE op == 192 + n
               b == Za!Types(args, 1)
    <3>1. ops = <<op, b>>
      BY Zenon, <1>5, <2>2 DEF Za!OpcodeBytes
    <3>2. b \in Byte
      BY <1>2, <1>5, TypeByteFirst
    <3> HIDE DEF ops, n, b
    <3>3. op \in Byte
      BY <1>5 DEF Byte
    <3> HIDE DEF op
    <3> QED BY <3>1, <3>2, <3>3
  <2> QED BY <2>1, <2>2
<1>6. ASSUME form.count = "Var", n \in (0..31) \ {12, 26}, form.args \in 0..4
      PROVE  Goal
  <2> DEFINE op == 224 + n
             b == Za!Types(args, 1)
  <2>1. ops = <<op, b>>
    BY Zenon, <1>6 DEF Za!OpcodeBytes
  <2>2. b \in Byte
    BY <1>2, <1>6, TypeByteFirst
  <2> HIDE DEF ops, n, b
  <2>3. op \in Byte
    BY <1>6 DEF Byte
  <2> HIDE DEF op
  <2> QED BY <2>1, <2>2, <2>3
<1>7. ASSUME form.count = "VarDouble", n \in {12, 26}, form.args \in 1..8
      PROVE  Goal
  <2> DEFINE op == 224 + n
             b == Za!Types(args, 1)
             d == Za!Types(args, 5)
  <2>1. ops = <<op, b, d>>
    BY Zenon, <1>7 DEF Za!OpcodeBytes
  <2>2. b \in Byte /\ d \in Byte
    BY <1>2, <1>7, TypeBytesBoth
  <2> HIDE DEF ops, n, b, d
  <2>3. op \in Byte
    BY <1>7 DEF Byte
  <2> HIDE DEF op
  <2> QED BY <2>1, <2>2, <2>3
<1>8. ASSUME form.count = "Ext", n \in 0..255, form.args \in 0..4, v >= 5
      PROVE  Goal
  <2> DEFINE op == 190
             d == Za!Types(args, 1)
  <2>1. ops = <<op, n, d>>
    BY Zenon, <1>8 DEF Za!OpcodeBytes
  <2>2. d \in Byte
    BY <1>2, <1>8, TypeByteFirst
  <2> HIDE DEF ops, n, d, op
  <2>3. op \in Byte /\ n \in Byte
    BY <1>8 DEF Byte, op
  <2> QED BY <2>1, <2>2, <2>3
<1> HIDE DEF Goal
<1> QED BY <1>3, <1>4, <1>5, <1>6, <1>7, <1>8 DEF Plain

(* The five parts of a line.                                               *)
OpsOf(i) == Za!OpcodeBytes(i.form.count, i.form.number, i.args)
ArgsOf(i) == FlattenSeq(WrittenArgs(i.args))
BranchOf(i) ==
  IF i.branch = <<>> THEN <<>>
  ELSE <<Za!ReturnByte(i.branch[1], i.branch[2])>>
TextOf(v, table, i) ==
  IF i.text = <<>> THEN <<>> ELSE Za!EncodeString(v, table, i.text[1])

(* A line is five parts, one after the other: opcode and types, operands,  *)
(* branch, text and store.                                                 *)
LEMMA BytesParts ==
  ASSUME NEW v, NEW table, NEW i
  PROVE  Za!Bytes(v, table, i) =
           (((OpsOf(i) \o ArgsOf(i)) \o BranchOf(i)) \o TextOf(v, table, i))
             \o i.store
<1>1. Za!FlattenSeq(WrittenArgs(i.args)) = ArgsOf(i)
  BY SameFlatten DEF ArgsOf
<1> QED BY Zenon, <1>1
        DEF Za!Bytes, OpsOf, BranchOf, TextOf, WrittenArgs

(* What is there of five sequences that are in memory one after another.   *)
PartsAt(c, a, p, q, r, s, t) ==
  /\ WrittenAt(c, a, p)
  /\ WrittenAt(c, a + Len(p), q)
  /\ WrittenAt(c, (a + Len(p)) + Len(q), r)
  /\ WrittenAt(c, ((a + Len(p)) + Len(q)) + Len(r), s)
  /\ WrittenAt(c, (((a + Len(p)) + Len(q)) + Len(r)) + Len(s), t)

LEMMA FiveParts ==
  ASSUME NEW S, NEW p \in Seq(S), NEW q \in Seq(S), NEW r \in Seq(S),
         NEW s \in Seq(S), NEW t \in Seq(S), NEW c, NEW a \in Nat
  PROVE  /\ (((p \o q) \o r) \o s) \o t \in Seq(S)
         /\ Len((((p \o q) \o r) \o s) \o t) =
              (((Len(p) + Len(q)) + Len(r)) + Len(s)) + Len(t)
         /\ WrittenAt(c, a, (((p \o q) \o r) \o s) \o t) =>
              PartsAt(c, a, p, q, r, s, t)
<1> DEFINE u == p \o q
           w == u \o r
           x == w \o s
           y == x \o t
<1>1. u \in Seq(S) /\ Len(u) = Len(p) + Len(q)
  BY ConcatFacts
<1>2. ASSUME WrittenAt(c, a, u)
      PROVE  WrittenAt(c, a, p) /\ WrittenAt(c, a + Len(p), q)
  BY <1>2, WrittenParts
<1> HIDE DEF u
<1>3. w \in Seq(S) /\ Len(w) = Len(u) + Len(r)
  BY <1>1, ConcatFacts
<1>4. ASSUME WrittenAt(c, a, w)
      PROVE  WrittenAt(c, a, u) /\ WrittenAt(c, a + Len(u), r)
  BY <1>1, <1>4, WrittenParts
<1> HIDE DEF w
<1>5. x \in Seq(S) /\ Len(x) = Len(w) + Len(s)
  BY <1>3, ConcatFacts
<1>6. ASSUME WrittenAt(c, a, x)
      PROVE  WrittenAt(c, a, w) /\ WrittenAt(c, a + Len(w), s)
  BY <1>3, <1>6, WrittenParts
<1> HIDE DEF x
<1>7. y \in Seq(S) /\ Len(y) = Len(x) + Len(t)
  BY <1>5, ConcatFacts
<1>8. ASSUME WrittenAt(c, a, y)
      PROVE  WrittenAt(c, a, x) /\ WrittenAt(c, a + Len(x), t)
  BY <1>5, <1>8, WrittenParts
<1> HIDE DEF y
<1> DEFINE l == Len(p)
           m == Len(q)
           n == Len(r)
           k == Len(s)
<1>9. l \in Nat /\ m \in Nat /\ n \in Nat /\ k \in Nat /\ Len(t) \in Nat
  OBVIOUS
<1>10. /\ Len(u) = l + m /\ Len(w) = (l + m) + n
       /\ Len(x) = ((l + m) + n) + k
  BY <1>1, <1>3, <1>5
<1> HIDE DEF l, m, n, k
<1>11. /\ a + Len(u) = (a + l) + m
       /\ a + Len(w) = ((a + l) + m) + n
       /\ a + Len(x) = (((a + l) + m) + n) + k
  BY <1>9, <1>10
<1>12. ASSUME WrittenAt(c, a, y) PROVE PartsAt(c, a, p, q, r, s, t)
  <2>1. WrittenAt(c, a, x) /\ WrittenAt(c, a + Len(x), t)
    BY <1>8, <1>12
  <2>2. WrittenAt(c, a, w) /\ WrittenAt(c, a + Len(w), s)
    BY <1>6, <2>1
  <2>3. WrittenAt(c, a, u) /\ WrittenAt(c, a + Len(u), r)
    BY <1>4, <2>2
  <2>4. WrittenAt(c, a, p) /\ WrittenAt(c, a + l, q)
    BY <1>2, <2>3 DEF l
  <2>5. /\ WrittenAt(c, (a + l) + m, r)
        /\ WrittenAt(c, ((a + l) + m) + n, s)
        /\ WrittenAt(c, (((a + l) + m) + n) + k, t)
    BY Zenon, <1>11, <2>1, <2>2, <2>3
  <2> QED BY <2>4, <2>5 DEF PartsAt, l, m, n, k
<1>13. y \in Seq(S) /\ Len(y) = (((l + m) + n) + k) + Len(t)
  BY <1>7, <1>10
<1>14. y = (((p \o q) \o r) \o s) \o t
  BY DEF y, x, w, u
<1> QED BY <1>12, <1>13, <1>14 DEF l, m, n, k

(* The characters of a line's text have codes.                             *)
Fits(v, table, i) ==
  /\ table \in Seq(Nat) /\ Len(table) <= 97
  /\ i.text # <<>> =>
       \A k \in 1..Len(i.text[1]) : HasCode(v, table, Za!Cut(i.text[1][k]))

(* The types of what a line has.                                           *)
LEMMA LineFacts ==
  ASSUME NEW i \in SourceLine
  PROVE  /\ i.args \in Seq(Argument)
         /\ i.store \in Seq(Byte)
         /\ i.branch = <<>> \/ i.branch \in {0, 1} \X BOOLEAN
         /\ i.text \in Seq(Seq(Nat))
         /\ i.text # <<>> => i.text[1] \in Seq(Nat)
<1>1. /\ i.args \in Seq(Argument)
      /\ i.store \in Seq(Byte)
      /\ i.branch \in {<<>>} \cup {0, 1} \X BOOLEAN
      /\ i.text \in Seq(Seq(Nat))
  BY Zenon DEF SourceLine, Byte
<1>2. i.text # <<>> => i.text[1] \in Seq(Nat)
  <2> DEFINE t == i.text
  <2>1. t \in Seq(Seq(Nat))
    BY <1>1
  <2> HIDE DEF t
  <2>2. t # <<>> => t[1] \in Seq(Nat)
    BY <2>1
  <2> QED BY <2>2 DEF t
<1>3. i.branch = <<>> \/ i.branch \in {0, 1} \X BOOLEAN
  BY Zenon, <1>1
<1> QED BY <1>1, <1>2, <1>3

(* The byte of a branch: whether it is short, what it returns and whether  *)
(* it is inverted.                                                         *)
LEMMA BranchFacts ==
  ASSUME NEW r \in {0, 1}, NEW inv \in BOOLEAN
  PROVE  LET b == Za!ReturnByte(r, inv)
         IN /\ b \in Byte /\ (b \div 64) % 2 = 1 /\ b % 64 = r
            /\ b < 128 <=> inv
<1> DEFINE b == Za!ReturnByte(r, inv)
<1>1. b = (IF inv THEN 64 ELSE 192) + r
  BY DEF Za!ReturnByte
<1> HIDE DEF b
<1>2. CASE inv
  <2>1. b = 64 + r
    BY <1>1, <1>2
  <2>2. b \in Byte /\ (b \div 64) % 2 = 1 /\ b % 64 = r /\ b < 128
    BY <2>1 DEF Byte
  <2> QED BY <1>2, <2>2 DEF b
<1>3. CASE ~inv
  <2>1. b = 192 + r
    BY <1>1, <1>3
  <2>2. b \in Byte /\ (b \div 64) % 2 = 1 /\ b % 64 = r /\ ~(b < 128)
    BY <2>1 DEF Byte
  <2> QED BY <1>3, <2>2 DEF b
<1> QED BY <1>2, <1>3

(* A branch is written as bytes.                                           *)
LEMMA BranchWritten ==
  ASSUME NEW i \in SourceLine
  PROVE  BranchOf(i) \in Seq(Byte)
<1>1. CASE i.branch = <<>>
  BY <1>1 DEF BranchOf
<1>2. CASE i.branch # <<>>
  <2>1. i.branch \in {0, 1} \X BOOLEAN
    BY <1>2, LineFacts
  <2> DEFINE r == i.branch[1]
             inv == i.branch[2]
             b == Za!ReturnByte(r, inv)
  <2>2. r \in {0, 1} /\ inv \in BOOLEAN
    BY <2>1
  <2>3. BranchOf(i) = <<b>>
    BY Zenon, <1>2 DEF BranchOf
  <2> HIDE DEF r, inv
  <2>4. b \in Byte
    BY <2>2, BranchFacts
  <2> HIDE DEF b
  <2> QED BY <2>3, <2>4
<1> QED BY <1>1, <1>2

(* The text of a line is a string in bytes.                                *)
LEMMA TextType ==
  ASSUME NEW v \in 1..8, NEW i \in SourceLine, NEW table, Fits(v, table, i)
  PROVE  /\ TextOf(v, table, i) \in Seq(Byte)
         /\ i.text # <<>> =>
              IsString(Padded(v, table, i.text[1]), TextOf(v, table, i))
<1>1. CASE i.text = <<>>
  BY <1>1 DEF TextOf
<1>2. CASE i.text # <<>>
  <2> DEFINE text == i.text[1]
             z == Padded(v, table, text)
             s == TextOf(v, table, i)
  <2>1. text \in Seq(Nat)
    BY <1>2, LineFacts
  <2>2. /\ table \in Seq(Nat) /\ Len(table) <= 97
        /\ \A k \in 1..Len(text) : HasCode(v, table, Za!Cut(text[k]))
    BY <1>2 DEF Fits
  <2>3. s = Za!EncodeString(v, table, text)
    BY <1>2 DEF TextOf
  <2>4. IsString(z, s)
    <3> HIDE DEF text, z, s
    <3>1. IsString(Padded(v, table, text), Za!EncodeString(v, table, text))
      BY <2>1, <2>2, TextEncoded
    <3> QED BY <2>3, <3>1 DEF z
  <2> HIDE DEF s, z
  <2>5. s \in Seq(Byte)
    BY <2>4, StringType
  <2> QED BY <2>4, <2>5 DEF s, z
<1> QED BY <1>1, <1>2

(* A line is written in bytes, one at least.                               *)
LEMMA BytesType ==
  ASSUME NEW v \in 1..8, NEW i \in SourceLine, Accepted(v, i),
         ~Disagreed(v, i.form), NEW table, Fits(v, table, i)
  PROVE  /\ OpsOf(i) \in Seq(Byte) /\ Len(OpsOf(i)) > 0
         /\ ArgsOf(i) \in Seq(Byte)
         /\ BranchOf(i) \in Seq(Byte)
         /\ TextOf(v, table, i) \in Seq(Byte)
         /\ i.store \in Seq(Byte)
         /\ Za!Bytes(v, table, i) \in Seq(Byte)
         /\ Len(Za!Bytes(v, table, i)) > 0
<1>1. i.args \in Seq(Argument) /\ i.store \in Seq(Byte)
  BY LineFacts
<1>2. Plain(v, i.form) /\ Len(i.args) = i.form.args
  BY FormFacts DEF Accepted
<1>3. OpsOf(i) \in Seq(Byte) /\ Len(OpsOf(i)) > 0
  <2> DEFINE form == i.form
             args == i.args
  <2>1. Plain(v, form) /\ args \in Seq(Argument) /\ Len(args) = form.args
    BY <1>1, <1>2
  <2> HIDE DEF form, args
  <2>2. /\ Za!OpcodeBytes(form.count, form.number, args) \in Seq(Byte)
        /\ Len(Za!OpcodeBytes(form.count, form.number, args)) > 0
    BY <2>1, OpcodeType
  <2> QED BY <2>2 DEF form, args, OpsOf
<1>4. ArgsOf(i) \in Seq(Byte)
  <2> DEFINE args == i.args
  <2>1. args \in Seq(Argument)
    BY <1>1
  <2> HIDE DEF args
  <2>2. FlattenSeq(WrittenArgs(args)) \in Seq(Byte)
    BY <2>1, PlacesExist
  <2> QED BY <2>2 DEF args, ArgsOf
<1>5. BranchOf(i) \in Seq(Byte) /\ TextOf(v, table, i) \in Seq(Byte)
  BY BranchWritten, TextType
<1> DEFINE p == OpsOf(i)
           q == ArgsOf(i)
           r == BranchOf(i)
           s == TextOf(v, table, i)
           t == i.store
<1>6. /\ p \in Seq(Byte) /\ q \in Seq(Byte) /\ r \in Seq(Byte)
      /\ s \in Seq(Byte) /\ t \in Seq(Byte) /\ Len(p) > 0
  BY <1>1, <1>3, <1>4, <1>5
<1>7. Za!Bytes(v, table, i) = (((p \o q) \o r) \o s) \o t
  BY BytesParts
<1> HIDE DEF p, q, r, s, t
<1>8. /\ (((p \o q) \o r) \o s) \o t \in Seq(Byte)
      /\ Len((((p \o q) \o r) \o s) \o t) =
           (((Len(p) + Len(q)) + Len(r)) + Len(s)) + Len(t)
  <2> DEFINE S == Byte
             a == 0
  <2>1. /\ p \in Seq(S) /\ q \in Seq(S) /\ r \in Seq(S)
        /\ s \in Seq(S) /\ t \in Seq(S) /\ a \in Nat
    BY <1>6
  <2> HIDE DEF S, a
  <2>2. /\ (((p \o q) \o r) \o s) \o t \in Seq(S)
        /\ Len((((p \o q) \o r) \o s) \o t) =
             (((Len(p) + Len(q)) + Len(r)) + Len(s)) + Len(t)
    BY <2>1, FiveParts
  <2> QED BY <2>2 DEF S
<1>9. (((Len(p) + Len(q)) + Len(r)) + Len(s)) + Len(t) > 0
  BY <1>6
<1> QED BY <1>6, <1>7, <1>8, <1>9 DEF p, q, r, s, t

(* zd's tables, asked for an instruction of a form za has.                 *)
LEMMA TablesRead ==
  ASSUME NEW v \in 1..8, NEW form, InTables(v, form), NEW c, c.zversion = v,
         NEW s, s.count = CountOf(form), s.number = form.number
  PROVE  /\ Has(Known[OpVersion(c)], s)
         /\ Has(Stores[OpVersion(c)], s) <=> form.store
         /\ IsBranch(c, s) <=> form.branch
         /\ IsPrint(s) <=> form.text
         /\ ~(form.store /\ form.branch)
         /\ form.text => ~form.store /\ ~form.branch
<1>1. OpVersion(c) = IF v > 6 THEN 5 ELSE v
  BY DEF OpVersion
<1> QED BY Zenon, <1>1 DEF InTables, Has, IsBranch, IsPrint

(* One byte in memory.                                                     *)
LEMMA ByteThere ==
  ASSUME NEW c, NEW a \in Nat, NEW b, WrittenAt(c, a, <<b>>)
  PROVE  InMemory(c, a) /\ ByteAt(c, a) = b
<1>1. 1 \in 1..Len(<<b>>) /\ (a + 1) - 1 = a /\ <<b>>[1] = b
  OBVIOUS
<1>2. InMemory(c, (a + 1) - 1) /\ ByteAt(c, (a + 1) - 1) = <<b>>[1]
  BY <1>1 DEF WrittenAt
<1> QED BY <1>1, <1>2

(* What a string of Z-characters decodes to.                               *)
StringText(v, own, z) ==
  LET s == FoldLeft(LAMBDA t, x : Character(t, v, own, x), Fresh, z)
  IN IF s.ok THEN <<s.text>> ELSE <<>>

TextRead(v, table, i, own) ==
  IF i.text = <<>> THEN <<>>
  ELSE StringText(v, own, Padded(v, table, i.text[1]))

(* What follows the operands of a line, read from its shape s.             *)
TailRead(c, s, v, table, i, end) ==
  LET at == StoreEnd(c, s)
  IN /\ End(c, s) = end
     /\ i.store = IF Has(Stores[OpVersion(c)], s)
                    THEN <<ByteAt(c, at - 1)>> ELSE <<>>
     /\ i.branch = IF IsBranch(c, s)
                     THEN <<BranchOffset(c, at), ByteAt(c, at) < 128>> ELSE <<>>
     /\ \A own : TextRead(v, table, i, own) =
                   IF IsPrint(s) THEN DecodeString(c, AfterBranch(c, s), own)
                   ELSE <<>>

(* zd reads what follows the operands as za wrote it, and ends where za    *)
(* did.                                                                    *)
LEMMA TailFacts ==
  ASSUME NEW v \in 1..8, NEW i \in SourceLine, Accepted(v, i),
         InTables(v, i.form), NEW table, Fits(v, table, i),
         NEW c, c.zversion = v, Size(c) \in Nat,
         NEW s, s.count = CountOf(i.form), s.number = i.form.number,
         NEW e \in Nat, OperandsEnd(s) = e,
         WrittenAt(c, e, BranchOf(i)),
         WrittenAt(c, e + Len(BranchOf(i)), TextOf(v, table, i)),
         WrittenAt(c, (e + Len(BranchOf(i))) + Len(TextOf(v, table, i)),
                   i.store)
  PROVE  TailRead(c, s, v, table, i,
                  ((e + Len(BranchOf(i))) + Len(TextOf(v, table, i)))
                    + Len(i.store))
<1> DEFINE br == BranchOf(i)
           tx == TextOf(v, table, i)
           st == i.store
           at == StoreEnd(c, s)
           stores == Has(Stores[OpVersion(c)], s)
           branches == IsBranch(c, s)
           prints == IsPrint(s)
           end == ((e + Len(br)) + Len(tx)) + Len(st)
<1> DEFINE store == IF stores THEN <<ByteAt(c, at - 1)>> ELSE <<>>
           branch == IF branches
                       THEN <<BranchOffset(c, at), ByteAt(c, at) < 128>>
                     ELSE <<>>
           text(own) == IF prints THEN DecodeString(c, AfterBranch(c, s), own)
                        ELSE <<>>
           Goal == /\ End(c, s) = end
                   /\ st = store
                   /\ i.branch = branch
                   /\ \A own : TextRead(v, table, i, own) = text(own)
<1> SUFFICES Goal
  BY Zenon DEF TailRead
<1>1. /\ stores <=> i.form.store
      /\ branches <=> i.form.branch
      /\ prints <=> i.form.text
      /\ ~(stores /\ branches)
      /\ prints => ~stores /\ ~branches
  <2> DEFINE form == i.form
  <2>1. InTables(v, form) /\ s.count = CountOf(form) /\ s.number = form.number
    OBVIOUS
  <2> HIDE DEF form
  <2>2. /\ stores <=> form.store
        /\ branches <=> form.branch
        /\ prints <=> form.text
        /\ ~(form.store /\ form.branch)
        /\ form.text => ~form.store /\ ~form.branch
    BY <2>1, TablesRead
  <2> QED BY <2>2 DEF form
<1>2. /\ Len(st) = IF stores THEN 1 ELSE 0
      /\ i.branch = <<>> <=> ~branches
      /\ Len(i.text) = IF prints THEN 1 ELSE 0
  BY <1>1 DEF Accepted
<1>3. st \in Seq(Byte) /\ i.text \in Seq(Seq(Nat))
  BY LineFacts
<1>4. i.text = <<>> <=> ~prints
  <2> DEFINE t == i.text
  <2>1. t \in Seq(Seq(Nat)) /\ Len(t) = IF prints THEN 1 ELSE 0
    BY <1>2, <1>3
  <2> SUFFICES t = <<>> <=> ~prints
    OBVIOUS
  <2> HIDE DEF t, prints
  <2>2. ASSUME prints PROVE t # <<>>
    <3>1. Len(t) > 0
      BY <2>1, <2>2
    <3> QED BY <3>1
  <2>3. ASSUME ~prints PROVE t = <<>>
    <3>1. Len(t) = 0
      BY <2>1, <2>3
    <3> QED BY <2>1, <3>1
  <2> QED BY Zenon, <2>2, <2>3
<1>5. at = IF stores THEN e + 1 ELSE e
  BY DEF StoreEnd
<1>6. /\ WrittenAt(c, e, br)
      /\ WrittenAt(c, e + Len(br), tx)
      /\ WrittenAt(c, (e + Len(br)) + Len(tx), st)
  OBVIOUS
<1>7. AfterBranch(c, s) = IF branches THEN BranchEnd(c, at) ELSE at
  BY DEF AfterBranch
<1>8. End(c, s) = IF prints THEN StringEnd(c, AfterBranch(c, s))
                  ELSE AfterBranch(c, s)
  BY DEF End
<1>9. ~branches => br = <<>> /\ Len(br) = 0
  BY <1>2 DEF BranchOf
<1>10. ~prints => tx = <<>> /\ Len(tx) = 0
  BY <1>4 DEF TextOf
<1>11. ~stores => st = <<>> /\ Len(st) = 0
  <2> HIDE DEF st, stores
  <2> QED BY <1>2, <1>3
<1>12. ~prints => \A own : TextRead(v, table, i, own) = text(own)
  BY <1>4 DEF TextRead
<1>13. ~branches => i.branch = branch
  BY <1>2
<1>14. ~stores => st = store
  BY <1>11
<1>15. CASE stores
  <2>1. ~branches /\ ~prints
    BY <1>1, <1>15
  <2>2. Len(br) = 0 /\ Len(tx) = 0 /\ Len(st) = 1
    BY <1>2, <1>9, <1>10, <1>15, <2>1
  <2>3. end = e + 1 /\ at = e + 1 /\ at - 1 = e /\ (e + 0) + 0 = e
    BY <1>5, <1>15, <2>2
  <2>4. st = <<st[1]>>
    <3>1. st \in Seq(Byte) /\ Len(st) = 1
      BY <1>3, <2>2
    <3> HIDE DEF st
    <3> QED BY <3>1
  <2> DEFINE b == st[1]
  <2>5. WrittenAt(c, e, <<b>>)
    <3>1. WrittenAt(c, e, st)
      BY <1>6, <2>2, <2>3
    <3> QED BY <2>4, <3>1
  <2>6. ByteAt(c, e) = b
    <3> HIDE DEF b
    <3> QED BY <2>5, ByteThere
  <2>7. st = store
    BY <1>15, <2>3, <2>4, <2>6
  <2>8. End(c, s) = end
    BY <1>7, <1>8, <2>1, <2>3
  <2> QED BY <1>12, <1>13, <2>1, <2>7, <2>8
<1>16. CASE branches
  <2>1. ~stores /\ ~prints
    BY <1>1, <1>16
  <2> DEFINE r == i.branch[1]
             inv == i.branch[2]
             b == Za!ReturnByte(r, inv)
  <2>2. i.branch \in {0, 1} \X BOOLEAN
    BY <1>2, <1>16, LineFacts
  <2>3. r \in {0, 1} /\ inv \in BOOLEAN /\ i.branch = <<r, inv>>
    BY <2>2
  <2>4. br = <<b>>
    BY <1>2, <1>16 DEF BranchOf
  <2>5. Len(br) = 1 /\ Len(tx) = 0 /\ Len(st) = 0
    BY <1>10, <1>11, <2>1, <2>4
  <2>6. end = e + 1 /\ at = e
    BY <1>5, <2>1, <2>5
  <2>7. /\ b \in Byte /\ (b \div 64) % 2 = 1 /\ b % 64 = r
        /\ b < 128 <=> inv
    <3> HIDE DEF r, inv
    <3> QED BY <2>3, BranchFacts
  <2>8. InMemory(c, e) /\ ByteAt(c, e) = b
    <3>1. WrittenAt(c, e, <<b>>)
      BY <1>6, <2>4
    <3> HIDE DEF b
    <3> QED BY <3>1, ByteThere
  <2> HIDE DEF b, r, inv
  <2>9. ShortBranch(c, e)
    BY <2>7, <2>8 DEF ShortBranch
  <2>10. BranchEnd(c, e) = e + 1 /\ BranchOffset(c, e) = r
    BY <2>7, <2>8, <2>9 DEF BranchEnd, BranchOffset
  <2>11. (ByteAt(c, e) < 128) = inv
    <3>1. CASE inv
      <4>1. ByteAt(c, e) < 128
        BY <2>7, <2>8, <3>1
      <4> QED BY Zenon, <2>3, <3>1, <4>1
    <3>2. CASE ~inv
      <4>1. (ByteAt(c, e) < 128) = FALSE
        BY <2>7, <2>8, <3>2
      <4>2. inv = FALSE
        BY Zenon, <2>3, <3>2
      <4> QED BY Zenon, <4>1, <4>2
    <3> QED BY <3>1, <3>2
  <2>12. i.branch = branch
    BY Zenon, <1>16, <2>3, <2>6, <2>10, <2>11
  <2>13. End(c, s) = end
    BY <1>7, <1>8, <1>16, <2>1, <2>6, <2>10
  <2> QED BY <1>12, <1>14, <2>1, <2>12, <2>13
<1>17. CASE prints
  <2>1. ~stores /\ ~branches
    BY <1>1, <1>17
  <2>2. Len(br) = 0 /\ Len(st) = 0 /\ at = e /\ AfterBranch(c, s) = e
    BY <1>5, <1>7, <1>9, <1>11, <2>1
  <2> DEFINE z == Padded(v, table, i.text[1])
  <2>3. IsString(z, tx) /\ tx \in Seq(Byte)
    BY <1>4, <1>17, TextType
  <2>4. WrittenAt(c, e, tx)
    <3>1. e + 0 = e
      OBVIOUS
    <3> QED BY <1>6, <2>2, <3>1
  <2>5. StringEnd(c, e) = e + Len(tx) /\ CharactersAt(c, e) = z
    <3> HIDE DEF z, tx
    <3> QED BY <2>3, <2>4, StringRead
  <2>6. End(c, s) = end
    <3>1. Len(tx) \in Nat
      BY <2>3
    <3> QED BY <1>8, <1>17, <2>2, <2>5, <3>1
  <2>7. ASSUME NEW own PROVE TextRead(v, table, i, own) = text(own)
    <3>1. DecodeString(c, e, own) = StringText(v, own, z)
      BY <2>5 DEF DecodeString, StringText
    <3>2. TextRead(v, table, i, own) = StringText(v, own, z)
      BY <1>4, <1>17 DEF TextRead
    <3> QED BY <1>17, <2>2, <3>1, <3>2
  <2> QED BY <1>13, <1>14, <2>1, <2>6, <2>7
<1>18. CASE ~stores /\ ~branches /\ ~prints
  <2>1. Len(br) = 0 /\ Len(tx) = 0 /\ Len(st) = 0 /\ at = e
    BY <1>5, <1>9, <1>10, <1>11, <1>18
  <2>2. End(c, s) = end
    BY <1>7, <1>8, <1>18, <2>1
  <2> QED BY <1>12, <1>13, <1>14, <1>18, <2>2
<1> QED
  <2> HIDE DEF stores, branches, prints, Goal
  <2> QED BY <1>15, <1>16, <1>17, <1>18

(* An entry of the listing, and what is left of it without the text.       *)
EntryOf(count, number, args, store, branch, text) ==
  [count |-> count, number |-> number, args |-> args, store |-> store,
   branch |-> branch, text |-> text]

(* The fields of an entry of the listing, and of a shape.                  *)
LEMMA EntryFacts ==
  ASSUME NEW count, NEW number, NEW args, NEW store, NEW branch, NEW text
  PROVE  LET l == EntryOf(count, number, args, store, branch, text)
         IN /\ l.text = text
            /\ WithoutText(l) = EntryOf(count, number, args, store, branch, <<>>)
BY DEF EntryOf, WithoutText

LEMMA ShapeFields ==
  ASSUME NEW count, NEW number, NEW types, NEW at
  PROVE  LET s == ShapeOf(count, number, types, at)
         IN /\ s.count = count
            /\ s.number = number
            /\ s.types = types
            /\ s.at = at
BY DEF ShapeOf

(* A line reads back at a: zd finds a whole instruction there, goes on     *)
(* where za did, and lists what the source says.                           *)
ReadsBack(c, a, v, table, i) ==
  /\ Readable(c, a)
  /\ NextAddress(c, a) = a + Len(Za!Bytes(v, table, i))
  /\ \A own :
       /\ WithoutText(Listing(c, a, own)) = WithoutText(Meaning(i))
       /\ Listing(c, a, own).text = TextRead(v, table, i, own)

(* zd reads a line whole, wherever it is written.                          *)
LEMMA LineRead ==
  ASSUME NEW v \in 1..8, NEW i \in SourceLine, Accepted(v, i),
         ~Disagreed(v, i.form), NEW table, Fits(v, table, i),
         NEW c, c.zversion = v, Size(c) \in Nat, NEW a \in Nat,
         WrittenAt(c, a, Za!Bytes(v, table, i))
  PROVE  ReadsBack(c, a, v, table, i)
<1> DEFINE ops == OpsOf(i)
           args == ArgsOf(i)
           br == BranchOf(i)
           tx == TextOf(v, table, i)
           st == i.store
           all == Za!Bytes(v, table, i)
           form == i.form
           s == ShapeOf(CountOf(form), form.number, TypesOf(i.args),
                        a + Len(ops))
           e == (a + Len(ops)) + Len(args)
           end == ((e + Len(br)) + Len(tx)) + Len(st)
<1>1. /\ ops \in Seq(Byte) /\ args \in Seq(Byte) /\ br \in Seq(Byte)
      /\ tx \in Seq(Byte) /\ st \in Seq(Byte)
      /\ all \in Seq(Byte) /\ Len(all) > 0
  BY BytesType
<1>2. all = (((ops \o args) \o br) \o tx) \o st
  BY BytesParts
<1>3. /\ PartsAt(c, a, ops, args, br, tx, st)
      /\ Len(all) = (((Len(ops) + Len(args)) + Len(br)) + Len(tx)) + Len(st)
  <2>1. WrittenAt(c, a, all)
    OBVIOUS
  <2> HIDE DEF ops, args, br, tx, st, all
  <2> QED BY <1>1, <1>2, <2>1, FiveParts
<1>4. Plain(v, form) /\ InTables(v, form) /\ Len(i.args) = form.args
  BY FormFacts DEF Accepted
<1>5. i.args \in Seq(Argument)
  BY LineFacts
<1>6. Shape(c, a) = s
  <2> DEFINE x == i.args
  <2>1. /\ Plain(v, form) /\ x \in Seq(Argument) /\ Len(x) = form.args
        /\ WrittenAt(c, a, Za!OpcodeBytes(form.count, form.number, x))
    BY <1>3, <1>4, <1>5 DEF PartsAt, OpsOf
  <2> SUFFICES Shape(c, a) =
                 ShapeOf(CountOf(form), form.number, TypesOf(x),
                         a + Len(Za!OpcodeBytes(form.count, form.number, x)))
    BY DEF OpsOf
  <2> HIDE DEF form, x
  <2> QED BY <2>1, ShapeFacts
<1>7. /\ s.count = CountOf(form) /\ s.number = form.number
      /\ s.types = TypesOf(i.args) /\ s.at = a + Len(ops)
  BY ShapeFields
<1>8. /\ OperandsEnd(s) = e
      /\ Arguments(c, s) = [n \in 1..Len(i.args) |-> Operand(i.args[n])]
  <2> DEFINE x == i.args
  <2>1. s.at \in Nat
    BY <1>1, <1>7
  <2>2. x \in Seq(Argument) /\ s.types = TypesOf(x)
    BY <1>5, <1>7
  <2>3. args = FlattenSeq(WrittenArgs(x))
    BY DEF ArgsOf
  <2>4. WrittenAt(c, s.at, FlattenSeq(WrittenArgs(x)))
    BY <1>3, <1>7, <2>3 DEF PartsAt
  <2> SUFFICES /\ OperandsEnd(s) = s.at + Len(FlattenSeq(WrittenArgs(x)))
               /\ Arguments(c, s) = [n \in 1..Len(x) |-> Operand(x[n])]
    BY <1>7, <2>3
  <2> HIDE DEF x, s
  <2> QED BY <2>1, <2>2, <2>4, OperandsRead
<1>9. TailRead(c, s, v, table, i, end)
  <2>1. e \in Nat
    BY <1>1
  <2>2. /\ WrittenAt(c, e, br)
        /\ WrittenAt(c, e + Len(br), tx)
        /\ WrittenAt(c, (e + Len(br)) + Len(tx), st)
    BY <1>3 DEF PartsAt
  <2>3. /\ InTables(v, i.form)
        /\ s.count = CountOf(i.form) /\ s.number = i.form.number
    BY <1>4, <1>7
  <2>4. OperandsEnd(s) = e
    BY <1>8
  <2> HIDE DEF s, e
  <2> QED BY <2>1, <2>2, <2>3, <2>4, TailFacts
<1>10. end = a + Len(all) /\ e <= end /\ end <= Size(c)
  <2>1. InMemory(c, (a + Len(all)) - 1)
    <3>1. Len(all) \in 1..Len(all)
      BY <1>1
    <3> QED BY <3>1 DEF WrittenAt
  <2> DEFINE j == Len(all)
             k == Len(ops)
             l == Len(args)
             m == Len(br)
             n == Len(tx)
             o == Len(st)
             z == Size(c)
  <2>2. /\ j \in Nat /\ k \in Nat /\ l \in Nat /\ m \in Nat /\ n \in Nat
        /\ o \in Nat /\ z \in Nat
    BY <1>1
  <2>3. j = (((k + l) + m) + n) + o
    BY <1>3
  <2>4. (a + j) - 1 < z
    BY <2>1 DEF InMemory
  <2> HIDE DEF j, k, l, m, n, o, z
  <2>5. /\ ((((a + k) + l) + m) + n) + o = a + j
        /\ (a + k) + l <= ((((a + k) + l) + m) + n) + o
        /\ ((((a + k) + l) + m) + n) + o <= z
    BY <2>2, <2>3, <2>4
  <2> QED BY <2>5 DEF j, k, l, m, n, o, z
<1>11. End(c, s) = end
  BY <1>9 DEF TailRead
<1>12. Readable(c, a)
  <2>1. Has(Known[OpVersion(c)], s)
    <3> HIDE DEF form, s
    <3> QED BY <1>4, <1>7, TablesRead
  <2>2. OperandsEnd(s) <= Size(c) /\ End(c, s) <= Size(c)
    <3>1. e \in Int /\ end \in Int
      BY <1>1
    <3> HIDE DEF s, e, end
    <3> QED BY <1>8, <1>10, <1>11, <3>1
  <2> HIDE DEF s
  <2> QED BY Zenon, <1>6, <2>1, <2>2 DEF Readable
<1>13. NextAddress(c, a) = a + Len(all)
  <2> HIDE DEF s, end, all
  <2> QED BY Zenon, <1>6, <1>10, <1>11 DEF NextAddress
<1>14. ASSUME NEW own
       PROVE  /\ WithoutText(Listing(c, a, own)) = WithoutText(Meaning(i))
              /\ Listing(c, a, own).text = TextRead(v, table, i, own)
  <2> DEFINE x == [n \in 1..Len(i.args) |-> Operand(i.args[n])]
             y == TextRead(v, table, i, own)
             meant == IF i.text = <<>> THEN <<>> ELSE <<Meant(i.text[1])>>
  <2>1. /\ s.count = CountOf(form) /\ s.number = form.number
        /\ Arguments(c, s) = x /\ Shape(c, a) = s
    BY <1>6, <1>7, <1>8
  <2>2. Listing(c, a, own) =
          EntryOf(CountOf(form), form.number, x, st, i.branch, y)
    <3> HIDE DEF s, x
    <3> QED BY Zenon, <1>9, <2>1 DEF Listing, EntryOf, TailRead
  <2>3. Meaning(i) = EntryOf(CountOf(form), form.number, x, st, i.branch, meant)
    BY Zenon DEF Meaning, EntryOf, CountOf
  <2> DEFINE n == CountOf(form)
             m == form.number
             b == i.branch
  <2>4. /\ Listing(c, a, own) = EntryOf(n, m, x, st, b, y)
        /\ Meaning(i) = EntryOf(n, m, x, st, b, meant)
    BY <2>2, <2>3
  <2> SUFFICES /\ WithoutText(Listing(c, a, own)) = WithoutText(Meaning(i))
               /\ Listing(c, a, own).text = y
    OBVIOUS
  <2> HIDE DEF n, m, x, st, b, y, meant
  <2> QED BY <2>4, EntryFacts
<1> QED BY <1>12, <1>13, <1>14 DEF ReadsBack


(* What zd asks of an instruction by its opcode.                           *)
LEMMA SameOpcode ==
  ASSUME NEW c, NEW s, NEW m, s.count = m.count, s.number = m.number
  PROVE  /\ Has(Returns, s) = Has(Returns, m)
         /\ IsPrintAddr(s) = IsPrintAddr(m) /\ IsPrintPaddr(s) = IsPrintPaddr(m)
         /\ IsJump(s) = IsJump(m)
         /\ CallOperand(c, s) = CallOperand(c, m)
BY DEF Has, IsPrintAddr, IsPrintPaddr, IsJump, CallOperand

(* What zd makes of a line as it walks through the story: it goes on where *)
(* za did, unless control does not; it goes elsewhere, or fails, only over *)
(* an address that the line names.                                         *)
LEMMA LineDecoded ==
  ASSUME NEW v, NEW i \in SourceLine, NEW table, config \in Config,
         config.story, NEW a \in Int, InMemory(config, a),
         ReadsBack(config, a, v, table, i)
  PROVE  LET d == Decode(config, a)
         IN /\ d.status \in {"ok", "fail"}
            /\ d.status = "fail" => Names(i)
            /\ d.status = "ok" =>
                 /\ d.next = a + Len(Za!Bytes(v, table, i))
                 /\ d.returns = Returning(i)
                 /\ d.to # NoAddress => Names(i) \/ Jumps(i)
<1> DEFINE c == config
           s == Shape(c, a)
           m == Meaning(i)
           at == StoreEnd(c, s)
           stores == Has(Stores[OpVersion(c)], s)
           store == IF stores THEN <<ByteAt(c, at - 1)>> ELSE <<>>
           branches == IsBranch(c, s)
           offset == BranchOffset(c, at)
           inverted == ByteAt(c, at) < 128
           branch == IF branches THEN <<offset, inverted>> ELSE <<>>
           args == Arguments(c, s)
           d == Decode(c, a)
<1>1. /\ Readable(c, a)
      /\ NextAddress(c, a) = a + Len(Za!Bytes(v, table, i))
      /\ WithoutText(Listing(c, a, <<>>)) = WithoutText(m)
  BY DEF ReadsBack
<1>2. /\ s.count = m.count /\ s.number = m.number
      /\ args = m.args /\ branch = i.branch
  <2> DEFINE text == IF IsPrint(s) THEN DecodeString(c, AfterBranch(c, s), <<>>)
                     ELSE <<>>
             count == IF i.form.count = "VarDouble" THEN "Var" ELSE i.form.count
             number == i.form.number
             meant == IF i.text = <<>> THEN <<>> ELSE <<Meant(i.text[1])>>
             operands == [n \in 1..Len(i.args) |-> Operand(i.args[n])]
  <2>1. Listing(c, a, <<>>) =
          EntryOf(s.count, s.number, args, store, branch, text)
    BY Zenon DEF Listing, EntryOf
  <2>2. m = EntryOf(count, number, operands, i.store, i.branch, meant)
    BY Zenon DEF Meaning, EntryOf
  <2> HIDE DEF c, s, m, args, store, branch, text, count, number, meant, operands
  <2>3. EntryOf(s.count, s.number, args, store, branch, <<>>) =
          EntryOf(count, number, operands, i.store, i.branch, <<>>)
    <3>1. WithoutText(EntryOf(s.count, s.number, args, store, branch, text)) =
            EntryOf(s.count, s.number, args, store, branch, <<>>)
      BY EntryFacts
    <3>2. WithoutText(EntryOf(count, number, operands, i.store, i.branch, meant)) =
            EntryOf(count, number, operands, i.store, i.branch, <<>>)
      BY EntryFacts
    <3>3. WithoutText(Listing(c, a, <<>>)) = WithoutText(m)
      BY <1>1 DEF c, m
    <3> QED BY Zenon, <2>1, <2>2, <3>1, <3>2, <3>3
  <2>4. /\ s.count = count /\ s.number = number /\ args = operands
        /\ branch = i.branch
    BY SMT, <2>3 DEF EntryOf
  <2>5. m.count = count /\ m.number = number /\ m.args = operands
    BY SMT, <2>2 DEF EntryOf
  <2> QED BY <2>4, <2>5
<1>3. /\ OperandsEnd(s) <= Size(c)
      /\ Has(Known[OpVersion(c)], s)
      /\ End(c, s) <= Size(c)
      /\ End(c, s) = NextAddress(c, a)
  BY <1>1 DEF Readable, NextAddress
<1>4. ~(OperandsEnd(s) > Size(c)) /\ ~(End(c, s) > Size(c))
  <2>1. a \in Nat
    BY DEF InMemory
  <2>2. ShapeOK(s, a)
    BY ShapeType
  <2>3. OperandsEnd(s) \in Int /\ End(c, s) \in Int /\ Size(c) \in Int
    <3> HIDE DEF s
    <3> QED BY <2>1, <2>2, OperandsEndType, StoreEndType, SizeType
  <2> HIDE DEF s
  <2> QED BY <1>3, <2>3
<1>5. /\ Has(Returns, s) = Has(Returns, m)
      /\ IsPrintAddr(s) = IsPrintAddr(m) /\ IsPrintPaddr(s) = IsPrintPaddr(m)
      /\ IsJump(s) = IsJump(m)
      /\ CallOperand(c, s) = CallOperand(c, m)
  <2> HIDE DEF s, m
  <2> QED BY <1>2, SameOpcode
<1>6. ASSUME NEW k, IsConstant(s, k)
      PROVE  k \in 1..Len(m.args) /\ ~m.args[k].variable
  <2>1. k \in 1..Len(s.types) /\ s.types[k] # Variable
    BY <1>6 DEF IsConstant
  <2>2. /\ Len(args) = Len(s.types)
        /\ args[k] = [variable |-> s.types[k] = Variable,
                      value |-> Constant(c, s, k)]
    <3> DEFINE types == s.types
               of(j) == [variable |-> types[j] = Variable,
                         value |-> Constant(c, s, j)]
    <3>1. args = [j \in 1..Len(types) |-> of(j)]
      BY DEF Arguments
    <3>2. Len(types) \in Nat
      <4>1. types \in Seq(Int)
        BY ShapeType DEF ShapeOK
      <4> HIDE DEF types
      <4> QED BY <4>1
    <3> HIDE DEF args, of
    <3> QED
      <4>1. k \in 1..Len(types)
        BY <2>1
      <4> HIDE DEF types
      <4>2. Len(args) = Len(types) /\ args[k] = of(k)
        BY <3>1, <3>2, <4>1
      <4> QED BY <4>2 DEF of, types
  <2>3. args[k].variable = (s.types[k] = Variable)
    <3> HIDE DEF args, s
    <3> QED BY <2>2
  <2> HIDE DEF args, m, s
  <2> QED BY <1>2, <2>1, <2>2, <2>3
<1>7. TextLost(c, s) => Names(i)
  <2> SUFFICES ASSUME TextLost(c, s) PROVE Names(i)
    OBVIOUS
  <2>1. (IsPrintAddr(m) \/ IsPrintPaddr(m)) /\ IsConstant(s, 1)
    BY <1>5 DEF TextLost
  <2> QED BY <1>6, <2>1 DEF Names
<1>8. Calls(c, s) => Names(i)
  <2> SUFFICES ASSUME Calls(c, s) PROVE Names(i)
    OBVIOUS
  <2>1. IsConstant(s, CallOperand(c, m))
    BY <1>5 DEF Calls
  <2> QED BY <1>6, <2>1 DEF Names
<1>9. IsJump(s) /\ IsConstant(s, 1) => Jumps(i)
  <2> SUFFICES ASSUME IsJump(s), IsConstant(s, 1) PROVE Jumps(i)
    OBVIOUS
  <2>1. IsJump(m) /\ 1 \in 1..Len(m.args) /\ ~m.args[1].variable
    BY <1>5, <1>6
  <2>2. m.args = [n \in 1..Len(i.args) |-> Operand(i.args[n])]
    BY DEF Meaning
  <2>3. Len(i.args) \in Nat
    <3>1. i.args \in Seq(Argument)
      BY LineFacts
    <3> DEFINE x == i.args
    <3>2. x \in Seq(Argument)
      BY <3>1
    <3> SUFFICES Len(x) \in Nat
      OBVIOUS
    <3> HIDE DEF x
    <3> QED BY <3>2
  <2>4. m.args[1] = Operand(i.args[1])
    <3> HIDE DEF m
    <3> QED BY <2>1, <2>2, <2>3
  <2>5. Operand(i.args[1]).variable = (i.args[1].kind = "variable")
    BY DEF Operand
  <2> QED BY <2>1, <2>4, <2>5 DEF Jumps
<1>10. branches => offset \in {0, 1}
  <2> SUFFICES ASSUME branches PROVE offset \in {0, 1}
    OBVIOUS
  <2>1. i.branch = <<offset, inverted>>
    BY <1>2
  <2>2. i.branch = <<>> \/ i.branch \in {0, 1} \X BOOLEAN
    BY LineFacts
  <2> HIDE DEF offset, inverted
  <2> QED BY <2>1, <2>2
<1>11. ~Names(i) => Packed(c, s) = 0
  BY <1>8 DEF Packed
<1>12. ~Names(i) /\ ~Jumps(i) => Target(c, s) = NoAddress
  BY <1>9, <1>10, <1>11 DEF Target
<1>13. CASE TextLost(c, s)
  <2>1. d = Ends("fail")
    <3> HIDE DEF s
    <3> QED BY Zenon, <1>3, <1>4, <1>13 DEF Decode, s
  <2> QED BY <1>7, <1>13, <2>1 DEF Ends, Result
<1>14. CASE ~TextLost(c, s)
  <2>1. ~(Calls(c, s) /\ Panics(c))
    BY DEF Panics
  <2>2. d = Instruction(c, s)
    BY Zenon, <1>3, <1>4, <1>14, <2>1 DEF Decode
  <2>3. CASE Packed(c, s) # 0 /\ ~RoutineEntry(c, Packed(c, s)).ok
    <3>1. d = Ends("fail")
      BY Zenon, <2>2, <2>3 DEF Instruction
    <3> QED BY <1>11, <2>3, <3>1 DEF Ends, Result
  <2>4. CASE ~(Packed(c, s) # 0 /\ ~RoutineEntry(c, Packed(c, s)).ok)
    <3> DEFINE routine == IF Packed(c, s) # 0
                            THEN RoutineEntry(c, Packed(c, s)).entry ELSE NoAddress
    <3>1. d = Result("ok", End(c, s), Target(c, s), routine, Has(Returns, s))
      BY Zenon, <2>2, <2>4 DEF Instruction
    <3> HIDE DEF routine, d
    <3>2. /\ d.status = "ok" /\ d.next = End(c, s) /\ d.to = Target(c, s)
          /\ d.returns = Has(Returns, s)
      BY Zenon, <3>1 DEF Result
    <3> QED BY <1>1, <1>3, <1>5, <1>12, <3>2 DEF Returning, d
  <2> QED BY <2>3, <2>4
<1> QED BY <1>13, <1>14

(* From any address zd goes on to a later one.                             *)
LEMMA NextLater ==
  ASSUME NEW c \in Config, NEW a \in Int, Decode(c, a).status = "ok"
  PROVE  Decode(c, a).next \in Int /\ Decode(c, a).next > a
<1> DEFINE s == Shape(c, a)
<1>1. InMemory(c, a) /\ ~(End(c, s) > Size(c)) /\ Decode(c, a) = Instruction(c, s)
  <2>1. \A status \in {"quit", "fail", "panic", "unknown"} :
          Ends(status).status # "ok"
    BY EndsType
  <2> HIDE DEF s
  <2> QED BY <2>1 DEF Decode, s
<1>2. Decode(c, a).next = End(c, s)
  <2>1. Ends("fail").status # "ok"
    BY EndsType
  <2> HIDE DEF s
  <2> QED BY <1>1, <2>1 DEF Instruction, Result
<1>3. a \in Nat /\ ShapeOK(s, a)
  BY <1>1, ShapeType DEF InMemory
<1> HIDE DEF s
<1>4. StoreEnd(c, s) \in Nat /\ AfterBranch(c, s) \in Int /\ End(c, s) \in Int
  BY <1>3, StoreEndType
<1>5. StoreEnd(c, s) > a
  <2>1. OperandsEnd(s) \in Int /\ OperandsEnd(s) > a
    BY <1>3, OperandsEndType DEF ShapeOK
  <2> QED BY <2>1 DEF StoreEnd
<1>6. Size(c) \in Nat /\ a < Size(c)
  BY <1>1, SizeType DEF InMemory
<1>7. AfterBranch(c, s) > a
  <2>1. BranchEnd(c, StoreEnd(c, s)) \in {Size(c) + 1, StoreEnd(c, s) + 1,
                                          StoreEnd(c, s) + 2}
    BY DEF BranchEnd, Beyond
  <2> QED BY <1>4, <1>5, <1>6, <2>1 DEF AfterBranch
<1>8. StringEnd(c, AfterBranch(c, s)) > a
  <2> DEFINE b == AfterBranch(c, s)
             words == (Size(c) - b) \div 2
             inner == {n \in 1..words :
                         \A m \in 1..n : ByteAt(c, b + 2 * (m - 1)) < 128}
  <2>1. inner \in SUBSET (1..words) /\ words \in Int
    BY <1>4, <1>6
  <2>2. StringEnd(c, b) = IF Cardinality(inner) >= words THEN Beyond(c)
                          ELSE b + 2 * (Cardinality(inner) + 1)
    BY DEF StringEnd
  <2> HIDE DEF inner, words
  <2>3. Cardinality(inner) \in Nat
    BY <2>1, CountType
  <2> HIDE DEF b
  <2>4. b \in Int /\ b > a
    BY <1>4, <1>7 DEF b
  <2>5. StringEnd(c, b) > a
    BY <1>6, <2>2, <2>3, <2>4 DEF Beyond
  <2> QED BY <2>5 DEF b
<1> QED BY <1>2, <1>4, <1>7, <1>8 DEF End

----------------------------------------------------------------------------
(* How zd reads a string, from one state of its decoder to the next.       *)

Characters(v, own) ==
  {ZsciiToUnicode(v, own, n) :
     n \in Int \cup {AlphabetTable(v)[k] : k \in Int}}

DecoderState(v, own) ==
  [alphabet : Int, shift : Int, tenbit : Seq(Int),
   text : Seq(Characters(v, own)), ok : BOOLEAN]

(* A state of the decoder is its five fields.                              *)
LEMMA StateFields ==
  ASSUME NEW v, NEW own, NEW s \in DecoderState(v, own)
  PROVE  /\ \A n \in Int : [s EXCEPT !.alphabet = n] \in DecoderState(v, own)
         /\ \A n \in Int : [s EXCEPT !.shift = n] \in DecoderState(v, own)
         /\ \A b \in Seq(Int) :
              [s EXCEPT !.tenbit = b] \in DecoderState(v, own)
         /\ \A x \in Seq(Characters(v, own)) :
              [s EXCEPT !.text = x] \in DecoderState(v, own)
         /\ [s EXCEPT !.ok = FALSE] \in DecoderState(v, own)
<1> DEFINE V == Seq(Characters(v, own))
           I == Seq(Int)
           B == BOOLEAN
           D == [alphabet : Int, shift : Int, tenbit : I, text : V, ok : B]
<1>1. s \in D /\ FALSE \in B
  BY DEF DecoderState
<1> HIDE DEF V, I
<1>2. /\ \A n \in Int : [s EXCEPT !.alphabet = n] \in D
      /\ \A n \in Int : [s EXCEPT !.shift = n] \in D
      /\ \A b \in I : [s EXCEPT !.tenbit = b] \in D
      /\ \A x \in V : [s EXCEPT !.text = x] \in D
  BY <1>1
<1>3. [s EXCEPT !.ok = FALSE] \in D
  BY Zenon, <1>1
<1>4. D = DecoderState(v, own)
  BY DEF DecoderState, I, V
<1> HIDE DEF D
<1> QED BY <1>2, <1>3, <1>4 DEF V, I

(* The first of a sequence.                                                *)
LEMMA FirstType ==
  ASSUME NEW S, NEW b \in Seq(S), b # <<>>
  PROVE  b[1] \in S
OBVIOUS

(* A code that is shown leaves the decoder's types.                        *)
LEMMA ShowType ==
  ASSUME NEW v, NEW own, NEW s \in DecoderState(v, own),
         NEW code \in Int \cup {AlphabetTable(v)[k] : k \in Int}
  PROVE  Show(s, v, own, code) \in DecoderState(v, own)
<1> DEFINE D == DecoderState(v, own)
           V == Characters(v, own)
           x == ZsciiToUnicode(v, own, code)
           text == Append(s.text, x)
           t == [s EXCEPT !.text = text]
<1>1. text \in Seq(V)
  <2>1. x \in V /\ s.text \in Seq(V)
    BY DEF Characters, DecoderState
  <2> HIDE DEF V, x
  <2> QED BY <2>1
<1>2. Show(s, v, own, code) = [t EXCEPT !.shift = 0]
  BY DEF Show
<1> HIDE DEF text
<1>3. t \in D
  <2> HIDE DEF D
  <2> QED BY <1>1, StateFields DEF D
<1> HIDE DEF t
<1>4. 0 \in Int
  OBVIOUS
<1>5. [t EXCEPT !.shift = 0] \in D
  BY Zenon, <1>3, <1>4, StateFields
<1> QED BY <1>2, <1>5

(* The decoder keeps its types.                                            *)
LEMMA CharacterType ==
  ASSUME NEW v \in 1..8, NEW own, NEW s \in DecoderState(v, own),
         NEW z \in Zchar
  PROVE  Character(s, v, own, z) \in DecoderState(v, own)
<1> DEFINE D == DecoderState(v, own)
           codes == Int \cup {AlphabetTable(v)[k] : k \in Int}
<1>1. z \in Int
  BY DEF Zchar
<1>2. \A n \in codes : Show(s, v, own, n) \in D
  BY ShowType
<1>3. \A n \in Int : n \in codes /\ AlphabetTable(v)[n] \in codes
  OBVIOUS
<1>4. /\ s \in D /\ s.alphabet \in Int /\ s.shift \in Int
      /\ s.tenbit \in Seq(Int)
  BY DEF DecoderState
<1>5. ASSUME NEW t \in D
      PROVE  /\ \A n \in Int : [t EXCEPT !.shift = n] \in D
             /\ \A n \in Int : [t EXCEPT !.tenbit = <<n>>] \in D
             /\ [t EXCEPT !.tenbit = <<>>] \in D
             /\ [t EXCEPT !.ok = FALSE] \in D
             /\ \A n \in Int : [t EXCEPT !.alphabet = n] \in D
             /\ t.alphabet \in Int
  <2>1. (\A n \in Int : <<n>> \in Seq(Int)) /\ <<>> \in Seq(Int)
    OBVIOUS
  <2>2. t.alphabet \in Int
    BY DEF DecoderState
  <2> QED BY <2>1, <2>2, StateFields
<1>6. ASSUME NEW t \in D, NEW n \in Int
      PROVE  /\ [t EXCEPT !.alphabet = ((@ + n) - 3) % 3, !.shift = 0] \in D
             /\ [t EXCEPT !.tenbit = <<n>>, !.shift = 0] \in D
  <2> DEFINE a == ((t.alphabet + n) - 3) % 3
             u == [t EXCEPT !.alphabet = a]
             w == [t EXCEPT !.tenbit = <<n>>]
  <2>1. a \in Int
    <3>1. t.alphabet \in Int
      BY <1>5
    <3> QED BY <3>1
  <2> HIDE DEF D, a
  <2>2. u \in D /\ w \in D
    BY <1>5, <2>1
  <2>3. /\ [u EXCEPT !.shift = 0] \in D
        /\ [w EXCEPT !.shift = 0] \in D
    <3>1. 0 \in Int
      OBVIOUS
    <3> HIDE DEF u, w
    <3> QED BY Zenon, <1>5, <2>2, <3>1
  <2> QED BY <2>3 DEF a
<1>7. Control(s, v, own, z) \in D
  <2>1. /\ Show(s, v, own, 32) \in D /\ Show(s, v, own, 13) \in D
    BY <1>2, <1>3
  <2>2. z - 1 \in Int /\ z - 3 \in Int
    BY <1>1
  <2>3. /\ [s EXCEPT !.shift = z - 1] \in D
        /\ [s EXCEPT !.alphabet = ((@ + z) - 3) % 3, !.shift = 0] \in D
        /\ [s EXCEPT !.shift = z - 3] \in D
        /\ [s EXCEPT !.ok = FALSE] \in D
    BY <1>1, <1>4, <1>5, <1>6, <2>2
  <2> HIDE DEF D
  <2> QED BY Zenon, <2>1, <2>3 DEF Control
<1>8. Letter(s, v, own, z) \in D
  <2> DEFINE n == 26 * Row(s) + (z - 5)
  <2>1. n \in Int
    <3>1. Row(s) \in Int
      <4> DEFINE x == s.alphabet
                 y == s.shift
      <4>1. x \in Int /\ y \in Int
        BY <1>4
      <4> HIDE DEF x, y
      <4>2. (x + y) % 3 \in Int
        BY <4>1
      <4> QED BY <4>2 DEF Row, x, y
    <3> QED BY <1>1, <3>1
  <2>2. Show(s, v, own, AlphabetTable(v)[n]) \in D
    <3> HIDE DEF n, codes, D
    <3> QED BY <1>2, <1>3, <2>1
  <2>3. [s EXCEPT !.tenbit = <<-1>>, !.shift = 0] \in D
    <3>1. -1 \in Int
      OBVIOUS
    <3> QED BY Zenon, <1>4, <1>6, <3>1
  <2> HIDE DEF D
  <2> QED BY Zenon, <2>2, <2>3 DEF Letter
<1>9. ASSUME s.tenbit # <<>> PROVE TenBit(s, v, own, z) \in D
  <2> DEFINE n == s.tenbit[1] * 32 + z
             t == Show(s, v, own, n)
  <2>1. n \in Int
    <3> DEFINE b == s.tenbit
    <3>1. b \in Seq(Int) /\ b # <<>>
      BY <1>4, <1>9
    <3> HIDE DEF b
    <3>2. b[1] \in Int
      BY <3>1, FirstType
    <3> QED BY <1>1, <3>2 DEF b
  <2>2. t \in D
    <3> HIDE DEF n, codes, D
    <3> QED BY <1>2, <1>3, <2>1
  <2>3. [s EXCEPT !.tenbit = <<z>>] \in D
    BY <1>1, <1>4, <1>5
  <2>4. [t EXCEPT !.tenbit = <<>>] \in D
    <3> HIDE DEF t, D
    <3> QED BY <1>5, <2>2
  <2> HIDE DEF D
  <2> QED BY Zenon, <2>3, <2>4 DEF TenBit
<1> HIDE DEF D
<1> QED BY Zenon, <1>4, <1>7, <1>8, <1>9 DEF Character, D

(* f has the states of the decoder, one after each Z-character of z.       *)
Decodes(v, own, z, f) ==
  /\ f \in [0..Len(z) -> DecoderState(v, own)]
  /\ f[0] = Fresh
  /\ \A n \in 1..Len(z) : f[n] = Character(f[n - 1], v, own, z[n])
  /\ StringText(v, own, z) = IF f[Len(z)].ok THEN <<f[Len(z)].text>> ELSE <<>>

(* The states of the decoder, from the first Z-character to the last.      *)
LEMMA DecodesExists ==
  ASSUME NEW v \in 1..8, NEW own, NEW z \in Seq(Zchar)
  PROVE  \E f : Decodes(v, own, z, f)
<1> DEFINE T == DecoderState(v, own)
           N == Len(z)
           next(t, x) == Character(t, v, own, x)
           Step == [n \in 1..N |-> [t \in T |-> next(t, z[n])]]
           Is(g) == g = [s \in SUBSET DOMAIN z |->
                           IF s = {} THEN Fresh
                           ELSE next(g[s \ {Max(s)}], z[Max(s)])]
           g == CHOOSE g : Is(g)
           last == FoldLeft(LAMBDA t, x : Character(t, v, own, x), Fresh, z)
<1>1. last = g[DOMAIN z]
  BY Zenon DEF FoldLeft, MapThenFoldSet, Max
<1>2. N \in Nat /\ DOMAIN z = 1..N /\ \A n \in 1..N : z[n] \in Zchar
  OBVIOUS
<1>3. Fresh \in T
  BY DEF DecoderState, Fresh
<1> HIDE DEF next
<1>4. Step \in [1..N -> [T -> T]]
  <2>1. ASSUME NEW n \in 1..N, NEW t \in T PROVE next(t, z[n]) \in T
    BY <1>2, CharacterType DEF next
  <2> HIDE DEF T
  <2> QED BY <2>1
<1> HIDE DEF T
<1>5. PICK h : FoldsTo(T, Fresh, N, Step, h)
  <2> HIDE DEF N, Step
  <2> QED BY <1>2, <1>3, <1>4, FoldExists
<1>6. Is(h)
  <2>1. /\ h \in [SUBSET (1..N) -> T]
        /\ \A s \in SUBSET (1..N) :
             h[s] = IF s = {} THEN Fresh ELSE Step[Max(s)][h[s \ {Max(s)}]]
    BY <1>5 DEF FoldsTo
  <2>2. ASSUME NEW s \in SUBSET (1..N)
        PROVE  h[s] = IF s = {} THEN Fresh
                      ELSE next(h[s \ {Max(s)}], z[Max(s)])
    <3>1. CASE s = {}
      BY <2>1, <3>1
    <3>2. CASE s # {}
      <4>1. Max(s) \in 1..N
        <5>1. Max(s) \in s
          <6> HIDE DEF N
          <6> QED BY <1>2, <3>2, MaxFacts
        <5> QED BY <5>1
      <4>2. h[s \ {Max(s)}] \in T
        <5> HIDE DEF N
        <5> QED BY <2>1
      <4> DEFINE mx == Max(s)
                 t == h[s \ {mx}]
      <4>3. mx \in 1..N /\ t \in T
        BY <4>1, <4>2
      <4>4. h[s] = Step[mx][t]
        BY <2>1, <3>2
      <4> HIDE DEF mx, t, N
      <4>5. Step[mx][t] = next(t, z[mx])
        BY <4>3
      <4>6. h[s] = next(t, z[mx])
        BY <4>4, <4>5
      <4> QED BY <3>2, <4>6 DEF mx, t
    <3> QED BY <3>1, <3>2
  <2> HIDE DEF N
  <2> QED BY <1>2, <2>1, <2>2
<1>7. Is(g)
  <2> HIDE DEF Is
  <2> QED BY <1>6
<1> DEFINE f == [k \in 0..N |-> g[1..k]]
<1>8. ASSUME NEW s \in SUBSET (1..N)
      PROVE  g[s] = IF s = {} THEN Fresh
                    ELSE next(g[s \ {Max(s)}], z[Max(s)])
  <2>1. g = [s_ \in SUBSET (1..N) |->
              IF s_ = {} THEN Fresh
              ELSE next(g[s_ \ {Max(s_)}], z[Max(s_)])]
    <3> HIDE DEF g, N
    <3> QED BY Zenon, <1>2, <1>7
  <2> HIDE DEF g, N
  <2> QED BY Zenon, <2>1
<1> HIDE DEF g
<1>9. f[0] = Fresh
  <2>1. 1..0 = {} /\ 0 \in 0..N
    BY <1>2
  <2>2. f[0] = g[{}]
    BY <2>1
  <2>3. g[{}] = Fresh
    BY <1>8
  <2> QED BY <2>2, <2>3
<1>10. ASSUME NEW n \in 1..N PROVE f[n] = next(f[n - 1], z[n])
  <2> DEFINE k == n - 1
             s == 1..(k + 1)
  <2>1. k \in Nat /\ k + 1 = n /\ k \in 0..N /\ n \in 0..N
    BY <1>2
  <2>2. Max(s) = k + 1 /\ s \ {k + 1} = 1..k /\ s # {}
    <3> HIDE DEF k
    <3> QED BY <2>1, UpToFacts
  <2>3. f[n] = g[s] /\ f[k] = g[1..k]
    <3> HIDE DEF k
    <3> QED BY <2>1
  <2>4. s \in SUBSET (1..N)
    <3> HIDE DEF k
    <3> QED BY <1>2, <2>1
  <2>5. g[s] = IF s = {} THEN Fresh ELSE next(g[s \ {Max(s)}], z[Max(s)])
    <3> HIDE DEF s, N
    <3> QED BY <1>8, <2>4
  <2> HIDE DEF k, s, f
  <2> QED BY Zenon, <2>1, <2>2, <2>3, <2>5 DEF k
<1>11. f[N] = last
  <2>1. N \in 0..N
    BY <1>2
  <2>2. f[N] = g[1..N]
    <3> HIDE DEF N
    <3> QED BY <2>1
  <2> QED BY <1>1, <1>2, <2>2
<1>12. f \in [0..N -> T]
  <2> HIDE DEF f
  <2>1. DOMAIN f = 0..N /\ f = [k \in 0..N |-> f[k]]
    BY DEF f
  <2> DEFINE G == {n \in Nat : n <= N => f[n] \in T}
  <2> HIDE DEF N
  <2>2. 0 \in G
    BY <1>3, <1>9
  <2>3. ASSUME NEW n \in Nat, n \in G PROVE n + 1 \in G
    <3>1. ASSUME n + 1 <= N PROVE f[n + 1] \in T
      <4>1. n + 1 \in 1..N /\ (n + 1) - 1 = n /\ n <= N
        BY <1>2, <3>1
      <4>2. f[n] \in T /\ z[n + 1] \in Zchar
        BY <1>2, <2>3, <4>1
      <4>3. f[n + 1] = next(f[n], z[n + 1])
        BY <1>10, <4>1
      <4>4. next(f[n], z[n + 1]) \in T
        BY <4>2, CharacterType DEF T, next
      <4> QED BY <4>3, <4>4
    <3> QED BY <3>1
  <2>4. \A n \in Nat : n \in G
    <3> HIDE DEF G
    <3> QED BY <2>2, <2>3, Induction
  <2>5. \A n \in 0..N : f[n] \in T
    BY <1>2, <2>4
  <2> QED BY <2>1, <2>5
<1>13. StringText(v, own, z) = IF f[N].ok THEN <<f[N].text>> ELSE <<>>
  <2> HIDE DEF f
  <2> QED BY Zenon, <1>11 DEF StringText
<1>14. Decodes(v, own, z, f)
  <2> HIDE DEF f
  <2> QED BY <1>9, <1>10, <1>12, <1>13 DEF Decodes, T, next
<1> HIDE DEF f
<1> QED BY <1>14

----------------------------------------------------------------------------
(* The two alphabets, and what a code is shown as.                         *)

(* From a place on, u has the first n numbers of s.                        *)
Piece(u, from, s, n) ==
  \A i \in Nat : i >= 1 /\ i <= n => u[from + i] = s[i]

(* The places of a sequence, when its length is known.                     *)
LEMMA SizedPlaces ==
  ASSUME NEW s, NEW n \in Nat, Sized(s, n)
  PROVE  /\ \A i \in 1..Len(s) : i <= n
         /\ \A i \in 0..(Len(s) - 1) : i + 1 <= n
BY DEF Sized

(* The pieces of two sequences are pieces of both together.                *)
LEMMA ConcatPieces ==
  ASSUME NEW s, NEW t, NEW m \in Nat, NEW n \in Nat, Sized(s, m), Sized(t, n)
  PROVE  /\ Sized(s \o t, m + n)
         /\ Piece(s \o t, 0, s, m)
         /\ Piece(s \o t, m, t, n)
         /\ \A w : \A from, k \in Nat :
              Piece(s, from, w, k) /\ from + k <= m =>
                Piece(s \o t, from, w, k)
<1> DEFINE u == s \o t
<1>1. /\ Sized(u, m + n)
      /\ \A i \in 1..m : u[i] = s[i]
      /\ \A i \in 1..n : u[m + i] = t[i]
  <2>1. s \in Seq(Nat) /\ t \in Seq(Nat) /\ Len(s) = m /\ Len(t) = n
    BY DEF Sized
  <2>2. /\ \A i \in 1..Len(s) : u[i] = s[i]
        /\ \A i \in 1..Len(t) : u[Len(s) + i] = t[i]
    BY SMTT(60), <2>1, ConcatFacts
  <2> HIDE DEF u
  <2>3. /\ \A i \in 1..m : u[i] = s[i]
        /\ \A i \in 1..n : u[m + i] = t[i]
    BY <2>1, <2>2
  <2> QED BY <2>3, ConcatSize DEF u
<1> HIDE DEF u
<1>2. Piece(u, 0, s, m) /\ Piece(u, m, t, n)
  BY <1>1 DEF Piece
<1>3. ASSUME NEW w, NEW from \in Nat, NEW k \in Nat, Piece(s, from, w, k),
             from + k <= m
      PROVE  Piece(u, from, w, k)
  <2>1. ASSUME NEW i \in Nat, i >= 1, i <= k PROVE u[from + i] = w[i]
    <3>1. from + i \in 1..m
      BY <1>3, <2>1
    <3> QED BY <1>1, <1>3, <2>1, <3>1 DEF Piece
  <2> QED BY <2>1 DEF Piece
<1> QED BY <1>1, <1>2, <1>3 DEF u

(* What follows the digits in both alphabets, but for < in the first       *)
(* version.                                                                *)
Marks == <<46, 44, 33, 63, 95, 35, 39, 34, 47, 92>>
LastMarks == <<45, 58, 40, 41>>

(* za's alphabet, piece by piece.                                          *)
LEMMA ZaAlphabet ==
  ASSUME NEW v \in 1..8
  PROVE  /\ Piece(Za!Alphabet(v), 0, Za!Run(97, 26), 26)
         /\ Piece(Za!Alphabet(v), 26, Za!Run(65, 26), 26)
         /\ Piece(Za!Alphabet(v), 53, <<94>>, 1)
         /\ Piece(Za!Alphabet(v), 54, Za!Run(48, 10), 10)
         /\ Piece(Za!Alphabet(v), 64, Marks, 10)
         /\ \E n \in Nat : n >= 78 /\ Sized(Za!Alphabet(v), n)
         /\ v # 1 => /\ Piece(Za!Alphabet(v), 74, LastMarks, 4)
                     /\ Sized(Za!Alphabet(v), 78)
<1> DEFINE a == Za!Run(97, 26)
           b == Za!Run(65, 26)
           c == IF v = 1 THEN <<32>> ELSE <<0>>
           d == <<94>>
           e == Za!Run(48, 10)
           f == Marks
           g == IF v = 1 THEN <<60>> ELSE <<>>
           h == LastMarks
<1>1. Sized(a, 26) /\ Sized(b, 26) /\ Sized(e, 10)
  <2> HIDE DEF a, b, e
  <2> QED BY RunSize DEF a, b, e
<1>2. Sized(c, 1) /\ Sized(d, 1) /\ Sized(h, 4)
  BY DEF Sized, LastMarks
<1>3. Sized(f, 10)
  BY DEF Sized, Marks
<1>4. PICK k \in {0, 1} : Sized(g, k) /\ (v # 1 => k = 0)
  <2>1. Sized(g, IF v = 1 THEN 1 ELSE 0)
    BY DEF Sized
  <2> HIDE DEF g
  <2> QED BY <2>1
<1>5. Za!Alphabet(v) = a \o b \o c \o d \o e \o f \o g \o h
  BY Zenon DEF Za!Alphabet, Marks, LastMarks
<1> HIDE DEF a, b, c, d, e, f, g, h
<1> DEFINE s2 == a \o b
           s3 == s2 \o c
           s4 == s3 \o d
           s5 == s4 \o e
           s6 == s5 \o f
           s7 == s6 \o g
           s8 == s7 \o h
<1>6. Sized(s2, 52) /\ Piece(s2, 0, a, 26) /\ Piece(s2, 26, b, 26)
  <2>1. Sized(s2, 26 + 26) /\ Piece(s2, 0, a, 26) /\ Piece(s2, 26, b, 26)
    BY <1>1, ConcatPieces
  <2> HIDE DEF s2
  <2> QED BY <2>1
<1> HIDE DEF s2
<1>7. Sized(s3, 53) /\ Piece(s3, 0, a, 26) /\ Piece(s3, 26, b, 26)
  <2>1. /\ Sized(s3, 52 + 1)
        /\ \A w : \A from, n \in Nat :
             Piece(s2, from, w, n) /\ from + n <= 52 => Piece(s3, from, w, n)
    BY <1>2, <1>6, ConcatPieces
  <2> HIDE DEF s3
  <2> QED BY <1>6, <2>1
<1> HIDE DEF s3
<1>8. /\ Sized(s4, 54) /\ Piece(s4, 0, a, 26) /\ Piece(s4, 26, b, 26)
      /\ Piece(s4, 53, d, 1)
  <2>1. /\ Sized(s4, 53 + 1)
        /\ Piece(s4, 53, d, 1)
        /\ \A w : \A from, n \in Nat :
             Piece(s3, from, w, n) /\ from + n <= 53 => Piece(s4, from, w, n)
    BY <1>2, <1>7, ConcatPieces
  <2> HIDE DEF s4
  <2> QED BY <1>7, <2>1
<1> HIDE DEF s4
<1>9. /\ Sized(s5, 64) /\ Piece(s5, 0, a, 26) /\ Piece(s5, 26, b, 26)
      /\ Piece(s5, 53, d, 1) /\ Piece(s5, 54, e, 10)
  <2>1. /\ Sized(s5, 54 + 10)
        /\ Piece(s5, 54, e, 10)
        /\ \A w : \A from, n \in Nat :
             Piece(s4, from, w, n) /\ from + n <= 54 => Piece(s5, from, w, n)
    BY <1>1, <1>8, ConcatPieces
  <2> HIDE DEF s5
  <2> QED BY <1>8, <2>1
<1> HIDE DEF s5
<1>10. /\ Sized(s6, 74) /\ Piece(s6, 0, a, 26) /\ Piece(s6, 26, b, 26)
       /\ Piece(s6, 53, d, 1) /\ Piece(s6, 54, e, 10) /\ Piece(s6, 64, f, 10)
  <2>1. /\ Sized(s6, 64 + 10)
        /\ Piece(s6, 64, f, 10)
        /\ \A w : \A from, n \in Nat :
             Piece(s5, from, w, n) /\ from + n <= 64 => Piece(s6, from, w, n)
    BY <1>3, <1>9, ConcatPieces
  <2> HIDE DEF s6
  <2> QED BY <1>9, <2>1
<1> HIDE DEF s6
<1>11. /\ Sized(s7, 74 + k) /\ Piece(s7, 0, a, 26) /\ Piece(s7, 26, b, 26)
       /\ Piece(s7, 53, d, 1) /\ Piece(s7, 54, e, 10) /\ Piece(s7, 64, f, 10)
  <2>1. /\ Sized(s7, 74 + k)
        /\ \A w : \A from, n \in Nat :
             Piece(s6, from, w, n) /\ from + n <= 74 => Piece(s7, from, w, n)
    BY ZenonT(60), <1>4, <1>10, ConcatPieces
  <2> HIDE DEF s7
  <2> QED BY <1>10, <2>1
<1> HIDE DEF s7
<1>12. /\ Sized(s8, (74 + k) + 4) /\ Piece(s8, 0, a, 26)
       /\ Piece(s8, 26, b, 26) /\ Piece(s8, 53, d, 1) /\ Piece(s8, 54, e, 10)
       /\ Piece(s8, 64, f, 10) /\ Piece(s8, 74 + k, h, 4)
  <2>1. 74 + k \in Nat /\ 74 <= 74 + k
    BY <1>4
  <2> DEFINE m == 74 + k
  <2>2. /\ Sized(s8, m + 4)
        /\ Piece(s8, m, h, 4)
        /\ \A w : \A from, n \in Nat :
             Piece(s7, from, w, n) /\ from + n <= m => Piece(s8, from, w, n)
    <3> HIDE DEF m
    <3> QED BY <1>2, <1>11, <2>1, ConcatPieces DEF m
  <2> HIDE DEF s8, m
  <2>3. m \in Nat /\ 74 <= m
    BY <2>1 DEF m
  <2> QED BY <1>11, <2>2, <2>3 DEF m
<1>13. v # 1 => 74 + k = 74 /\ (74 + k) + 4 = 78
  BY <1>4
<1>14. Za!Alphabet(v) = s8
  BY <1>5 DEF s8, s7, s6, s5, s4, s3, s2
<1>15. (74 + k) + 4 \in Nat /\ (74 + k) + 4 >= 78
  BY <1>4
<1> HIDE DEF s8
<1> QED BY <1>12, <1>13, <1>14, <1>15 DEF a, b, d, e, f, h

(* zd's alphabet in the later versions, and its first rows in all.         *)
LEMMA ZdAlphabet ==
  ASSUME NEW v \in 1..8
  PROVE  /\ Piece(AlphabetTable(v), 0, Za!Run(97, 26), 26)
         /\ Piece(AlphabetTable(v), 26, Za!Run(65, 26), 26)
         /\ v # 1 => /\ Piece(AlphabetTable(v), 52, <<0, 13>>, 2)
                     /\ Piece(AlphabetTable(v), 54, Za!Run(48, 10), 10)
                     /\ Piece(AlphabetTable(v), 64, Marks, 10)
                     /\ Piece(AlphabetTable(v), 74, LastMarks, 4)
<1> DEFINE a == Za!Run(97, 26)
           b == Za!Run(65, 26)
           c == <<0, 13>>
           e == Za!Run(48, 10)
           y == <<46, 44, 33, 63, 95, 35, 39, 34, 47, 92, 45, 58, 40, 41>>
           s2 == a \o b
           d1 == c \o e
           d2 == d1 \o y
           one == (<<32>> \o Digits) \o
                    <<46, 44, 33, 63, 95, 35, 39, 34, 47, 92, 60, 45, 58, 40,
                      41>>
<1>1. Letters(97) = a /\ Letters(65) = b /\ Digits = e
  <2>1. \A i \in 1..10 : 47 + i = (48 + i) - 1
    OBVIOUS
  <2> QED BY <2>1 DEF Letters, Digits, Za!Run
<1>2. Sized(a, 26) /\ Sized(b, 26) /\ Sized(e, 10)
  <2> HIDE DEF a, b, e
  <2> QED BY RunSize DEF a, b, e
<1>3. Sized(c, 2) /\ Sized(y, 14)
  BY DEF Sized
<1>4. AlphabetTable(v) = IF v = 1 THEN s2 \o one ELSE s2 \o d2
  BY Zenon, <1>1 DEF AlphabetTable
<1>5. Sized(one, 26)
  <2> DEFINE p == <<32>>
             q == <<46, 44, 33, 63, 95, 35, 39, 34, 47, 92, 60, 45, 58, 40, 41>>
  <2>1. Sized(p, 1) /\ Sized(q, 15) /\ Sized(Digits, 10)
    BY <1>1, <1>2 DEF Sized
  <2> HIDE DEF p, q, e
  <2>2. Sized(p \o Digits, 1 + 10)
    BY <2>1, ConcatSize
  <2> DEFINE r == p \o Digits
  <2>3. Sized(r, 11)
    <3> HIDE DEF r
    <3>1. Sized(r, 1 + 10)
      BY <2>2 DEF r
    <3> QED BY <3>1
  <2> HIDE DEF r
  <2>4. Sized(r \o q, 11 + 15)
    BY <2>1, <2>3, ConcatSize
  <2> DEFINE s == r \o q
  <2>5. Sized(s, 26)
    <3> HIDE DEF s
    <3>1. Sized(s, 11 + 15)
      BY <2>4 DEF s
    <3> QED BY <3>1
  <2>6. one = s
    BY DEF s, r, p, q
  <2> HIDE DEF s, one
  <2> QED BY <2>5, <2>6
<1>6. Piece(y, 0, Marks, 10) /\ Piece(y, 10, LastMarks, 4)
  <2>1. ASSUME NEW i \in Nat, i >= 1, i <= 10 PROVE y[0 + i] = Marks[i]
    BY <2>1 DEF Marks
  <2>2. ASSUME NEW i \in Nat, i >= 1, i <= 4 PROVE y[10 + i] = LastMarks[i]
    BY <2>2 DEF LastMarks
  <2> HIDE DEF y
  <2> QED BY <2>1, <2>2 DEF Piece
<1> HIDE DEF a, b, c, e, y, one
<1>7. Sized(s2, 52) /\ Piece(s2, 0, a, 26) /\ Piece(s2, 26, b, 26)
  <2>1. Sized(s2, 26 + 26) /\ Piece(s2, 0, a, 26) /\ Piece(s2, 26, b, 26)
    BY <1>2, ConcatPieces
  <2> HIDE DEF s2
  <2> QED BY <2>1
<1>8. Sized(d1, 12) /\ Piece(d1, 0, c, 2) /\ Piece(d1, 2, e, 10)
  <2>1. Sized(d1, 2 + 10) /\ Piece(d1, 0, c, 2) /\ Piece(d1, 2, e, 10)
    BY <1>2, <1>3, ConcatPieces
  <2> HIDE DEF d1
  <2> QED BY <2>1
<1> HIDE DEF s2, d1
<1>9. /\ Sized(d2, 26) /\ Piece(d2, 0, c, 2) /\ Piece(d2, 2, e, 10)
      /\ Piece(d2, 12, y, 14)
  <2>1. /\ Sized(d2, 12 + 14)
        /\ Piece(d2, 12, y, 14)
        /\ \A w : \A from, n \in Nat :
             Piece(d1, from, w, n) /\ from + n <= 12 => Piece(d2, from, w, n)
    BY <1>3, <1>8, ConcatPieces
  <2> HIDE DEF d2
  <2> QED BY <1>8, <2>1
<1> HIDE DEF d2
<1>10. CASE v = 1
  <2> DEFINE s == s2 \o one
  <2>1. \A w : \A from, n \in Nat :
          Piece(s2, from, w, n) /\ from + n <= 52 => Piece(s, from, w, n)
    BY <1>5, <1>7, ConcatPieces
  <2> HIDE DEF s
  <2>2. Piece(s, 0, a, 26) /\ Piece(s, 26, b, 26)
    BY <1>7, <2>1
  <2>3. AlphabetTable(v) = s
    BY <1>4, <1>10 DEF s
  <2> QED BY <1>10, <2>2, <2>3 DEF a, b
<1>11. CASE v # 1
  <2> DEFINE s == s2 \o d2
  <2>1. /\ Piece(s, 52, d2, 26)
        /\ \A w : \A from, n \in Nat :
             Piece(s2, from, w, n) /\ from + n <= 52 => Piece(s, from, w, n)
    BY <1>7, <1>9, ConcatPieces
  <2> HIDE DEF s
  <2>2. Piece(s, 0, a, 26) /\ Piece(s, 26, b, 26)
    BY <1>7, <2>1
  <2>3. Piece(s, 52, c, 2) /\ Piece(s, 54, e, 10) /\ Piece(s, 64, y, 14)
    <3>1. \A i \in Nat : i >= 1 /\ i <= 26 => s[52 + i] = d2[i]
      BY <2>1 DEF Piece
    <3>2. /\ \A i \in Nat : i >= 1 /\ i <= 2 => d2[0 + i] = c[i]
          /\ \A i \in Nat : i >= 1 /\ i <= 10 => d2[2 + i] = e[i]
          /\ \A i \in Nat : i >= 1 /\ i <= 14 => d2[12 + i] = y[i]
      BY <1>9 DEF Piece
    <3>3. ASSUME NEW i \in Nat, i >= 1, i <= 2 PROVE s[52 + i] = c[i]
      BY <3>1, <3>2, <3>3
    <3>4. ASSUME NEW i \in Nat, i >= 1, i <= 10 PROVE s[54 + i] = e[i]
      <4>1. 2 + i \in Nat /\ 2 + i >= 1 /\ 2 + i <= 26 /\ 52 + (2 + i) = 54 + i
        BY <3>4
      <4> QED BY <3>1, <3>2, <3>4, <4>1
    <3>5. ASSUME NEW i \in Nat, i >= 1, i <= 14 PROVE s[64 + i] = y[i]
      <4>1. /\ 12 + i \in Nat /\ 12 + i >= 1 /\ 12 + i <= 26
            /\ 52 + (12 + i) = 64 + i
        BY <3>5
      <4> QED BY <3>1, <3>2, <3>5, <4>1
    <3> QED BY <3>3, <3>4, <3>5 DEF Piece
  <2>4. Piece(s, 64, Marks, 10) /\ Piece(s, 74, LastMarks, 4)
    <3>1. /\ \A i \in Nat : i >= 1 /\ i <= 14 => s[64 + i] = y[i]
          /\ \A i \in Nat : i >= 1 /\ i <= 10 => y[0 + i] = Marks[i]
          /\ \A i \in Nat : i >= 1 /\ i <= 4 => y[10 + i] = LastMarks[i]
      BY <1>6, <2>3 DEF Piece
    <3>2. ASSUME NEW i \in Nat, i >= 1, i <= 10 PROVE s[64 + i] = Marks[i]
      BY <3>1, <3>2
    <3>3. ASSUME NEW i \in Nat, i >= 1, i <= 4 PROVE s[74 + i] = LastMarks[i]
      <4>1. /\ 10 + i \in Nat /\ 10 + i >= 1 /\ 10 + i <= 14
            /\ 64 + (10 + i) = 74 + i
        BY <3>3
      <4> QED BY <3>1, <3>3, <4>1
    <3> QED BY <3>2, <3>3 DEF Piece
  <2>5. AlphabetTable(v) = s
    BY <1>4, <1>11 DEF s
  <2> QED BY <2>2, <2>3, <2>4, <2>5 DEF a, b, c, e
<1> QED BY <1>10, <1>11

(* The characters that za and zd agree on: no control character, and in    *)
(* the first version none of the third row, where za's alphabet has one    *)
(* more than zd's.                                                         *)
Legible(v, x) ==
  /\ x >= 32
  /\ v = 1 => \A at \in Za!Positions(v, x) : at < 52

(* What zd shows for x: ^ stands for a newline.                            *)
Shown(x) == IF x = 94 THEN Newline ELSE x

(* Where za finds a character, zd has the same one, or a newline for ^.    *)
LEMMA AlphabetsAgree ==
  ASSUME NEW v \in 1..8, NEW x \in Nat, NEW at \in Za!Positions(v, x),
         Legible(v, x)
  PROVE  /\ AlphabetTable(v)[at + 1] = IF x = 94 THEN 13 ELSE x
         /\ x >= 33 /\ x <= 126
<1> DEFINE za == Za!Alphabet(v)
           zd == AlphabetTable(v)
           a == Za!Run(97, 26)
           b == Za!Run(65, 26)
           e == Za!Run(48, 10)
<1>1. at \in 0..(Len(za) - 1) /\ at # 52 /\ za[at + 1] = x
  BY DEF Za!Positions
<1>2. at \in Nat /\ (v = 1 => at < 52)
  BY PositionFacts DEF Legible
<1>3. v # 1 => at <= 77
  <2>1. v # 1 => Sized(za, 78)
    BY ZaAlphabet
  <2> HIDE DEF za
  <2>2. v # 1 => at + 1 <= 78
    BY <1>1, <2>1, SizedPlaces
  <2> QED BY <1>2, <2>2
<1>4. /\ \A i \in Nat : i >= 1 /\ i <= 26 => a[i] = 96 + i /\ b[i] = 64 + i
      /\ \A i \in Nat : i >= 1 /\ i <= 10 => e[i] = 47 + i
  BY DEF Za!Run
<1>5. /\ \A i \in Nat : i >= 1 /\ i <= 26 => za[0 + i] = a[i]
      /\ \A i \in Nat : i >= 1 /\ i <= 26 => za[26 + i] = b[i]
      /\ \A i \in Nat : i >= 1 /\ i <= 1 => za[53 + i] = <<94>>[i]
      /\ \A i \in Nat : i >= 1 /\ i <= 10 => za[54 + i] = e[i]
      /\ \A i \in Nat : i >= 1 /\ i <= 10 => za[64 + i] = Marks[i]
      /\ v # 1 =>
           \A i \in Nat : i >= 1 /\ i <= 4 => za[74 + i] = LastMarks[i]
  BY ZaAlphabet DEF Piece
<1>6. /\ \A i \in Nat : i >= 1 /\ i <= 26 => zd[0 + i] = a[i]
      /\ \A i \in Nat : i >= 1 /\ i <= 26 => zd[26 + i] = b[i]
      /\ v # 1 =>
           /\ \A i \in Nat : i >= 1 /\ i <= 2 => zd[52 + i] = <<0, 13>>[i]
           /\ \A i \in Nat : i >= 1 /\ i <= 10 => zd[54 + i] = e[i]
           /\ \A i \in Nat : i >= 1 /\ i <= 10 => zd[64 + i] = Marks[i]
           /\ \A i \in Nat : i >= 1 /\ i <= 4 => zd[74 + i] = LastMarks[i]
  BY ZdAlphabet DEF Piece
<1> HIDE DEF za, zd, a, b, e
<1> DEFINE k == at + 1
           Goal == /\ zd[k] = IF x = 94 THEN 13 ELSE x
                   /\ x >= 33 /\ x <= 126
<1>7. CASE at < 26
  <2>1. k \in Nat /\ k >= 1 /\ k <= 26 /\ 0 + k = k
    BY <1>2, <1>7
  <2>2. za[k] = 96 + k /\ zd[k] = 96 + k
    BY <1>4, <1>5, <1>6, <2>1
  <2>3. x = 96 + k
    BY <1>1, <2>2
  <2> QED BY <2>1, <2>2, <2>3 DEF zd
<1>8. CASE at >= 26 /\ at < 52
  <2> DEFINE i == k - 26
  <2>1. i \in Nat /\ i >= 1 /\ i <= 26 /\ 26 + i = k
    BY <1>2, <1>8
  <2> HIDE DEF i
  <2>2. za[k] = 64 + i /\ zd[k] = 64 + i
    BY SMTT(60), <1>4, <1>5, <1>6, <2>1
  <2>3. x = 64 + i
    BY <1>1, <2>2
  <2> QED BY <2>1, <2>2, <2>3 DEF zd
<1>9. CASE at = 53
  <2>1. k = 53 + 1 /\ k = 52 + 2 /\ v # 1
    BY <1>2, <1>9
  <2>2. za[53 + 1] = <<94>>[1] /\ zd[52 + 2] = <<0, 13>>[2]
    BY <1>5, <1>6, <2>1
  <2>3. x = 94 /\ zd[k] = 13
    BY <1>1, <2>1, <2>2
  <2> QED BY <2>3 DEF zd
<1>10. CASE at >= 54 /\ at < 64
  <2> DEFINE i == k - 54
  <2>1. i \in Nat /\ i >= 1 /\ i <= 10 /\ 54 + i = k /\ v # 1
    BY <1>2, <1>10
  <2> HIDE DEF i
  <2>2. za[k] = 47 + i /\ zd[k] = 47 + i
    BY <1>4, <1>5, <1>6, <2>1
  <2>3. x = 47 + i
    BY <1>1, <2>2
  <2> QED BY <2>1, <2>2, <2>3 DEF zd
<1>11. CASE at >= 64 /\ at < 74
  <2> DEFINE i == k - 64
  <2>1. i \in Nat /\ i >= 1 /\ i <= 10 /\ 64 + i = k /\ v # 1
    BY <1>2, <1>11
  <2> HIDE DEF i
  <2>2. za[k] = Marks[i] /\ zd[k] = Marks[i]
    BY <1>5, <1>6, <2>1
  <2>3. (Marks[i] >= 33 /\ Marks[i] <= 93) \/ Marks[i] = 95
    BY <2>1 DEF Marks
  <2>4. x = Marks[i]
    BY <1>1, <2>2
  <2> QED BY <2>2, <2>3, <2>4 DEF zd
<1>12. CASE at >= 74 /\ at <= 77
  <2> DEFINE i == k - 74
  <2>1. i \in Nat /\ i >= 1 /\ i <= 4 /\ 74 + i = k /\ v # 1
    BY <1>2, <1>12
  <2> HIDE DEF i
  <2>2. za[k] = LastMarks[i] /\ zd[k] = LastMarks[i]
    BY <1>5, <1>6, <2>1
  <2>3. LastMarks[i] >= 33 /\ LastMarks[i] <= 93
    BY <2>1 DEF LastMarks
  <2>4. x = LastMarks[i]
    BY <1>1, <2>2
  <2> QED BY <2>2, <2>3, <2>4 DEF zd
<1> QED BY <1>1, <1>2, <1>3, <1>7, <1>8, <1>9, <1>10, <1>11, <1>12

(* za writes ^ as zd's newline, in every version.                          *)
LEMMA CircumflexPlace ==
  ASSUME NEW v \in 1..8
  PROVE  53 \in Za!Positions(v, 94)
<1> DEFINE za == Za!Alphabet(v)
<1>1. PICK n \in Nat : n >= 78 /\ Sized(za, n)
  BY ZaAlphabet
<1>2. \A i \in Nat : i >= 1 /\ i <= 1 => za[53 + i] = <<94>>[i]
  BY ZaAlphabet DEF Piece
<1> HIDE DEF za
<1>3. 53 \in 0..(Len(za) - 1)
  BY <1>1 DEF Sized
<1>4. za[53 + 1] = 94
  BY <1>2
<1> QED BY <1>3, <1>4 DEF Za!Positions, za

(* What zd shows for a code.                                               *)
LEMMA CodesShown ==
  ASSUME NEW v \in 1..8, NEW own, NEW code \in Nat
  PROVE  /\ code = 13 => ZsciiToUnicode(v, own, code) = Newline
         /\ code >= 32 /\ code <= 126 => ZsciiToUnicode(v, own, code) = code
         /\ code >= 155 /\ code <= 251 =>
              ZsciiToUnicode(v, own, code) = UnicodeTable(own)[code - 154]
<1>1. ASSUME code = 13 PROVE ZsciiToUnicode(v, own, code) = Newline
  <2>1. /\ ~(code = 0 \/ (v = 6 /\ code \in {9, 11}))
        /\ ~(code \in 32..126) /\ ~(code \in 155..251)
    BY <1>1
  <2> QED BY Zenon, <1>1, <2>1 DEF ZsciiToUnicode
<1>2. ASSUME code >= 32, code <= 126
      PROVE  ZsciiToUnicode(v, own, code) = code
  <2>1. /\ code # 13 /\ ~(code = 0 \/ (v = 6 /\ code \in {9, 11}))
        /\ code \in 32..126 /\ ~(code \in 155..251)
    BY <1>2
  <2> QED BY ZenonT(60), <2>1 DEF ZsciiToUnicode
<1>3. ASSUME code >= 155, code <= 251
      PROVE  ZsciiToUnicode(v, own, code) = UnicodeTable(own)[code - 154]
  <2>1. /\ code # 13 /\ ~(code = 0 \/ (v = 6 /\ code \in {9, 11}))
        /\ ~(code \in 32..126) /\ code \in 155..251
    BY <1>3
  <2> DEFINE p == code = 13
             q == code = 0 \/ (v = 6 /\ code \in {9, 11})
             r == code \in 32..126
             s == code \in 155..251
             x == UnicodeTable(own)[code - 154]
  <2>2. ZsciiToUnicode(v, own, code) =
          CASE p -> Newline [] q -> code [] r -> code [] s -> x
            [] OTHER -> Unreadable
    BY DEF ZsciiToUnicode
  <2>3. ~p /\ ~q /\ ~r /\ s
    BY <2>1
  <2> HIDE DEF p, q, r, s, x
  <2>4. ZsciiToUnicode(v, own, code) = x
    BY Zenon, <2>2, <2>3
  <2> QED BY <2>4 DEF x
<1> QED BY <1>1, <1>2, <1>3

(* The table of the finished story: za's as it was, or grown.              *)
Finished(v, table, own) ==
  /\ own \in Seq(Nat)
  /\ v < 5 => own = <<>>
  /\ v >= 5 => Grown(table, own)

(* A code shows the character that za gave it.                             *)
LEMMA TableShown ==
  ASSUME NEW v \in 1..8, NEW table \in Seq(Nat), NEW own,
         Finished(v, table, own), NEW k \in 1..Len(CodesOf(v, table)), k <= 97
  PROVE  UnicodeTable(own)[k] = CodesOf(v, table)[k]
<1>1. k \in Nat /\ k >= 1
  <2>1. CodesOf(v, table) \in {Za!Latin, table}
    BY Zenon DEF CodesOf
  <2>2. k \in 1..Len(CodesOf(v, table))
    OBVIOUS
  <2> QED BY <2>2
<1>2. UnicodeTable(own)[k] =
        IF k <= Len(own) THEN own[k] ELSE DefaultUnicodeTable[k]
  BY <1>1 DEF UnicodeTable
<1>3. CASE v < 5
  <2> DEFINE zeros == [i \in 1..28 |-> 0]
             l == Za!Latin
             d == DefaultUnicodeTable
  <2>1. d = l \o zeros
    BY Zenon DEF DefaultUnicodeTable, Za!Latin
  <2>2. Sized(l, 69) /\ Sized(zeros, 28)
    BY LatinFacts DEF Sized
  <2>3. CodesOf(v, table) = l /\ Len(own) = 0
    BY <1>3 DEF CodesOf, Finished
  <2> HIDE DEF l, zeros, d
  <2>4. Piece(d, 0, l, 69)
    BY <2>1, <2>2, ConcatPieces
  <2>5. k <= 69
    <3>1. k \in 1..Len(l)
      BY <2>3
    <3> QED BY <2>2, <3>1, SizedPlaces
  <2>6. d[0 + k] = l[k] /\ 0 + k = k
    BY <1>1, <2>4, <2>5 DEF Piece
  <2>7. ~(k <= Len(own))
    BY <1>1, <2>3
  <2> QED BY <1>2, <2>3, <2>6, <2>7 DEF d
<1>4. CASE v >= 5
  <2>1. CodesOf(v, table) = table
    BY <1>4 DEF CodesOf
  <2>2. /\ Grown(table, own) /\ own \in Seq(Nat) /\ k \in 1..Len(table)
    BY <1>4, <2>1 DEF Finished
  <2>3. k <= Len(own) /\ own[k] = table[k]
    BY <2>2 DEF Grown
  <2> QED BY <1>2, <2>1, <2>3
<1> QED BY <1>3, <1>4

(* A character written in full shows as itself.                            *)
LEMMA FullShown ==
  ASSUME NEW v \in 1..8, NEW table \in Seq(Nat), NEW own,
         Finished(v, table, own), NEW x \in Nat, Legible(v, x), NEW z, NEW code,
         InFull(v, table, x, z, code)
  PROVE  ZsciiToUnicode(v, own, code) = Shown(x)
<1>1. code \in Nat /\ x >= 32 /\ Za!Positions(v, x) = {}
  BY DEF InFull, Legible
<1>2. x # 94
  BY <1>1, CircumflexPlace
<1>3. ASSUME x <= 126, code = x PROVE ZsciiToUnicode(v, own, code) = x
  <2>1. code >= 32 /\ code <= 126
    BY <1>1, <1>3
  <2> QED BY <1>1, <1>3, <2>1, CodesShown
<1>4. ASSUME NEW k \in 1..Len(CodesOf(v, table)), k <= 97, code = 154 + k,
             CodesOf(v, table)[k] = x
      PROVE  ZsciiToUnicode(v, own, code) = x
  <2>1. k >= 1 /\ k \in Int
    OBVIOUS
  <2>2. code >= 155 /\ code <= 251 /\ code - 154 = k
    BY <1>4, <2>1
  <2>3. UnicodeTable(own)[k] = x
    BY <1>4, TableShown
  <2> QED BY <1>1, <2>2, <2>3, CodesShown
<1>5. ZsciiToUnicode(v, own, code) = x
  BY <1>3, <1>4 DEF InFull
<1> QED BY <1>2, <1>5 DEF Shown

----------------------------------------------------------------------------
(* The decoder, one Z-character after another.                             *)

(* In the lowest alphabet, with a shift, a ten-bit code and a text.        *)
Sound == TRUE
Decoder(shift, tenbit, text) ==
  [alphabet |-> 0, shift |-> shift, tenbit |-> tenbit, text |-> text,
   ok |-> Sound]

(* Between two characters.                                                 *)
Clear(text) == Decoder(0, <<>>, text)

(* A code is shown, and ends a shift.                                      *)
LEMMA Shows ==
  ASSUME NEW v, NEW own, NEW n, NEW b, NEW t, NEW code
  PROVE  Show(Decoder(n, b, t), v, own, code) =
           Decoder(0, b, Append(t, ZsciiToUnicode(v, own, code)))
<1>1. PICK d : d = Decoder(n, b, t)
  BY Zenon
<1>2. PICK x : x = ZsciiToUnicode(v, own, code)
  BY Zenon
<1>3. PICK u : u = Append(t, x)
  BY Zenon
<1>4. Show(d, v, own, code) = [d EXCEPT !.text = Append(@, x), !.shift = 0]
  BY Zenon, <1>2 DEF Show
<1>5. Append(d.text, x) = u
  <2>1. Decoder(n, b, t).text = t
    BY Zenon DEF Decoder
  <2> QED BY Zenon, <1>1, <1>3, <2>1
<1>6. [d EXCEPT !.text = Append(@, x), !.shift = 0] =
        [[d EXCEPT !.text = Append(@, x)] EXCEPT !.shift = 0]
  BY Zenon
<1>7. [d EXCEPT !.text = Append(@, x)] = [d EXCEPT !.text = u]
  BY <1>5
<1>8. /\ [Decoder(n, b, t) EXCEPT !.text = u] = Decoder(n, b, u)
      /\ [Decoder(n, b, u) EXCEPT !.shift = 0] = Decoder(0, b, u)
  BY DEF Decoder
<1> QED BY Zenon, <1>1, <1>2, <1>3, <1>4, <1>6, <1>7, <1>8

(* The first Z-character is a space.                                       *)
LEMMA SpaceStep ==
  ASSUME NEW v \in 1..8, NEW own, NEW t
  PROVE  Character(Clear(t), v, own, 0) = Clear(Append(t, 32))
<1> DEFINE d == Clear(t)
<1>1. d.ok /\ d.tenbit = <<>>
  BY Zenon DEF Clear, Decoder, Sound
<1>2. /\ 0 < 6 /\ ~(0 = 1 /\ v = 1) /\ ~(0 \in {2, 3} /\ v <= 2)
      /\ ~(0 \in {4, 5} /\ v <= 2) /\ ~(0 \in {4, 5} /\ v > 2)
  OBVIOUS
<1>3. Character(d, v, own, 0) = Control(d, v, own, 0)
  BY Zenon, <1>1, <1>2 DEF Character
<1>4. Control(d, v, own, 0) = Show(d, v, own, 32)
  BY Zenon, <1>2 DEF Control
<1>5. Show(d, v, own, 32) = Clear(Append(t, ZsciiToUnicode(v, own, 32)))
  BY Shows DEF Clear
<1>6. ZsciiToUnicode(v, own, 32) = 32
  BY CodesShown
<1> QED BY <1>3, <1>4, <1>5, <1>6

(* Where the alphabet has the character of a row that z stands for.        *)
PlaceOf(n, z) == 26 * n + (z - 5)

Upper(n, z) == n \in {0, 1, 2} /\ z \in Nat /\ z >= 6 /\ (z # 6 \/ n # 2)

(* A Z-character of a row.                                                 *)
LEMMA LetterStep ==
  ASSUME NEW v, NEW own, NEW t, NEW n, NEW z, Upper(n, z)
  PROVE  Character(Decoder(n, <<>>, t), v, own, z) =
           Clear(Append(t, ZsciiToUnicode(v, own,
                             AlphabetTable(v)[PlaceOf(n, z)])))
<1> DEFINE d == Decoder(n, <<>>, t)
           code == AlphabetTable(v)[PlaceOf(n, z)]
<1>1. d.ok /\ d.tenbit = <<>> /\ d.alphabet = 0 /\ d.shift = n
  BY Zenon DEF Decoder, Sound
<1>2. ~(z < 6) /\ (0 + n) % 3 = n /\ (z # 6 \/ n # 2)
  BY DEF Upper
<1>3. Row(d) = n
  <2> HIDE DEF d
  <2> QED BY <1>1, <1>2 DEF Row
<1>4. Character(d, v, own, z) = Letter(d, v, own, z)
  <2> HIDE DEF d
  <2> QED BY Zenon, <1>1, <1>2 DEF Character
<1>5. Letter(d, v, own, z) = Show(d, v, own, code)
  <2> HIDE DEF d
  <2> QED BY Zenon, <1>2, <1>3 DEF Letter, PlaceOf
<1>6. Show(d, v, own, code) =
        Clear(Append(t, ZsciiToUnicode(v, own, code)))
  BY Shows DEF Clear
<1> QED BY <1>4, <1>5, <1>6

(* A shift to one of the upper rows, for one character.                    *)
LEMMA ShiftStep ==
  ASSUME NEW v \in 1..8, NEW own, NEW t, NEW r \in {1, 2}
  PROVE  Character(Clear(t), v, own, Za!ShiftBase(v) + r) =
           Decoder(r, <<>>, t)
<1> DEFINE d == Clear(t)
           z == Za!ShiftBase(v) + r
<1>1. d.ok /\ d.tenbit = <<>>
  BY Zenon DEF Clear, Decoder, Sound
<1>2. [d EXCEPT !.shift = r] = Decoder(r, <<>>, t)
  BY DEF Clear, Decoder
<1>3. z = IF v <= 2 THEN 1 + r ELSE 3 + r
  BY ShiftFacts
<1> HIDE DEF d, z
<1>4. z < 6
  BY <1>3
<1>5. Character(d, v, own, z) = Control(d, v, own, z)
  BY Zenon, <1>1, <1>4 DEF Character
<1>6. CASE v <= 2
  <2>1. /\ z # 0 /\ ~(z = 1 /\ v = 1) /\ z \in {2, 3} /\ ~(z \in {4, 5})
        /\ z - 1 = r
    BY <1>3, <1>6
  <2>2. Control(d, v, own, z) = [d EXCEPT !.shift = z - 1]
    BY Zenon, <1>6, <2>1 DEF Control
  <2> QED BY <1>2, <1>5, <2>1, <2>2 DEF d, z
<1>7. CASE v > 2
  <2>1. /\ z # 0 /\ ~(z = 1 /\ v = 1) /\ ~(z \in {2, 3}) /\ z \in {4, 5}
        /\ z - 3 = r /\ ~(v <= 2)
    BY <1>3, <1>7
  <2>2. Control(d, v, own, z) = [d EXCEPT !.shift = z - 3]
    BY Zenon, <1>7, <2>1 DEF Control
  <2> QED BY <1>2, <1>5, <2>1, <2>2 DEF d, z
<1> QED BY <1>6, <1>7

(* The Z-character that begins a code of ten bits, and its two halves.     *)
LEMMA EscapeStep ==
  ASSUME NEW v \in 1..8, NEW own, NEW t
  PROVE  Character(Decoder(2, <<>>, t), v, own, 6) = Decoder(0, <<-1>>, t)
<1> DEFINE d == Decoder(2, <<>>, t)
<1>1. d.ok /\ d.tenbit = <<>> /\ d.alphabet = 0 /\ d.shift = 2
  BY Zenon DEF Decoder, Sound
<1>2. [d EXCEPT !.tenbit = <<-1>>, !.shift = 0] = Decoder(0, <<-1>>, t)
  <2>1. PICK m : m = <<-1>>
    BY Zenon
  <2>2. /\ [d EXCEPT !.tenbit = m] = Decoder(2, m, t)
        /\ [Decoder(2, m, t) EXCEPT !.shift = 0] = Decoder(0, m, t)
    BY DEF Decoder
  <2>3. [d EXCEPT !.tenbit = m, !.shift = 0] =
          [[d EXCEPT !.tenbit = m] EXCEPT !.shift = 0]
    BY Zenon
  <2> QED BY Zenon, <2>1, <2>2, <2>3
<1>3. ~(6 < 6) /\ (0 + 2) % 3 = 2
  OBVIOUS
<1> HIDE DEF d
<1>4. Row(d) = 2
  BY <1>1, <1>3 DEF Row
<1>5. Character(d, v, own, 6) = Letter(d, v, own, 6)
  BY Zenon, <1>1, <1>3 DEF Character
<1>6. Letter(d, v, own, 6) = [d EXCEPT !.tenbit = <<-1>>, !.shift = 0]
  BY Zenon, <1>4 DEF Letter
<1> QED BY <1>2, <1>5, <1>6 DEF d

(* The two halves of a code of ten bits.                                   *)
LEMMA HighStep ==
  ASSUME NEW v \in 1..8, NEW own, NEW t, NEW h
  PROVE  Character(Decoder(0, <<-1>>, t), v, own, h) = Decoder(0, <<h>>, t)
<1> DEFINE d == Decoder(0, <<-1>>, t)
<1>1. d.ok /\ d.tenbit = <<-1>>
  BY Zenon DEF Decoder, Sound
<1>2. [d EXCEPT !.tenbit = <<h>>] = Decoder(0, <<h>>, t)
  <2>1. PICK m : m = <<h>>
    BY Zenon
  <2>2. [d EXCEPT !.tenbit = m] = Decoder(0, m, t)
    BY DEF Decoder
  <2> QED BY Zenon, <2>1, <2>2
<1>3. <<-1>> # <<>>
  OBVIOUS
<1> HIDE DEF d
<1>4. Character(d, v, own, h) = TenBit(d, v, own, h)
  BY Zenon, <1>1, <1>3 DEF Character
<1>5. TenBit(d, v, own, h) = [d EXCEPT !.tenbit = <<h>>]
  BY Zenon, <1>1 DEF TenBit
<1> QED BY <1>2, <1>4, <1>5 DEF d

LEMMA LowStep ==
  ASSUME NEW v \in 1..8, NEW own, NEW t, NEW h \in Nat, NEW l
  PROVE  Character(Decoder(0, <<h>>, t), v, own, l) =
           Clear(Append(t, ZsciiToUnicode(v, own, h * 32 + l)))
<1> DEFINE d == Decoder(0, <<h>>, t)
           b == <<h>>
           u == Append(t, ZsciiToUnicode(v, own, h * 32 + l))
           e == Show(d, v, own, h * 32 + l)
<1>1. d.ok /\ d.tenbit = b
  BY Zenon DEF Decoder, Sound
<1>2. e = Decoder(0, b, u)
  BY Shows
<1>3. [Decoder(0, b, u) EXCEPT !.tenbit = <<>>] = Clear(u)
  <2> HIDE DEF b, u
  <2> QED BY DEF Clear, Decoder
<1>4. b # <<>> /\ b # <<-1>> /\ b[1] = h
  OBVIOUS
<1> HIDE DEF d, b, u
<1>5. Character(d, v, own, l) = TenBit(d, v, own, l)
  BY Zenon, <1>1, <1>4 DEF Character
<1>6. TenBit(d, v, own, l) = [e EXCEPT !.tenbit = <<>>]
  BY Zenon, <1>1, <1>4 DEF TenBit
<1> HIDE DEF e
<1>7. Character(d, v, own, l) = Clear(u)
  BY Zenon, <1>2, <1>3, <1>5, <1>6
<1> QED BY <1>7 DEF d, b, u

(* Padding: the text stays as it is.                                       *)
LEMMA PadStep ==
  ASSUME NEW v \in 1..8, NEW own, NEW s \in DecoderState(v, own), s.ok,
         s.tenbit = <<>>
  PROVE  LET u == Character(s, v, own, 5)
         IN u.ok /\ u.tenbit = <<>> /\ u.text = s.text
<1> DEFINE u == Character(s, v, own, 5)
           a == [s EXCEPT !.alphabet = ((@ + 5) - 3) % 3, !.shift = 0]
           b == [s EXCEPT !.shift = 5 - 3]
<1>1. /\ 5 < 6 /\ ~(5 = 0) /\ ~(5 = 1 /\ v = 1) /\ ~(5 \in {2, 3})
      /\ 5 \in {4, 5}
  OBVIOUS
<1>2. u = Control(s, v, own, 5)
  BY Zenon, <1>1 DEF Character
<1>3. (v <= 2 /\ ~(v > 2)) \/ (v > 2 /\ ~(v <= 2))
  OBVIOUS
<1>4. u = a \/ u = b
  BY Zenon, <1>1, <1>2, <1>3 DEF Control
<1>5. /\ a.ok = s.ok /\ a.tenbit = s.tenbit /\ a.text = s.text
      /\ b.ok = s.ok /\ b.tenbit = s.tenbit /\ b.text = s.text
  BY DEF DecoderState
<1> HIDE DEF u, a, b
<1>6. u.ok /\ u.tenbit = <<>> /\ u.text = s.text
  BY Zenon, <1>4, <1>5
<1> QED BY <1>6 DEF u

(* From a place on, f has the states of the decoder while it reads z.      *)
Reads(v, own, f, p, z) ==
  \A j \in 1..Len(z) : f[p + j] = Character(f[p + (j - 1)], v, own, z[j])

(* What one, two and four Z-characters lead to.                            *)
LEMMA OneRead ==
  ASSUME NEW v, NEW own, NEW f, NEW p \in Nat, NEW z, Sized(z, 1),
         Reads(v, own, f, p, z)
  PROVE  f[p + Len(z)] = Character(f[p], v, own, z[1])
<1>1. 1 \in 1..Len(z) /\ p + (1 - 1) = p /\ Len(z) = 1
  BY DEF Sized
<1>2. f[p + 1] = Character(f[p + (1 - 1)], v, own, z[1])
  BY <1>1 DEF Reads
<1> QED BY Zenon, <1>1, <1>2

LEMMA TwoRead ==
  ASSUME NEW v, NEW own, NEW f, NEW p \in Nat, NEW z, Sized(z, 2),
         Reads(v, own, f, p, z)
  PROVE  f[p + Len(z)] =
           Character(Character(f[p], v, own, z[1]), v, own, z[2])
<1>1. /\ 1 \in 1..Len(z) /\ p + (1 - 1) = p
      /\ 2 \in 1..Len(z) /\ 2 - 1 = 1 /\ Len(z) = 2
  BY DEF Sized
<1>2. /\ f[p + 1] = Character(f[p + (1 - 1)], v, own, z[1])
      /\ f[p + 2] = Character(f[p + (2 - 1)], v, own, z[2])
  BY <1>1 DEF Reads
<1> QED BY Zenon, <1>1, <1>2

LEMMA FourLong ==
  ASSUME NEW a \in Nat, NEW b \in Nat, NEW c \in Nat, NEW d \in Nat
  PROVE  /\ Sized(<<a, b, c, d>>, 4)
         /\ <<a, b, c, d>>[1] = a /\ <<a, b, c, d>>[2] = b
         /\ <<a, b, c, d>>[3] = c /\ <<a, b, c, d>>[4] = d
BY DEF Sized

LEMMA FourRead ==
  ASSUME NEW v, NEW own, NEW f, NEW p \in Nat, NEW z, Sized(z, 4),
         Reads(v, own, f, p, z)
  PROVE  f[p + Len(z)] =
           Character(Character(Character(Character(f[p], v, own, z[1]),
                                         v, own, z[2]), v, own, z[3]),
                     v, own, z[4])
<1>1. /\ 1 \in 1..Len(z) /\ p + (1 - 1) = p
      /\ 2 \in 1..Len(z) /\ 2 - 1 = 1
      /\ 3 \in 1..Len(z) /\ 3 - 1 = 2
      /\ 4 \in 1..Len(z) /\ 4 - 1 = 3 /\ Len(z) = 4
  BY DEF Sized
<1>2. /\ f[p + 1] = Character(f[p + (1 - 1)], v, own, z[1])
      /\ f[p + 2] = Character(f[p + (2 - 1)], v, own, z[2])
      /\ f[p + 3] = Character(f[p + (3 - 1)], v, own, z[3])
      /\ f[p + 4] = Character(f[p + (4 - 1)], v, own, z[4])
  BY <1>1 DEF Reads
<1> QED BY Zenon, <1>1, <1>2

(* zd shows the character whose place za has found.                        *)
LEMMA PlaceShown ==
  ASSUME NEW v \in 1..8, NEW own, NEW x \in Nat,
         NEW at \in Za!Positions(v, x), Legible(v, x)
  PROVE  ZsciiToUnicode(v, own, AlphabetTable(v)[at + 1]) = Shown(x)
<1>1. PICK code : code = AlphabetTable(v)[at + 1]
  BY Zenon
<1>2. (code = IF x = 94 THEN 13 ELSE x) /\ x >= 33 /\ x <= 126
  BY <1>1, AlphabetsAgree
<1>3. CASE x = 94
  <2>1. code \in Nat /\ code = 13
    BY <1>2, <1>3
  <2>2. ZsciiToUnicode(v, own, code) = Newline
    BY <2>1, CodesShown
  <2> QED BY Zenon, <1>1, <1>3, <2>2 DEF Shown
<1>4. CASE x # 94
  <2>1. code \in Nat /\ code = x /\ code >= 32 /\ code <= 126
    BY <1>2, <1>4
  <2>2. ZsciiToUnicode(v, own, code) = code
    BY <2>1, CodesShown
  <2> QED BY Zenon, <1>1, <1>4, <2>1, <2>2 DEF Shown
<1> QED BY <1>3, <1>4

(* The row and the column of a place above the first row.                  *)
LEMMA RowFacts ==
  ASSUME NEW v \in 1..8, NEW x \in Nat, NEW at \in Za!Positions(v, x),
         Legible(v, x), at >= 26
  PROVE  /\ at \div 26 \in {1, 2}
         /\ (at % 26) + 6 \in Nat /\ (at % 26) + 6 >= 6
         /\ (at % 26) + 6 # 6 \/ at \div 26 # 2
         /\ 26 * (at \div 26) + (((at % 26) + 6) - 5) = at + 1
<1>1. at \in Nat /\ at # 52 /\ at \in 0..(Len(Za!Alphabet(v)) - 1)
  BY PositionFacts DEF Za!Positions
<1>2. v = 1 => at < 52
  BY DEF Legible
<1>3. at <= 77
  <2>1. v # 1 => Sized(Za!Alphabet(v), 78)
    BY ZaAlphabet
  <2>2. CASE v = 1
    BY <1>1, <1>2, <2>2
  <2>3. CASE v # 1
    <3>1. PICK n : n = Len(Za!Alphabet(v))
      BY Zenon
    <3>2. n = 78
      BY Zenon, <2>1, <2>3, <3>1 DEF Sized
    <3>3. at \in 0..(n - 1)
      BY Zenon, <1>1, <3>1
    <3> QED BY <3>2, <3>3
  <2> QED BY <2>2, <2>3
<1> QED BY <1>1, <1>3

(* A character that za wrote is read as za's source has it, in whichever   *)
(* way it was written.                                                     *)
LEMMA CharacterRead ==
  ASSUME NEW v \in 1..8, NEW table \in Seq(Nat), NEW own,
         Finished(v, table, own), NEW x \in Nat, Legible(v, x), NEW z,
         WaysToWrite(v, table, x, z), NEW f, NEW p \in Nat, NEW t,
         f[p] = Clear(t), Reads(v, own, f, p, z)
  PROVE  f[p + Len(z)] = Clear(Append(t, Shown(x)))
<1> DEFINE e == Za!ShiftBase(v)
<1>1. CASE \E at : InRow(v, x, z, at)
  <2>1. PICK at : InRow(v, x, z, at)
    BY <1>1
  <2>2. at \in Za!Positions(v, x) /\ at \in Nat
    BY <2>1, PositionFacts DEF InRow
  <2>3. ZsciiToUnicode(v, own, AlphabetTable(v)[at + 1]) = Shown(x)
    BY <2>2, PlaceShown
  <2>4. CASE at < 26 /\ z = <<at + 6>>
    <3>1. PICK a : a = at + 6
      BY Zenon
    <3>2. a \in Nat /\ a >= 6
      BY <2>2, <3>1
    <3>3. f[p + Len(z)] = Character(Clear(t), v, own, a)
      <4>1. z = <<a>>
        BY Zenon, <2>4, <3>1
      <4>2. Sized(z, 1) /\ z[1] = a
        BY <3>2, <4>1 DEF Sized
      <4>3. f[p + Len(z)] = Character(f[p], v, own, z[1])
        BY <4>2, OneRead
      <4> QED BY Zenon, <4>2, <4>3
    <3>4. Upper(0, a) /\ PlaceOf(0, a) = at + 1
      BY <2>2, <3>1, <3>2 DEF Upper, PlaceOf
    <3>5. Character(Decoder(0, <<>>, t), v, own, a) =
            Clear(Append(t, ZsciiToUnicode(v, own,
                              AlphabetTable(v)[PlaceOf(0, a)])))
      BY Zenon, <3>4, LetterStep
    <3> QED BY Zenon, <2>3, <3>3, <3>4, <3>5 DEF Clear
  <2>5. CASE at >= 26 /\ z = <<e + at \div 26, (at % 26) + 6>>
    <3>1. PICK r : r = at \div 26
      BY Zenon
    <3>2. PICK a : a = (at % 26) + 6
      BY Zenon
    <3>3. /\ r \in {1, 2} /\ a \in Nat /\ a >= 6 /\ (a # 6 \/ r # 2)
          /\ 26 * r + (a - 5) = at + 1
      BY <2>2, <2>5, <3>1, <3>2, RowFacts
    <3>4. z = <<e + r, a>>
      BY Zenon, <2>5, <3>1, <3>2
    <3>5. f[p + Len(z)] =
            Character(Character(Clear(t), v, own, e + r), v, own, a)
      <4>1. e \in Nat
        BY ShiftFacts
      <4>2. Sized(z, 2) /\ z[1] = e + r /\ z[2] = a
        <5> HIDE DEF e
        <5> QED BY <3>3, <3>4, <4>1 DEF Sized
      <4>3. f[p + Len(z)] =
              Character(Character(f[p], v, own, z[1]), v, own, z[2])
        BY <4>2, TwoRead
      <4> QED BY Zenon, <4>2, <4>3
    <3>6. Character(Clear(t), v, own, e + r) = Decoder(r, <<>>, t)
      BY <3>3, ShiftStep
    <3>7. Upper(r, a) /\ PlaceOf(r, a) = at + 1
      BY <3>3 DEF Upper, PlaceOf
    <3>8. Character(Decoder(r, <<>>, t), v, own, a) =
            Clear(Append(t, ZsciiToUnicode(v, own,
                              AlphabetTable(v)[PlaceOf(r, a)])))
      BY Zenon, <3>7, LetterStep
    <3> QED BY Zenon, <2>3, <3>5, <3>6, <3>7, <3>8
  <2> QED BY Zenon, <2>1, <2>4, <2>5 DEF InRow
<1>2. CASE x = 32 /\ z = <<0>>
  <2>1. f[p + Len(z)] = Character(Clear(t), v, own, 0)
    <3>1. Sized(z, 1) /\ z[1] = 0
      BY <1>2 DEF Sized
    <3>2. f[p + Len(z)] = Character(f[p], v, own, z[1])
      BY <3>1, OneRead
    <3> QED BY Zenon, <3>1, <3>2
  <2>2. Character(Clear(t), v, own, 0) = Clear(Append(t, 32))
    BY SpaceStep
  <2>3. Shown(x) = 32
    BY <1>2 DEF Shown
  <2> QED BY Zenon, <2>1, <2>2, <2>3
<1>3. CASE \E code : InFull(v, table, x, z, code)
  <2>1. PICK code : InFull(v, table, x, z, code)
    BY <1>3
  <2>2. ZsciiToUnicode(v, own, code) = Shown(x)
    BY <2>1, FullShown
  <2>3. code \in Nat /\ z = <<e + 2, 6, code \div 32, code % 32>>
    BY Zenon, <2>1 DEF InFull
  <2>4. PICK h : h = code \div 32
    BY Zenon
  <2>5. PICK l : l = code % 32
    BY Zenon
  <2>6. h \in Nat /\ h * 32 + l = code
    BY <2>3, <2>4, <2>5
  <2>7. z = <<e + 2, 6, h, l>>
    BY Zenon, <2>3, <2>4, <2>5
  <2>8. f[p + Len(z)] =
          Character(Character(Character(Character(Clear(t), v, own, e + 2),
                                        v, own, 6), v, own, h), v, own, l)
    <3>1. e \in Nat /\ h \in Nat /\ l \in Nat
      <4>1. e \in Nat
        BY ShiftFacts
      <4>2. code \in Nat
        BY Zenon, <2>3
      <4>3. h \in Nat /\ l \in Nat
        BY <2>4, <2>5, <4>2
      <4> QED BY <4>1, <4>3
    <3>2. Sized(z, 4) /\ z[1] = e + 2 /\ z[2] = 6 /\ z[3] = h /\ z[4] = l
      <4> HIDE DEF e
      <4>1. e + 2 \in Nat /\ 6 \in Nat
        BY <3>1
      <4>2. PICK a : a = e + 2
        BY Zenon
      <4>3. PICK b : b = 6
        BY Zenon
      <4>4. /\ Sized(<<a, b, h, l>>, 4)
            /\ <<a, b, h, l>>[1] = a /\ <<a, b, h, l>>[2] = b
            /\ <<a, b, h, l>>[3] = h /\ <<a, b, h, l>>[4] = l
        BY Zenon, <3>1, <4>1, <4>2, <4>3, FourLong
      <4> QED BY Zenon, <2>7, <4>2, <4>3, <4>4
    <3>3. f[p + Len(z)] =
            Character(Character(Character(Character(f[p], v, own, z[1]),
                                          v, own, z[2]), v, own, z[3]),
                      v, own, z[4])
      BY <3>2, FourRead
    <3> QED BY Zenon, <3>2, <3>3
  <2>9. Character(Clear(t), v, own, e + 2) = Decoder(2, <<>>, t)
    BY ShiftStep
  <2>10. /\ Character(Decoder(2, <<>>, t), v, own, 6) = Decoder(0, <<-1>>, t)
         /\ Character(Decoder(0, <<-1>>, t), v, own, h) = Decoder(0, <<h>>, t)
    BY EscapeStep, HighStep
  <2>11. Character(Decoder(0, <<h>>, t), v, own, l) =
           Clear(Append(t, ZsciiToUnicode(v, own, h * 32 + l)))
    BY <2>6, LowStep
  <2> QED BY Zenon, <2>2, <2>6, <2>8, <2>9, <2>10, <2>11
<1> QED BY Zenon, <1>1, <1>2, <1>3 DEF WaysToWrite

(* The first n characters of what a text means.                            *)
Upto(text, n) == [i \in 1..n |-> Meant(text)[i]]

(* The characters a text means, one more each time.                        *)
LEMMA MeantFacts ==
  ASSUME NEW text \in Seq(Nat)
  PROVE  /\ Upto(text, 0) = <<>>
         /\ Upto(text, Len(text)) = Meant(text)
         /\ \A n \in Nat : n + 1 <= Len(text) =>
              Append(Upto(text, n), Shown(Za!Cut(text[n + 1]))) =
                Upto(text, n + 1)
<1>1. PICK m : m = Meant(text)
  BY Zenon
<1>2. /\ m = [i \in 1..Len(text) |-> m[i]]
      /\ \A i \in 1..Len(text) : m[i] = Shown(Za!Cut(text[i]))
  <2> DEFINE u == [i \in 1..Len(text) |-> Shown(Za!Cut(text[i]))]
  <2>1. ASSUME NEW c \in Nat
        PROVE  Shown(Za!Cut(c)) = IF c = 94 THEN Newline
                                  ELSE IF c > 65535 THEN 65533 ELSE c
    BY DEF Shown, Za!Cut, Za!Replacement
  <2>2. \A i \in 1..Len(text) : text[i] \in Nat
    OBVIOUS
  <2>3. m = u
    BY <1>1, <2>1, <2>2 DEF Meant
  <2>4. u = [i \in 1..Len(text) |-> u[i]]
    OBVIOUS
  <2>5. \A i \in 1..Len(text) : u[i] = Shown(Za!Cut(text[i]))
    OBVIOUS
  <2> HIDE DEF u
  <2> QED BY <2>3, <2>4, <2>5
<1>3. Upto(text, 0) = <<>>
  BY DEF Upto
<1>4. Upto(text, Len(text)) = m
  BY Zenon, <1>1, <1>2 DEF Upto
<1>5. ASSUME NEW n \in Nat, n + 1 <= Len(text)
      PROVE  Append(Upto(text, n), Shown(Za!Cut(text[n + 1]))) =
               Upto(text, n + 1)
  <2> DEFINE S == {m[i] : i \in Nat}
             u == [i \in 1..n |-> m[i]]
             w == [i \in 1..(n + 1) |-> m[i]]
             x == m[n + 1]
  <2>1. x \in S /\ \A i \in Nat : m[i] \in S
    OBVIOUS
  <2>2. u \in Seq(S) /\ Len(u) = n /\ w \in Seq(S) /\ Len(w) = n + 1
    <3> HIDE DEF S
    <3> QED BY <2>1
  <2>3. /\ \A i \in 1..n : u[i] = m[i]
        /\ \A i \in 1..(n + 1) : w[i] = m[i]
    OBVIOUS
  <2> HIDE DEF S, u, w, x
  <2>4. Append(u, x) \in Seq(S) /\ Len(Append(u, x)) = n + 1
    BY <2>1, <2>2
  <2>5. ASSUME NEW i \in 1..(n + 1) PROVE Append(u, x)[i] = w[i]
    <3>1. CASE i = n + 1
      BY <2>2, <2>3, <3>1 DEF x
    <3>2. CASE i # n + 1
      BY <2>2, <2>3, <3>2
    <3> QED BY <3>1, <3>2
  <2>6. Append(u, x) = w
    BY <2>2, <2>4, <2>5
  <2>7. x = Shown(Za!Cut(text[n + 1]))
    BY <1>2, <1>5 DEF x
  <2> QED BY Zenon, <1>1, <2>6, <2>7 DEF Upto, u, w
<1> QED BY Zenon, <1>1, <1>3, <1>4, <1>5

(* All characters of a text are read as the source has them.               *)
LEMMA CharactersRead ==
  ASSUME NEW v \in 1..8, NEW table \in Seq(Nat), Len(table) <= 97, NEW own,
         Finished(v, table, own), NEW text \in Seq(Nat),
         \A i \in 1..Len(text) : HasCode(v, table, Za!Cut(text[i])),
         \A i \in 1..Len(text) : Legible(v, Za!Cut(text[i])),
         NEW f, Decodes(v, own, Padded(v, table, text), f)
  PROVE  f[Len(FlattenSeq(CharsOf(v, table, text)))] = Clear(Meant(text))
<1> DEFINE C == CharsOf(v, table, text)
           chars == FlattenSeq(C)
           z == Padded(v, table, text)
           N == Len(text)
<1>1. C \in Seq(Seq(Zchar)) /\ Len(C) = N /\ N \in Nat
  <2>1. N \in Nat
    OBVIOUS
  <2>2. CharsOf(v, table, text) \in Seq(Seq(Zchar)) /\
          Len(CharsOf(v, table, text)) = Len(text)
    BY Zenon, CharsFacts
  <2> QED BY Zenon, <2>1, <2>2
<1>2. PICK at : Layout(C, at)
  <2> HIDE DEF C
  <2> QED BY <1>1, FlattenFacts
<1>3. chars \in Seq(Zchar)
  <2> HIDE DEF C
  <2> QED BY <1>1, FlattenFacts
<1>4. /\ Len(z) \in Nat /\ Len(chars) \in Nat /\ Len(chars) <= Len(z)
      /\ \A i \in 1..Len(chars) : z[i] = chars[i]
  <2>1. z = Filled(chars)
    BY DEF Padded
  <2> HIDE DEF chars, z
  <2> QED BY <1>3, <2>1, FilledFacts
<1>5. \A n \in 1..N : C[n] = Za!ZChars(v, table, Za!Cut(text[n]))
  BY DEF CharsOf
<1>6. \A n \in 1..N : text[n] \in Nat
  OBVIOUS
<1>7. /\ f[0] = Fresh
      /\ \A n \in 1..Len(z) : f[n] = Character(f[n - 1], v, own, z[n])
  BY DEF Decodes
<1> HIDE DEF C, chars, z, N
<1>8. /\ at[0] = 0 /\ at[N] = Len(chars) /\ at \in [0..N -> Nat]
      /\ \A n \in 1..N :
           /\ at[n] = at[n - 1] + Len(C[n])
           /\ at[n] <= Len(chars)
           /\ \A j \in 1..Len(C[n]) : chars[at[n - 1] + j] = C[n][j]
  BY <1>1, <1>2 DEF Layout, chars
<1> DEFINE G == {n \in Nat : n <= N => f[at[n]] = Clear(Upto(text, n))}
<1>9. 0 \in G
  <2>1. Fresh = Clear(<<>>)
    BY Zenon DEF Fresh, Clear, Decoder, Sound
  <2>2. f[at[0]] = Clear(Upto(text, 0))
    BY Zenon, <1>7, <1>8, <2>1, MeantFacts
  <2> QED BY <2>2
<1>10. ASSUME NEW n \in Nat, n \in G PROVE n + 1 \in G
  <2> SUFFICES ASSUME n + 1 <= N
               PROVE  f[at[n + 1]] = Clear(Upto(text, n + 1))
    OBVIOUS
  <2>1. PICK m : m = n + 1
    BY Zenon
  <2>2. m \in 1..N /\ m - 1 = n /\ n <= N /\ n \in 0..N
    BY <1>1, <2>1
  <2>3. PICK w : w = C[m]
    BY Zenon
  <2>4. PICK p : p = at[n]
    BY Zenon
  <2>5. PICK x : x = Za!Cut(text[m])
    BY Zenon
  <2>6. f[p] = Clear(Upto(text, n))
    BY <1>10, <2>2, <2>4
  <2>7. /\ at[m] = p + Len(w) /\ at[m] <= Len(chars)
        /\ \A j \in 1..Len(w) : chars[p + j] = w[j]
    <3>1. at[m - 1] = p
      BY Zenon, <2>2, <2>4
    <3>2. at[m] = at[m - 1] + Len(C[m]) /\ at[m] <= Len(chars)
      BY <1>8, <2>2
    <3>3. \A j \in 1..Len(C[m]) : chars[at[m - 1] + j] = C[m][j]
      BY Zenon, <1>8, <2>2
    <3> QED BY Zenon, <2>3, <3>1, <3>2, <3>3
  <2>8. p \in Nat /\ w \in Seq(Zchar) /\ Len(w) \in Nat
    <3>1. p \in Nat
      <4>1. at \in [0..N -> Nat]
        BY <1>8
      <4> QED BY <2>2, <2>4, <4>1
    <3>2. w \in Seq(Zchar)
      <4> DEFINE S == Seq(Zchar)
      <4>1. C \in Seq(S) /\ m \in 1..Len(C)
        BY Zenon, <1>1, <2>2
      <4> HIDE DEF S
      <4>2. w \in S
        BY <2>3, <4>1
      <4> QED BY <4>2 DEF S
    <3>3. Len(w) \in Nat
      BY <3>2
    <3> QED BY <3>1, <3>2, <3>3
  <2>9. x \in Nat /\ Legible(v, x) /\ HasCode(v, table, x)
    BY <1>6, <2>2, <2>5, CutFacts DEF N
  <2>10. WaysToWrite(v, table, x, w)
    <3>1. w = Za!ZChars(v, table, x)
      BY <1>5, <2>2, <2>3, <2>5
    <3> QED BY <2>9, <3>1, ZCharsWays
  <2>11. Reads(v, own, f, p, w)
    <3>1. ASSUME NEW j \in 1..Len(w)
          PROVE  f[p + j] = Character(f[p + (j - 1)], v, own, w[j])
      <4>1. /\ p + j \in 1..Len(z) /\ p + j \in 1..Len(chars)
            /\ (p + j) - 1 = p + (j - 1)
        BY <1>4, <2>7, <2>8
      <4>2. z[p + j] = w[j]
        BY <1>4, <2>7, <4>1
      <4>3. f[p + j] = Character(f[(p + j) - 1], v, own, z[p + j])
        BY <1>7, <4>1
      <4> QED BY Zenon, <4>1, <4>2, <4>3
    <3> QED BY <3>1 DEF Reads
  <2>12. f[p + Len(w)] = Clear(Append(Upto(text, n), Shown(x)))
    BY <2>6, <2>8, <2>9, <2>10, <2>11, CharacterRead
  <2>13. Append(Upto(text, n), Shown(x)) = Upto(text, m)
    BY <2>1, <2>5, MeantFacts DEF N
  <2> QED BY Zenon, <2>1, <2>7, <2>12, <2>13
<1>11. \A n \in Nat : n \in G
  <2> HIDE DEF G
  <2> QED BY <1>9, <1>10, Induction
<1>12. f[at[N]] = Clear(Upto(text, N))
  BY <1>1, <1>11
<1>13. Upto(text, N) = Meant(text)
  BY MeantFacts DEF N
<1> QED BY Zenon, <1>8, <1>12, <1>13 DEF C, chars

(* A text is read as the source has it.                                    *)
LEMMA TextDecoded ==
  ASSUME NEW v \in 1..8, NEW table \in Seq(Nat), Len(table) <= 97, NEW own,
         Finished(v, table, own), NEW text \in Seq(Nat),
         \A i \in 1..Len(text) : HasCode(v, table, Za!Cut(text[i])),
         \A i \in 1..Len(text) : Legible(v, Za!Cut(text[i]))
  PROVE  StringText(v, own, Padded(v, table, text)) = <<Meant(text)>>
<1> DEFINE C == CharsOf(v, table, text)
           chars == FlattenSeq(C)
           z == Padded(v, table, text)
           L == Len(chars)
           M == Len(z)
<1>1. chars \in Seq(Zchar)
  <2>1. C \in Seq(Seq(Zchar))
    BY Zenon, CharsFacts
  <2> HIDE DEF C
  <2> QED BY <2>1, FlattenFacts
<1>2. /\ z \in Seq(Zchar) /\ L \in Nat /\ M \in Nat /\ L <= M
      /\ \A i \in 1..M : i > L => z[i] = 5
  <2>1. z = Filled(chars)
    BY DEF Padded
  <2> HIDE DEF chars, z
  <2>2. Filled(chars) \in Seq(Zchar) /\ Len(chars) <= Len(Filled(chars))
    BY <1>1, FilledFacts
  <2>3. \A i \in 1..Len(Filled(chars)) :
          i > Len(chars) => Filled(chars)[i] = 5
    BY <1>1, FilledFacts
  <2>4. Len(chars) \in Nat /\ Len(Filled(chars)) \in Nat
    BY <1>1, <2>2
  <2> QED BY Zenon, <2>1, <2>2, <2>3, <2>4
<1>3. PICK f : Decodes(v, own, z, f)
  <2> HIDE DEF z
  <2> QED BY <1>2, DecodesExists
<1>4. f[L] = Clear(Meant(text))
  BY Zenon, <1>3, CharactersRead
<1> HIDE DEF C, chars, z, L, M
<1>5. /\ f \in [0..M -> DecoderState(v, own)]
      /\ \A n \in 1..M : f[n] = Character(f[n - 1], v, own, z[n])
      /\ StringText(v, own, z) = IF f[M].ok THEN <<f[M].text>> ELSE <<>>
  BY Zenon, <1>3 DEF Decodes, M
<1> DEFINE Good(s) == s.ok /\ s.tenbit = <<>> /\ s.text = Meant(text)
           G == {k \in Nat : L + k <= M => Good(f[L + k])}
<1>6. 0 \in G
  <2>1. L + 0 = L
    BY <1>2
  <2>2. Good(Clear(Meant(text)))
    BY Zenon DEF Clear, Decoder, Sound
  <2>3. Good(f[L + 0])
    BY Zenon, <1>4, <2>1, <2>2
  <2> HIDE DEF Good
  <2> QED BY <2>3
<1>7. ASSUME NEW k \in Nat, k \in G PROVE k + 1 \in G
  <2> SUFFICES ASSUME L + (k + 1) <= M
               PROVE  Good(f[L + (k + 1)])
    <3> HIDE DEF Good
    <3> QED OBVIOUS
  <2>1. PICK n : n = L + (k + 1)
    BY Zenon
  <2>2. n \in 1..M /\ n > L /\ n - 1 = L + k /\ n - 1 \in 0..M /\ L + k <= M
    BY <1>2, <2>1
  <2>3. PICK s : s = f[n - 1]
    BY Zenon
  <2>4. s \in DecoderState(v, own)
    BY <1>5, <2>2, <2>3
  <2>5. Good(s)
    <3> HIDE DEF Good
    <3> QED BY <1>7, <2>2, <2>3
  <2>6. f[n] = Character(s, v, own, 5)
    <3>1. z[n] = 5
      BY <1>2, <2>2
    <3>2. f[n] = Character(f[n - 1], v, own, z[n])
      BY <1>5, <2>2
    <3> QED BY Zenon, <2>3, <3>1, <3>2
  <2>7. Good(Character(s, v, own, 5))
    BY Zenon, <2>4, <2>5, PadStep
  <2> QED BY Zenon, <2>1, <2>6, <2>7
<1>8. \A k \in Nat : k \in G
  <2> HIDE DEF G
  <2> QED BY <1>6, <1>7, Induction
<1>9. Good(f[M])
  <2>1. M - L \in Nat /\ L + (M - L) = M
    BY <1>2
  <2>2. PICK k \in Nat : k = M - L
    BY <2>1
  <2>3. L + k = M /\ L + k <= M
    BY <1>2, <2>2
  <2> HIDE DEF Good
  <2>4. Good(f[L + k])
    BY <1>8, <2>3
  <2> QED BY Zenon, <2>3, <2>4
<1> QED BY Zenon, <1>5, <1>9 DEF z

(* The texts of a source that za and zd agree on.                          *)
LegibleLine(v, i) ==
  i.text # <<>> =>
    \A k \in 1..Len(i.text[1]) : Legible(v, Za!Cut(i.text[1][k]))

(* What zd reads of a line's text, once the table is complete.             *)
LEMMA TextFacts ==
  ASSUME NEW v \in 1..8, NEW i \in SourceLine, NEW table, Fits(v, table, i),
         LegibleLine(v, i), NEW own, Finished(v, table, own)
  PROVE  TextRead(v, table, i, own) = Meaning(i).text
<1>1. Meaning(i).text = IF i.text = <<>> THEN <<>> ELSE <<Meant(i.text[1])>>
  BY Zenon DEF Meaning
<1>2. CASE i.text = <<>>
  BY Zenon, <1>1, <1>2 DEF TextRead
<1>3. CASE i.text # <<>>
  <2>1. PICK text : text = i.text[1]
    BY Zenon
  <2>2. text \in Seq(Nat)
    BY <1>3, <2>1, LineFacts
  <2>3. /\ table \in Seq(Nat) /\ Len(table) <= 97
        /\ \A k \in 1..Len(text) : HasCode(v, table, Za!Cut(text[k]))
        /\ \A k \in 1..Len(text) : Legible(v, Za!Cut(text[k]))
    BY Zenon, <1>3, <2>1 DEF Fits, LegibleLine
  <2>4. StringText(v, own, Padded(v, table, text)) = <<Meant(text)>>
    BY <2>2, <2>3, TextDecoded
  <2> QED BY Zenon, <1>1, <1>3, <2>1, <2>4 DEF TextRead
<1> QED BY <1>2, <1>3

----------------------------------------------------------------------------
(* What za has written.                                                    *)

(* The story's memory, as far as it is written while za assembles.         *)
Draft ==
  [zversion |-> Version, story |-> TRUE, code |-> source.before \o bytes]

(* Line n was written with this table, and is there.                       *)
WrittenWith(n, table) ==
  LET all == Za!Bytes(Version, table, Line(n))
  IN /\ Fits(Version, table, Line(n))
     /\ Grown(table, unicode_table)
     /\ WrittenAt(Draft, Start(n - 1), all)
     /\ Start(n) = Start(n - 1) + Len(all)

(* Each line so far is there as it was written; before V5 za has no table  *)
(* of its own.                                                             *)
WrittenInv ==
  /\ bytes \in Seq(Byte)
  /\ ends \in Seq(Nat)
  /\ Len(ends) <= Len(source.lines)
  /\ Start(Len(ends)) = CodeStart + Len(bytes)
  /\ unicode_table \in Seq(Words16)
  /\ Len(unicode_table) <= 97
  /\ Version < 5 => unicode_table = <<>>
  /\ \A n \in 1..Len(ends) : \E table : WrittenWith(n, table)

FileInv ==
  /\ source \in Sources
  /\ za_phase \in {"assembling", "failed", "done"}
  /\ za_phase # "failed" => WrittenInv
  /\ za_phase # "done" => config = <<>> /\ Idle
  /\ za_phase = "done" =>
       config = Story /\ ~TooLong /\ Len(ends) = Len(source.lines)

(* za and zd agree about every line that za may be given.                  *)
Agreed ==
  \A s \in Sources :
    \A n \in 1..Len(s.lines) : ~Disagreed(s.version, s.lines[n].form)

(* What a source is, what comes before its lines, and each line.           *)
LEMMA SourceType ==
  ASSUME NEW s \in Sources
  PROVE  /\ s.version \in 1..8
         /\ Preceding(s.version, s.before)
         /\ Len(s.lines) \in Nat
<1>1. /\ s.lines \in Seq(SourceLine) /\ s.version \in 1..8
      /\ Preceding(s.version, s.before)
  BY SourcesAssumption
<1>2. Len(s.lines) \in Nat
  <2> DEFINE l == s.lines
  <2>1. l \in Seq(SourceLine)
    BY <1>1
  <2> SUFFICES Len(l) \in Nat
    OBVIOUS
  <2> HIDE DEF l
  <2> QED BY <2>1
<1> QED BY <1>1, <1>2

LEMMA PrecedingFacts ==
  ASSUME NEW v, NEW b, Preceding(v, b)
  PROVE  /\ b \in Seq(Byte) /\ Len(b) \in Nat /\ 64 + Len(b) <= 65535
         /\ v >= 5 => Len(b) >= 8 /\ \A k \in 1..8 : b[k] = Extension[k]
         /\ v = 6 => Len(b) % 4 = 1
<1>1. /\ b \in Seq(Byte) /\ 64 + Len(b) <= 65535
      /\ v >= 5 => Len(b) >= 8 /\ \A k \in 1..8 : b[k] = Extension[k]
      /\ v = 6 => Len(b) % 4 = 1
  BY SMT DEF Preceding, Byte
<1>2. Len(b) \in Nat
  BY <1>1
<1> QED BY <1>1, <1>2

LEMMA LineType ==
  ASSUME NEW src \in Sources, NEW n \in 1..Len(src.lines), Agreed
  PROVE  /\ src.version \in 1..8
         /\ src.lines[n] \in SourceLine
         /\ Accepted(src.version, src.lines[n])
         /\ ~Disagreed(src.version, src.lines[n].form)
<1>1. src.lines \in Seq(SourceLine) /\ src.version \in 1..8
  BY SourcesAssumption
<1>2. src.lines[n] \in SourceLine
  <2> DEFINE l == src.lines
  <2>1. l \in Seq(SourceLine) /\ n \in 1..Len(l)
    BY <1>1
  <2> SUFFICES l[n] \in SourceLine
    OBVIOUS
  <2> HIDE DEF l
  <2> QED BY <2>1
<1>3. Accepted(src.version, src.lines[n])
  BY SourcesAssumption
<1>4. ~Disagreed(src.version, src.lines[n].form)
  BY DEF Agreed
<1> QED BY <1>1, <1>2, <1>3, <1>4

LEMMA CodeStartType ==
  ASSUME source \in Sources
  PROVE  CodeStart \in Nat /\ CodeStart >= 64 /\ CodeStart <= 65535
<1> DEFINE b == source.before
<1>1. Preceding(Version, b)
  BY SourceType DEF Version
<1>2. CodeStart = 64 + Len(b)
  BY DEF CodeStart
<1> HIDE DEF b
<1>3. Len(b) \in Nat /\ 64 + Len(b) <= 65535
  BY <1>1, PrecedingFacts
<1> QED BY <1>2, <1>3

(* The code of a story is in memory from 64 on.                            *)
LEMMA CodeWritten ==
  ASSUME NEW c, c.story, c.code \in Seq(Byte)
  PROVE  WrittenAt(c, 64, c.code) /\ Size(c) = 64 + Len(c.code)
<1> DEFINE all == c.code
<1>1. all \in Seq(Byte) /\ Base(c) = 64
  BY DEF Base
<1>2. /\ Size(c) = 64 + Len(all)
      /\ \A x \in Nat : x >= 64 => ByteAt(c, x) = all[(x - 64) + 1]
  BY <1>1 DEF Size, ByteAt
<1> SUFFICES WrittenAt(c, 64, all) /\ Size(c) = 64 + Len(all)
  OBVIOUS
<1> HIDE DEF all
<1>3. ASSUME NEW j \in 1..Len(all)
      PROVE  InMemory(c, (64 + j) - 1) /\ ByteAt(c, (64 + j) - 1) = all[j]
  <2>1. PICK x : x = (64 + j) - 1
    OBVIOUS
  <2>2. x \in Nat /\ x >= 64 /\ x < 64 + Len(all) /\ (x - 64) + 1 = j
    BY <1>1, <2>1
  <2>3. InMemory(c, x) /\ ByteAt(c, x) = all[j]
    BY <1>2, <2>2 DEF InMemory
  <2> QED BY <2>1, <2>3
<1> QED BY <1>2, <1>3 DEF WrittenAt

(* And what follows the bytes before the first line is there from then on.  *)
LEMMA DraftFacts ==
  ASSUME source \in Sources, NEW code \in Seq(Byte),
         NEW c, c.story, c.code = source.before \o code
  PROVE  /\ WrittenAt(c, CodeStart, code)
         /\ Size(c) = CodeStart + Len(code)
<1> DEFINE b == source.before
<1>1. /\ Preceding(Version, b) /\ CodeStart = 64 + Len(b)
      /\ c.code = b \o code
  BY SourceType DEF Version, CodeStart
<1> HIDE DEF b
<1>2. b \in Seq(Byte) /\ Len(b) \in Nat
  BY <1>1, PrecedingFacts
<1>3. b \o code \in Seq(Byte) /\ Len(b \o code) = Len(b) + Len(code)
  BY <1>2, ConcatFacts
<1>4. WrittenAt(c, 64, b \o code) /\ Size(c) = 64 + Len(b \o code)
  BY <1>1, <1>3, CodeWritten
<1>5. WrittenAt(c, CodeStart, code)
  BY <1>1, <1>2, <1>4, 64 \in Nat, WrittenParts
<1>6. Len(code) \in Nat
  OBVIOUS
<1> QED BY <1>1, <1>2, <1>3, <1>4, <1>5, <1>6

(* What is written in one memory, which ends with a code, is written in    *)
(* another that has the same code there.                                   *)
LEMMA WrittenKept ==
  ASSUME NEW c, NEW d, NEW b \in Nat, NEW code \in Seq(Byte),
         WrittenAt(c, b, code), Size(c) = b + Len(code), WrittenAt(d, b, code),
         NEW a \in Nat, a >= b, NEW s \in Seq(Byte), WrittenAt(c, a, s)
  PROVE  WrittenAt(d, a, s)
<1>1. ASSUME NEW j \in 1..Len(s)
      PROVE  InMemory(d, (a + j) - 1) /\ ByteAt(d, (a + j) - 1) = s[j]
  <2>1. PICK x : x = (a + j) - 1
    OBVIOUS
  <2>2. InMemory(c, x) /\ ByteAt(c, x) = s[j]
    BY <2>1 DEF WrittenAt
  <2>3. x \in Nat /\ x >= b /\ x < b + Len(code)
    BY <2>1, <2>2 DEF InMemory
  <2>4. PICK k : k = (x - b) + 1
    OBVIOUS
  <2>5. k \in 1..Len(code) /\ (b + k) - 1 = x
    BY <2>3, <2>4
  <2>6. ByteAt(c, x) = code[k] /\ InMemory(d, x) /\ ByteAt(d, x) = code[k]
    BY <2>5 DEF WrittenAt
  <2> QED BY <2>1, <2>2, <2>6
<1> QED BY <1>1 DEF WrittenAt

(* A text that za accepts leaves a table that has all its characters.      *)
LEMMA FitsAfter ==
  ASSUME NEW v \in 1..8, NEW i \in SourceLine, NEW own \in Seq(Nat),
         Len(own) <= 97,
         ~Za!TextFails(v, own, IF i.text = <<>> THEN <<>> ELSE i.text[1])
  PROVE  LET text == IF i.text = <<>> THEN <<>> ELSE i.text[1]
             table == Za!TableAfter(v, own, text)
         IN Fits(v, table, i) /\ Grown(own, table)
<1> DEFINE text == IF i.text = <<>> THEN <<>> ELSE i.text[1]
           table == Za!TableAfter(v, own, text)
<1> SUFFICES Fits(v, table, i) /\ Grown(own, table)
  OBVIOUS
<1>1. text \in Seq(Nat) /\ (i.text # <<>> => text = i.text[1])
  BY LineFacts
<1>2. ~Za!TextFails(v, own, text)
  OBVIOUS
<1> HIDE DEF text
<1>3. /\ table \in Seq(Nat)
      /\ v < 5 => table = own
      /\ Grown(own, table)
      /\ v >= 5 => \A k \in 1..Len(text) :
                     Za!Coded(v, Za!Cut(text[k])) =>
                       Contains(table, Za!Cut(text[k]))
  BY <1>1, TableFacts
<1>4. /\ v < 5 => \A k \in 1..Len(text) :
                    Za!Coded(v, Za!Cut(text[k])) =>
                      Contains(Za!Latin, Za!Cut(text[k]))
      /\ ~(v < 5) => ~(Len(table) > MaxUnicode)
  BY Zenon, <1>2 DEF Za!TextFails, Za!Contains, Contains
<1> HIDE DEF table
<1>5. Len(table) <= 97
  <2>1. CASE v < 5
    BY <1>3, <2>1
  <2>2. CASE ~(v < 5)
    <3>1. MaxUnicode \in 0..97 /\ Len(table) \in Nat
      BY <1>3, TableAssumption
    <3> QED BY <1>4, <2>2, <3>1
  <2> QED BY <2>1, <2>2
<1>6. v < 5 \/ v >= 5
  OBVIOUS
<1>7. v >= 5 => ~(v < 5)
  OBVIOUS
<1>8. \A k \in 1..Len(text) : HasCode(v, table, Za!Cut(text[k]))
  BY Zenon, <1>3, <1>4, <1>6, <1>7 DEF HasCode, CodesOf
<1> QED BY <1>1, <1>3, <1>5, <1>8 DEF Fits

(* Every line begins in the code.                                          *)
StartsLate(n) == Start(n) \in Nat /\ Start(n) >= CodeStart

(* No line begins before the code.                                         *)
LEMMA StartFacts ==
  ASSUME WrittenInv, Agreed, source \in Sources, NEW n \in 0..Len(ends)
  PROVE  StartsLate(n)
<1> DEFINE G == {k \in Nat : k <= Len(ends) => StartsLate(k)}
<1>1. Len(ends) \in Nat /\ n \in Nat /\ n <= Len(ends)
  BY DEF WrittenInv
<1>2. 0 \in G
  BY CodeStartType DEF StartsLate, Start
<1>3. ASSUME NEW k \in Nat, k \in G PROVE k + 1 \in G
  <2>1. ASSUME k + 1 <= Len(ends) PROVE StartsLate(k + 1)
    <3>1. k + 1 \in 1..Len(ends) /\ (k + 1) - 1 = k /\ k <= Len(ends)
      BY <1>1, <2>1
    <3>2. PICK t : WrittenWith(k + 1, t)
      BY <3>1 DEF WrittenInv
    <3> DEFINE all == Za!Bytes(Version, t, Line(k + 1))
    <3>3. Start(k + 1) = Start(k) + Len(all) /\ Fits(Version, t, Line(k + 1))
      BY <3>1, <3>2 DEF WrittenWith
    <3>4. all \in Seq(Byte)
      <4>1. k + 1 \in 1..Len(source.lines)
        BY <1>1, <3>1 DEF WrittenInv
      <4>2. /\ Version \in 1..8 /\ Line(k + 1) \in SourceLine
            /\ Accepted(Version, Line(k + 1))
            /\ ~Disagreed(Version, Line(k + 1).form)
        BY <4>1, LineType DEF Line, Version
      <4> QED BY <3>3, <4>2, BytesType
    <3>5. Start(k) \in Nat /\ Start(k) >= CodeStart
      BY <1>3, <3>1 DEF StartsLate
    <3>6. Len(all) \in Nat
      BY <3>4
    <3> HIDE DEF all
    <3>7. CodeStart \in Nat
      BY CodeStartType
    <3> QED BY <3>3, <3>5, <3>6, <3>7 DEF StartsLate
  <2> QED BY <2>1
<1>4. \A k \in Nat : k \in G
  <2> HIDE DEF G
  <2> QED BY <1>2, <1>3, Induction
<1> QED BY <1>1, <1>4

(* A line more is written as the ones before.                              *)
LEMMA AssembleStep ==
  ASSUME FileInv, Agreed, Assemble
  PROVE  FileInv'
<1> PICK m : m = Len(ends)
  OBVIOUS
<1> DEFINE v == Version
           i == source.lines[m + 1]
           text == IF i.text = <<>> THEN <<>> ELSE i.text[1]
           table == Za!TableAfter(v, unicode_table, text)
           new == Za!Bytes(v, table, i)
           fails == Za!TextFails(v, unicode_table, text)
<1>1. /\ za_phase = "assembling"
      /\ m < Len(source.lines)
      /\ source' = source /\ config' = config
      /\ unicode_table' = table
      /\ fails => za_phase' = "failed"
      /\ ~fails => /\ bytes' = bytes \o new
                   /\ ends' = Append(ends, CodeStart + Len(bytes \o new))
                   /\ za_phase' = za_phase
  BY DEF Assemble, Line, Version, vars
<1>2. source \in Sources /\ WrittenInv /\ config = <<>> /\ Idle'
  <2>1. Idle /\ UNCHANGED vars
    BY <1>1 DEF FileInv, Assemble
  <2>2. Idle'
    BY <2>1 DEF Idle, vars, interpreter, found
  <2> QED BY <1>1, <2>2 DEF FileInv
<1>3. CASE fails
  BY <1>1, <1>2, <1>3 DEF FileInv
<1>4. CASE ~fails
  <2>1. /\ source' = source /\ config' = <<>>
        /\ za_phase' = "assembling" /\ unicode_table' = table
        /\ bytes' = bytes \o new
        /\ ends' = Append(ends, CodeStart + Len(bytes \o new))
    BY <1>1, <1>2, <1>4
  <2>2. /\ bytes \in Seq(Byte) /\ ends \in Seq(Nat)
        /\ Start(m) = CodeStart + Len(bytes)
        /\ unicode_table \in Seq(Nat) /\ Len(unicode_table) <= 97
        /\ unicode_table \in Seq(Words16)
        /\ Version < 5 => unicode_table = <<>>
        /\ \A n \in 1..m : \E t : WrittenWith(n, t)
    BY <1>2, Widened DEF WrittenInv
  <2>3. m \in Nat /\ Len(source.lines) \in Nat /\ m + 1 \in 1..Len(source.lines)
    <3>1. Len(source.lines) \in Nat
      BY <1>2, SourceType
    <3>2. m \in Nat
      BY <2>2
    <3> QED BY SMTT(60), <1>1, <3>1, <3>2
  <2>4. /\ v \in 1..8 /\ i \in SourceLine /\ Accepted(v, i)
        /\ ~Disagreed(v, i.form)
    BY <1>2, <2>3, LineType DEF Version
  <2>5. Fits(v, table, i) /\ Grown(unicode_table, table)
    <3>1. ~Za!TextFails(v, unicode_table,
                        IF i.text = <<>> THEN <<>> ELSE i.text[1])
      BY <1>4
    <3> SUFFICES
          LET x == IF i.text = <<>> THEN <<>> ELSE i.text[1]
              t == Za!TableAfter(v, unicode_table, x)
          IN Fits(v, t, i) /\ Grown(unicode_table, t)
      OBVIOUS
    <3> HIDE DEF v, i
    <3> QED BY <2>2, <2>4, <3>1, FitsAfter
  <2>6. /\ table \in Seq(Nat) /\ Len(table) <= 97
        /\ table \in Seq(Words16)
        /\ v < 5 => table = <<>>
    <3>1. text \in Seq(Nat)
      <4>1. <<>> \in Seq(Nat)
        OBVIOUS
      <4>2. i.text # <<>> => i.text[1] \in Seq(Nat)
        <5> HIDE DEF i
        <5> QED BY <2>4, LineFacts
      <4> HIDE DEF i
      <4> QED BY Zenon, <4>1, <4>2
    <3> HIDE DEF text
    <3>2. table \in Seq(Words16)
      BY <2>2, <3>1, TableWords
    <3>3. v < 5 => table = unicode_table
      BY <2>2, <2>4, <3>1, TableFacts
    <3>4. v < 5 => table = <<>>
      BY <2>2, <3>3
    <3> QED BY <2>5, <3>2, <3>4 DEF Fits
  <2>7. new \in Seq(Byte)
    <3> HIDE DEF v, i, table
    <3> QED BY <2>4, <2>5, BytesType
  <2> PICK grown : grown = table
    OBVIOUS
  <2> HIDE DEF new, table, i, fails
  <2> DEFINE from == CodeStart + Len(bytes)
             to == CodeStart + Len(bytes \o new)
  <2>8. /\ bytes \o new \in Seq(Byte)
        /\ from \in Nat /\ to \in Nat /\ to = from + Len(new)
    <3>1. /\ bytes \o new \in Seq(Byte)
          /\ Len(bytes \o new) = Len(bytes) + Len(new)
      BY <2>2, <2>7, ConcatFacts
    <3>2. Len(bytes) \in Nat /\ Len(new) \in Nat /\ CodeStart \in Nat
      BY <1>2, <2>2, <2>7, CodeStartType
    <3> QED BY <3>1, <3>2
  <2>9. /\ ends' \in Seq(Nat) /\ Len(ends') = m + 1
        /\ \A n \in 1..m : ends'[n] = ends[n]
        /\ ends'[m + 1] = to
    <3> HIDE DEF to
    <3>1. ends' = Append(ends, to)
      BY <2>1 DEF to
    <3> QED BY <2>2, <2>8, <3>1
  <2>10. /\ \A n \in 0..m : Start(n)' = Start(n)
         /\ Start(m + 1)' = to
    <3>1. ASSUME NEW n \in 0..m PROVE Start(n)' = Start(n)
      <4>1. n = 0 \/ n \in 1..m
        BY <2>3
      <4> QED BY <2>1, <2>9, <4>1 DEF Start, CodeStart
    <3>2. m + 1 # 0
      BY <2>3
    <3> QED BY <2>9, <3>1, <3>2 DEF Start
  <2>11. Version' = v
    BY <2>1 DEF Version
  <2>12. /\ WrittenAt(Draft, CodeStart, bytes)
         /\ Size(Draft) = CodeStart + Len(bytes)
         /\ WrittenAt(Draft', CodeStart, bytes)
         /\ WrittenAt(Draft', from, new)
    <3>1. /\ Draft.story /\ Draft.code = source.before \o bytes
          /\ Draft'.story /\ Draft'.code = source.before \o (bytes \o new)
      BY <2>1 DEF Draft
    <3>2. /\ WrittenAt(Draft, CodeStart, bytes)
          /\ Size(Draft) = CodeStart + Len(bytes)
      BY <1>2, <2>2, <3>1, DraftFacts
    <3> DEFINE d == Draft'
    <3>3. d.story /\ d.code = source.before \o (bytes \o new)
      BY <3>1
    <3> HIDE DEF d
    <3>4. WrittenAt(d, CodeStart, bytes \o new)
      BY <1>2, <2>8, <3>3, DraftFacts
    <3>5. CodeStart \in Nat
      BY <1>2, CodeStartType
    <3>6. WrittenAt(d, CodeStart, bytes) /\ WrittenAt(d, from, new)
      BY <2>2, <2>7, <3>4, <3>5, WrittenParts
    <3> QED BY <3>2, <3>6 DEF d
  <2>13. ASSUME NEW a \in Nat, NEW s \in Seq(Byte), a >= CodeStart,
                WrittenAt(Draft, a, s)
         PROVE  WrittenAt(Draft', a, s)
    <3> DEFINE c == Draft
               d == Draft'
    <3>1. /\ WrittenAt(c, CodeStart, bytes) /\ Size(c) = CodeStart + Len(bytes)
          /\ WrittenAt(d, CodeStart, bytes) /\ WrittenAt(c, a, s)
      BY <2>12, <2>13
    <3>2. CodeStart \in Nat
      BY <1>2, CodeStartType
    <3> SUFFICES WrittenAt(d, a, s)
      OBVIOUS
    <3> HIDE DEF c, d
    <3> QED BY <2>2, <2>13, <3>1, <3>2, WrittenKept
  <2>14. ASSUME NEW n \in 1..m PROVE \E t : WrittenWith(n, t)'
    <3>1. PICK t : WrittenWith(n, t)
      BY <2>2
    <3> DEFINE all == Za!Bytes(v, t, Line(n))
    <3>2. /\ Fits(v, t, Line(n)) /\ Grown(t, unicode_table)
          /\ WrittenAt(Draft, Start(n - 1), all)
          /\ Start(n) = Start(n - 1) + Len(all)
      BY <3>1 DEF WrittenWith
    <3>3. n \in 1..Len(source.lines) /\ n - 1 \in 0..m /\ n \in 0..m
      BY <2>3
    <3>4. all \in Seq(Byte)
      <4>1. /\ Line(n) \in SourceLine /\ Accepted(v, Line(n))
            /\ ~Disagreed(v, Line(n).form)
        BY <1>2, <3>3, LineType DEF Line, Version
      <4> QED BY <2>4, <3>2, <4>1, BytesType
    <3>5. Start(n - 1) \in Nat /\ Start(n - 1) >= CodeStart
      <4>1. StartsLate(n - 1)
        BY <1>2, <2>3, <3>3, StartFacts
      <4> QED BY <4>1 DEF StartsLate
    <3>6. WrittenAt(Draft', Start(n - 1), all)
      <4> HIDE DEF all
      <4> QED BY <2>13, <3>2, <3>4, <3>5
    <3>7. Start(n - 1)' = Start(n - 1) /\ Start(n)' = Start(n)
      BY <2>10, <3>3
    <3>8. Line(n)' = Line(n)
      BY <2>1 DEF Line
    <3>9. Grown(t, unicode_table')
      <4>1. t \in Seq(Nat)
        BY <3>2 DEF Fits
      <4> QED BY <2>1, <2>2, <2>5, <2>6, <3>2, <4>1, GrownFacts
    <3>10. WrittenWith(n, t)'
      BY Zenon, <2>11, <3>2, <3>6, <3>7, <3>8, <3>9 DEF WrittenWith
    <3> QED BY <3>10
  <2>15. WrittenWith(m + 1, grown)'
    <3>1. (m + 1) - 1 = m /\ m \in 0..m
      BY <2>3
    <3>2. Start(m)' = from
      BY <2>2, <2>10, <3>1
    <3>3. Line(m + 1)' = i
      BY <2>1 DEF Line, i
    <3>4. Grown(grown, unicode_table')
      BY <2>1, <2>6 DEF Grown
    <3>5. Za!Bytes(Version', grown, Line(m + 1)') = new
      BY <2>11, <3>3 DEF new
    <3>6. Fits(Version', grown, Line(m + 1)')
      BY <2>5, <2>11, <3>3
    <3>7. WrittenAt(Draft', Start((m + 1) - 1)', new)
      BY <2>12, <3>1, <3>2
    <3>8. Start(m + 1)' = Start((m + 1) - 1)' + Len(new)
      BY <2>8, <2>10, <3>1, <3>2
    <3> QED BY Zenon, <3>4, <3>5, <3>6, <3>7, <3>8 DEF WrittenWith
  <2>16. \A n \in 1..(m + 1) : \E t : WrittenWith(n, t)'
    <3>1. ASSUME NEW n \in 1..(m + 1) PROVE \E t : WrittenWith(n, t)'
      <4>1. CASE n = m + 1
        BY <2>15, <4>1
      <4>2. CASE n # m + 1
        <5>1. n \in 1..m
          BY <2>3, <4>2
        <5> QED BY <2>14, <5>1
      <4> QED BY <4>1, <4>2
    <3> QED BY <3>1
  <2>17. WrittenInv'
    <3>1. bytes' \in Seq(Byte) /\ Start(m + 1)' = CodeStart + Len(bytes')
      BY <2>1, <2>8, <2>10
    <3>2. Len(ends') <= Len(source.lines')
      BY <2>1, <2>3, <2>9
    <3>3. Version' < 5 => unicode_table' = <<>>
      BY <2>1, <2>6, <2>11
    <3>4. /\ ends' \in Seq(Nat) /\ Len(ends') = m + 1
          /\ unicode_table' \in Seq(Words16) /\ Len(unicode_table') <= 97
      BY <2>1, <2>6, <2>9
    <3>5. \A n \in 1..Len(ends') : \E t : WrittenWith(n, t)'
      BY <2>16, <3>4
    <3>6. Start(Len(ends))' = CodeStart' + Len(bytes')
      <4>1. CodeStart' = CodeStart
        BY <2>1 DEF CodeStart
      <4>2. Start(Len(ends))' = Start(m + 1)'
        BY <3>4 DEF Start
      <4> QED BY <3>1, <4>1, <4>2
    <3> QED BY <3>1, <3>2, <3>3, <3>4, <3>5, <3>6 DEF WrittenInv
  <2> QED BY <1>2, <2>1, <2>17 DEF FileInv
<1> QED BY <1>3, <1>4


----------------------------------------------------------------------------
(* The file that za ends with, as zd's memory.                             *)

(* The table za writes: how many characters it has, and a word for each.   *)
TableAt(s, table) ==
  /\ s \in Seq(Byte)
  /\ s = <<>> => table = <<>>
  /\ s # <<>> =>
       /\ Len(s) = 1 + 2 * Len(table)
       /\ s[1] = Len(table)
       /\ \A n \in 1..Len(table) :
            s[2 * n] * 256 + s[(2 * n) + 1] = table[n]

LEMMA TableBytesFacts ==
  ASSUME WrittenInv
  PROVE  TableAt(TableBytes, unicode_table)
<1> DEFINE table == unicode_table
           words == [n \in 1..Len(table) |-> Za!Word(table[n])]
           flat == FlattenSeq(words)
           L == Len(table)
<1>1. /\ table \in Seq(Words16) /\ Len(table) <= 97
      /\ Version < 5 => table = <<>>
      /\ TableBytes = IF Version < 5 \/ table = <<>> THEN <<>> ELSE <<L>> \o flat
  BY DEF WrittenInv, TableBytes
<1> SUFFICES TableAt(TableBytes, table)
  OBVIOUS
<1> HIDE DEF table
<1>2. /\ L \in Nat /\ L <= 97
      /\ \A n \in 1..L : table[n] \in Nat /\ table[n] <= 65535
  <2>1. \A n \in 1..Len(table) : table[n] \in Words16
    BY <1>1
  <2> QED BY <1>1, <2>1 DEF Words16
<1>3. \A n \in 1..L :
        /\ words[n] \in Seq(Byte) /\ Len(words[n]) = 2
        /\ table[n] = words[n][1] * 256 + words[n][2]
  <2>1. ASSUME NEW n \in 1..L
        PROVE  /\ words[n] \in Seq(Byte) /\ Len(words[n]) = 2
               /\ table[n] = words[n][1] * 256 + words[n][2]
    <3> PICK w \in Nat : w = table[n] /\ w <= 65535
      BY <1>2
    <3>1. w = table[n]
      OBVIOUS
    <3>2. PICK x, y : x = w \div 256 /\ y = w % 256
      OBVIOUS
    <3>3. words[n] = <<x, y>>
      BY <3>1, <3>2 DEF Za!Word
    <3> HIDE DEF words, L
    <3>4. x \in 0..255 /\ y \in 0..255 /\ w = x * 256 + y
      <4>1. /\ w \div 256 \in 0..255 /\ w % 256 \in 0..255
            /\ w = (w \div 256) * 256 + (w % 256)
        BY ONLY w \in Nat, w <= 65535, TwoBytes
      <4> QED BY <3>2, <4>1
    <3> QED BY <3>1, <3>3, <3>4 DEF Byte
  <2> QED BY <2>1
<1>4. words \in Seq(Seq(Byte)) /\ Len(words) = L
  BY <1>2, <1>3
<1> HIDE DEF L, words
<1>5. /\ flat \in Seq(Byte) /\ Len(flat) = 2 * L
      /\ \A n \in 1..L : \A j \in 1..2 : flat[2 * (n - 1) + j] = words[n][j]
  BY <1>3, <1>4, 2 \in {2, 3}, FlattenEven
<1> HIDE DEF flat
<1>6. CASE TableBytes = <<>>
  <2>1. L \in Byte /\ <<L>> \in Seq(Byte) /\ Len(<<L>>) = 1
    BY <1>2 DEF Byte
  <2>2. Len(<<L>> \o flat) = 1 + 2 * L
    BY <1>5, <2>1, ConcatFacts
  <2>3. Len(<<L>> \o flat) # 0
    BY <1>2, <2>2
  <2>4. <<L>> \o flat # <<>>
    BY <2>3
  <2>5. table = <<>>
    BY Zenon, <1>1, <1>6, <2>4
  <2> QED BY <1>6, <2>5 DEF TableAt
<1>7. CASE TableBytes # <<>>
  <2> DEFINE s == <<L>> \o flat
  <2>1. TableBytes = s
    BY Zenon, <1>1, <1>7
  <2>2. L \in Byte /\ <<L>> \in Seq(Byte) /\ Len(<<L>>) = 1 /\ <<L>>[1] = L
    BY <1>2 DEF Byte
  <2>3. /\ s \in Seq(Byte) /\ Len(s) = 1 + 2 * L
        /\ \A i \in 1..1 : s[i] = <<L>>[i]
        /\ \A i \in 1..(2 * L) : s[1 + i] = flat[i]
    <3> HIDE DEF L
    <3>1. /\ s \in Seq(Byte) /\ Len(s) = Len(<<L>>) + Len(flat)
          /\ \A i \in 1..Len(<<L>>) : s[i] = <<L>>[i]
          /\ \A i \in 1..Len(flat) : s[Len(<<L>>) + i] = flat[i]
      BY <1>5, <2>2, ConcatFacts
    <3> QED BY <1>5, <2>2, <3>1
  <2>4. ASSUME NEW n \in 1..L
        PROVE  s[2 * n] * 256 + s[(2 * n) + 1] = table[n]
    <3>1. /\ 2 * (n - 1) + 1 \in 1..(2 * L) /\ 2 * (n - 1) + 2 \in 1..(2 * L)
          /\ 1 + (2 * (n - 1) + 1) = 2 * n
          /\ 1 + (2 * (n - 1) + 2) = (2 * n) + 1
      BY <1>2
    <3> HIDE DEF s
    <3>2. s[2 * n] = words[n][1] /\ s[(2 * n) + 1] = words[n][2]
      <4>1. /\ s[1 + (2 * (n - 1) + 1)] = flat[2 * (n - 1) + 1]
            /\ s[1 + (2 * (n - 1) + 2)] = flat[2 * (n - 1) + 2]
        BY <2>3, <3>1
      <4>2. /\ flat[2 * (n - 1) + 1] = words[n][1]
            /\ flat[2 * (n - 1) + 2] = words[n][2]
        BY <1>5
      <4> QED BY <3>1, <4>1, <4>2
    <3>3. table[n] = words[n][1] * 256 + words[n][2]
      BY <1>3
    <3> QED BY <3>2, <3>3
  <2> HIDE DEF s
  <2>5. s[1] = L
    BY <2>2, <2>3
  <2> QED BY <1>7, <2>1, <2>3, <2>4, <2>5 DEF TableAt, L
<1> QED BY <1>6, <1>7

(* Two bytes of what precedes the code are changed, and no other.          *)
LEMMA PointerSet ==
  ASSUME NEW b \in Seq(Byte), Len(b) >= 8, NEW x \in Byte, NEW y \in Byte
  PROVE  LET s == [b EXCEPT ![7] = x, ![8] = y]
         IN /\ s \in Seq(Byte) /\ Len(s) = Len(b)
            /\ s[7] = x /\ s[8] = y
            /\ \A k \in 1..Len(b) : k # 7 /\ k # 8 => s[k] = b[k]
OBVIOUS

(* What precedes the code in the file names the table, if there is one.    *)
NamedAs(s, before, table, at) ==
  /\ s \in Seq(Byte) /\ Len(s) = Len(before)
  /\ Version >= 5 =>
       /\ Len(s) >= 8 /\ s[1] = 0 /\ s[2] = 3
       /\ table = <<>> => s[7] = 0 /\ s[8] = 0
       /\ table # <<>> => s[7] * 256 + s[8] = at

LEMMA NamedFacts ==
  ASSUME source \in Sources, WrittenInv, ~TooLong
  PROVE  /\ NamedAs(Named, source.before, TableBytes, TableAddress)
         /\ TableAddress \in Nat /\ TableAddress >= CodeStart
<1> DEFINE b == source.before
           table == TableBytes
           at == TableAddress
<1>1. Preceding(Version, b) /\ Version \in 1..8
  BY SourceType DEF Version
<1>2. /\ Named = IF table = <<>> THEN b
                 ELSE [b EXCEPT ![7] = at \div 256, ![8] = at % 256]
      /\ table # <<>> => Version >= 5
  BY <1>1 DEF Named, TableBytes
<1>3. at \in Nat /\ at >= CodeStart
  BY CodeStartType DEF TableAddress, WrittenInv
<1>4. table # <<>> => at <= 65535
  BY <1>3 DEF TooLong
<1> SUFFICES NamedAs(Named, b, table, at)
  BY <1>3
<1> HIDE DEF b, table, at
<1>5. /\ b \in Seq(Byte) /\ Len(b) \in Nat
      /\ Version >= 5 => Len(b) >= 8 /\ \A k \in 1..8 : b[k] = Extension[k]
  BY <1>1, PrecedingFacts
<1>6. Version >= 5 => /\ Len(b) >= 8 /\ b[1] = 0 /\ b[2] = 3
                      /\ b[7] = 0 /\ b[8] = 0
  BY <1>5 DEF Extension
<1>7. CASE table = <<>>
  BY <1>2, <1>5, <1>6, <1>7 DEF NamedAs
<1>8. CASE table # <<>>
  <2>1. Version >= 5 /\ Len(b) >= 8 /\ b[1] = 0 /\ b[2] = 3
    BY <1>2, <1>6, <1>8
  <2>2. PICK x, y : x = at \div 256 /\ y = at % 256
    OBVIOUS
  <2>3. x \in Byte /\ y \in Byte /\ at = x * 256 + y
    BY <1>3, <1>4, <1>8, <2>2, TwoBytes DEF Byte
  <2> DEFINE s == [b EXCEPT ![7] = x, ![8] = y]
  <2>4. Named = s
    BY <1>2, <1>8, <2>2
  <2>5. /\ s \in Seq(Byte) /\ Len(s) = Len(b) /\ s[7] = x /\ s[8] = y
        /\ \A k \in 1..Len(b) : k # 7 /\ k # 8 => s[k] = b[k]
    BY <1>5, <2>1, <2>3, PointerSet
  <2> HIDE DEF s
  <2>6. s[1] = 0 /\ s[2] = 3
    <3>1. 1 \in 1..Len(b) /\ 2 \in 1..Len(b)
      BY <1>5, <2>1
    <3> QED BY <2>1, <2>5, <3>1
  <2> QED BY <1>8, <2>1, <2>3, <2>4, <2>5, <2>6 DEF NamedAs
<1> QED BY <1>7, <1>8

(* The story is one that zd can be given, and has everything in its place. *)
LEMMA FileFacts ==
  ASSUME source \in Sources, WrittenInv, ~TooLong
  PROVE  /\ Story \in Config /\ Size(Story) \in Nat
         /\ WrittenAt(Story, 64, Named)
         /\ WrittenAt(Story, CodeStart, bytes)
         /\ WrittenAt(Story, TableAddress, TableBytes)
<1> DEFINE n == Named
           t == TableBytes
           unpadded == (n \o bytes) \o t
           zeros == [k \in 1..PaddingAfter(Len(unpadded)) |-> 0]
           c == Story
<1>1. /\ n \in Seq(Byte) /\ t \in Seq(Byte) /\ bytes \in Seq(Byte)
      /\ CodeStart = 64 + Len(n) /\ TableAddress = CodeStart + Len(bytes)
  BY NamedFacts, TableBytesFacts
     DEF NamedAs, TableAt, WrittenInv, CodeStart, TableAddress
<1>2. /\ c.story /\ c.code = unpadded \o zeros
      /\ CodeStart \in Nat /\ CodeStart >= 64 /\ Version \in 1..8
  <2>1. c.story /\ c.code = File
    BY DEF Story
  <2>2. File = unpadded \o zeros
    BY DEF File
  <2> QED BY <2>1, <2>2, CodeStartType, SourceType DEF Version
<1>3. c \in Config <=> c.code \in Seq(Byte)
  <2> DEFINE s == IF Version = 6 THEN (CodeStart - 1) \div 4 ELSE CodeStart
             x == File
  <2>1. s \in Nat
    BY <1>2
  <2>2. <<>> \in Seq(Nat) /\ <<>> \in Seq(Seq(Nat))
    OBVIOUS
  <2>3. c = [zversion |-> Version, story |-> TRUE, code |-> x,
             start |-> s, r_o |-> 0, s_o |-> 0, ignore_errors |-> FALSE,
             max_instructions |-> <<>>, addresses |-> <<>>,
             start_offset |-> <<>>]
    BY DEF Story
  <2> HIDE DEF c, s, x
  <2>4. c.code = x
    BY <2>3
  <2>5. x \in Seq(0..255) => c \in Config
    BY <1>2, <2>1, <2>2, <2>3 DEF Config
  <2>6. c \in Config => c.code \in Seq(0..255)
    BY DEF Config
  <2> QED BY <2>4, <2>5, <2>6 DEF Byte
<1> SUFFICES /\ c.code \in Seq(Byte) /\ Size(c) \in Nat
             /\ WrittenAt(c, 64, n)
             /\ WrittenAt(c, CodeStart, bytes)
             /\ WrittenAt(c, TableAddress, t)
  BY <1>3
<1> HIDE DEF n, t, c
<1>4. n \o bytes \in Seq(Byte) /\ Len(n \o bytes) = Len(n) + Len(bytes)
  BY <1>1, ConcatFacts
<1> DEFINE front == n \o bytes
<1> HIDE DEF front
<1>5. unpadded \in Seq(Byte) /\ Len(unpadded) \in Nat
  BY <1>1, <1>4, ConcatFacts DEF front
<1> HIDE DEF unpadded
<1>6. zeros \in Seq(Byte)
  <2>1. PICK k : k = PaddingAfter(Len(unpadded))
    OBVIOUS
  <2>2. k \in Nat
    BY <1>2, <1>5, <2>1 DEF PaddingAfter, Alignment
  <2> QED BY <2>1, <2>2 DEF Byte
<1> HIDE DEF zeros
<1>7. c.code \in Seq(Byte)
  BY <1>2, <1>5, <1>6, ConcatFacts
<1>8. WrittenAt(c, 64, unpadded \o zeros) /\ Size(c) = 64 + Len(c.code)
  BY <1>2, <1>7, CodeWritten
<1>9. Size(c) \in Nat
  BY <1>7, <1>8
<1>10. WrittenAt(c, 64, front \o t)
  BY <1>5, <1>6, <1>8, 64 \in Nat, WrittenParts DEF unpadded, front
<1>11. WrittenAt(c, 64, front) /\ WrittenAt(c, 64 + Len(front), t)
  BY <1>1, <1>4, <1>10, 64 \in Nat, WrittenParts DEF front
<1>12. WrittenAt(c, 64, n) /\ WrittenAt(c, 64 + Len(n), bytes)
  BY <1>1, <1>11, 64 \in Nat, WrittenParts DEF front
<1>13. 64 + Len(front) = TableAddress
  <2>1. Len(n) \in Nat /\ Len(bytes) \in Nat
    BY <1>1
  <2> QED BY <1>1, <1>4, <2>1 DEF front
<1> QED BY <1>1, <1>7, <1>9, <1>11, <1>12, <1>13

(* zd takes from it the table that za had in the end.                      *)
LEMMA OwnTableFacts ==
  ASSUME source \in Sources, WrittenInv, ~TooLong
  PROVE  OwnTable(Story) = unicode_table
<1> DEFINE c == Story
           s == Named
           t == TableBytes
           table == unicode_table
           at == TableAddress
           own == WordAt(c, 70)
           L == Len(table)
<1>1. /\ WrittenAt(c, 64, s) /\ WrittenAt(c, at, t)
      /\ NamedAs(s, source.before, t, at) /\ TableAt(t, table)
      /\ at \in Nat /\ at >= 64
  BY FileFacts, NamedFacts, TableBytesFacts, CodeStartType
<1>2. c.zversion = Version /\ Version \in 1..8 /\ (Version < 5 => table = <<>>)
  BY SourceType DEF Story, Version, WrittenInv
<1>3. OwnTable(c) =
        IF c.zversion < 5 \/ WordAt(c, 64) < 3 \/ own = 0 THEN <<>>
        ELSE [n \in 1..ByteAt(c, own) |-> WordAt(c, (own + 1) + 2 * (n - 1))]
  BY DEF OwnTable
<1>4. table \in Seq(Words16) /\ L \in Nat /\ table = [n \in 1..L |-> table[n]]
  BY DEF WrittenInv
<1> SUFFICES OwnTable(c) = table
  OBVIOUS
<1> HIDE DEF c, s, t, table, at
<1>5. CASE Version < 5
  BY <1>2, <1>3, <1>5
<1>6. CASE ~(Version < 5)
  <2>1. /\ s \in Seq(Byte) /\ Len(s) >= 8 /\ s[1] = 0 /\ s[2] = 3
        /\ t = <<>> => s[7] = 0 /\ s[8] = 0
        /\ t # <<>> => s[7] * 256 + s[8] = at
    BY <1>1, <1>2, <1>6 DEF NamedAs
  <2>2. /\ ByteAt(c, 64) = s[1] /\ ByteAt(c, 65) = s[2]
        /\ ByteAt(c, 70) = s[7] /\ ByteAt(c, 71) = s[8]
    <3>1. Len(s) \in Nat
      BY <2>1
    <3>2. \A j \in 1..Len(s) : ByteAt(c, (64 + j) - 1) = s[j]
      BY <1>1 DEF WrittenAt
    <3>3. /\ 1 \in 1..Len(s) /\ 2 \in 1..Len(s)
          /\ 7 \in 1..Len(s) /\ 8 \in 1..Len(s)
      BY <2>1, <3>1
    <3>4. /\ (64 + 1) - 1 = 64 /\ (64 + 2) - 1 = 65
          /\ (64 + 7) - 1 = 70 /\ (64 + 8) - 1 = 71
      OBVIOUS
    <3> QED BY <3>2, <3>3, <3>4
  <2>3. WordAt(c, 64) = 3 /\ own = s[7] * 256 + s[8]
    <3>1. 64 + 1 = 65 /\ 70 + 1 = 71
      OBVIOUS
    <3> QED BY <2>1, <2>2, <3>1 DEF WordAt
  <2>4. CASE t = <<>>
    <3>1. own = 0 /\ table = <<>>
      BY <1>1, <2>1, <2>3, <2>4 DEF TableAt
    <3> QED BY <1>3, <3>1
  <2>5. CASE t # <<>>
    <3>1. own = at /\ own # 0 /\ ~(c.zversion < 5) /\ ~(WordAt(c, 64) < 3)
      BY <1>1, <1>2, <1>6, <2>1, <2>3, <2>5
    <3>2. /\ t \in Seq(Byte) /\ Len(t) = 1 + 2 * L /\ t[1] = L
          /\ \A n \in 1..L : t[2 * n] * 256 + t[(2 * n) + 1] = table[n]
      BY <1>1, <2>5 DEF TableAt
    <3> HIDE DEF L, own
    <3>3. \A j \in 1..Len(t) : ByteAt(c, (at + j) - 1) = t[j]
      BY <1>1 DEF WrittenAt
    <3>4. ByteAt(c, at) = L
      <4>1. 1 \in 1..Len(t) /\ (at + 1) - 1 = at
        BY <1>1, <1>4, <3>2
      <4> QED BY <3>2, <3>3, <4>1
    <3>5. ASSUME NEW n \in 1..L
          PROVE  WordAt(c, (at + 1) + 2 * (n - 1)) = table[n]
      <4> L \in Nat /\ at \in Nat /\ Len(t) = 1 + 2 * L
        BY <1>1, <1>4, <3>2
      <4>1. /\ 2 * n \in 1..Len(t) /\ (2 * n) + 1 \in 1..Len(t)
            /\ (at + (2 * n)) - 1 = (at + 1) + 2 * (n - 1)
            /\ (at + ((2 * n) + 1)) - 1 = ((at + 1) + 2 * (n - 1)) + 1
        BY ONLY n \in 1..L, L \in Nat, at \in Nat, Len(t) = 1 + 2 * L
      <4>2. /\ ByteAt(c, (at + (2 * n)) - 1) = t[2 * n]
            /\ ByteAt(c, (at + ((2 * n) + 1)) - 1) = t[(2 * n) + 1]
        BY <3>3, <4>1
      <4>3. t[2 * n] * 256 + t[(2 * n) + 1] = table[n]
        BY <3>2
      <4> QED BY <4>1, <4>2, <4>3 DEF WordAt
    <3>6. OwnTable(c) = [n \in 1..L |-> WordAt(c, (at + 1) + 2 * (n - 1))]
      BY <1>3, <3>1, <3>4
    <3>7. [n \in 1..L |-> WordAt(c, (at + 1) + 2 * (n - 1))] =
            [n \in 1..L |-> table[n]]
      BY <3>5
    <3> QED BY <1>4, <3>6, <3>7
  <2> QED BY <2>4, <2>5
<1> QED BY <1>5, <1>6

(* Line n of the source, as zd finds it in the story.                      *)
Found(n, table) ==
  LET all == Za!Bytes(Version, table, Line(n))
  IN /\ Fits(Version, table, Line(n))
     /\ Grown(table, unicode_table)
     /\ ReadsBack(config, Start(n - 1), Version, table, Line(n))
     /\ InMemory(config, Start(n - 1))
     /\ Start(n) = Start(n - 1) + Len(all)
     /\ Start(n) > Start(n - 1)

LEMMA LinesFound ==
  ASSUME FileInv, Agreed, za_phase = "done",
         NEW n \in 1..Len(source.lines)
  PROVE  /\ Line(n) \in SourceLine
         /\ Start(n - 1) \in Nat /\ Start(n) \in Nat
         /\ Start(n - 1) >= CodeStart
         /\ \E table : Found(n, table)
<1>1. /\ source \in Sources /\ WrittenInv /\ ~TooLong
      /\ config = Story /\ Len(ends) = Len(source.lines)
  BY DEF FileInv
<1>2. Len(source.lines) \in Nat
  BY <1>1, SourceType
<1>3. n \in 1..Len(ends) /\ n - 1 \in 0..Len(ends) /\ n \in 0..Len(ends)
  BY <1>1, <1>2
<1>4. /\ Start(n - 1) \in Nat /\ Start(n - 1) >= CodeStart
      /\ Start(n) \in Nat /\ CodeStart \in Nat
  <2>1. StartsLate(n - 1) /\ StartsLate(n)
    BY <1>1, <1>3, StartFacts
  <2> QED BY <1>1, <2>1, CodeStartType DEF StartsLate
<1>5. PICK table : WrittenWith(n, table)
  BY <1>1, <1>3 DEF WrittenInv
<1> DEFINE all == Za!Bytes(Version, table, Line(n))
           c == Story
           d == Draft
<1>6. /\ Fits(Version, table, Line(n)) /\ Grown(table, unicode_table)
      /\ WrittenAt(d, Start(n - 1), all)
      /\ Start(n) = Start(n - 1) + Len(all)
  BY <1>5 DEF WrittenWith
<1>7. /\ Version \in 1..8 /\ Line(n) \in SourceLine
      /\ Accepted(Version, Line(n)) /\ ~Disagreed(Version, Line(n).form)
  BY <1>1, LineType DEF Line, Version
<1>8. all \in Seq(Byte) /\ Len(all) > 0
  BY <1>6, <1>7, BytesType
<1>9. /\ WrittenAt(c, CodeStart, bytes) /\ Size(c) \in Nat
      /\ WrittenAt(d, CodeStart, bytes) /\ Size(d) = CodeStart + Len(bytes)
      /\ bytes \in Seq(Byte) /\ c.zversion = Version
  <2>1. bytes \in Seq(Byte) /\ Draft.story /\ Draft.code = source.before \o bytes
    BY <1>1 DEF Draft, WrittenInv
  <2>2. WrittenAt(d, CodeStart, bytes) /\ Size(d) = CodeStart + Len(bytes)
    BY <1>1, <2>1, DraftFacts
  <2> QED BY <1>1, <2>1, <2>2, FileFacts DEF Story
<1> HIDE DEF c, d
<1>10. WrittenAt(c, Start(n - 1), all)
  <2> HIDE DEF all
  <2> QED BY <1>4, <1>6, <1>8, <1>9, WrittenKept
<1>11. ReadsBack(c, Start(n - 1), Version, table, Line(n))
  BY <1>4, <1>6, <1>7, <1>9, <1>10, LineRead
<1>12. InMemory(c, Start(n - 1)) /\ Start(n) > Start(n - 1)
  <2> HIDE DEF all
  <2>1. Len(all) \in Nat /\ Len(all) >= 1
    BY <1>8
  <2>2. InMemory(c, Start(n - 1))
    BY <1>4, <1>8, <1>10, <2>1, FirstBytes
  <2> QED BY <1>4, <1>6, <2>1, <2>2
<1>13. Found(n, table)
  BY Zenon, <1>1, <1>6, <1>11, <1>12 DEF Found, c
<1> QED BY <1>4, <1>7, <1>13

----------------------------------------------------------------------------
(* The steps of za, and of zd, which keep what za has written.             *)

LEMMA FileKept ==
  ASSUME WrittenInv, UNCHANGED <<source, bytes, ends, unicode_table>>
  PROVE  /\ WrittenInv' /\ Version' = Version /\ CodeStart' = CodeStart
         /\ Story' = Story /\ TooLong' = TooLong
<1>1. Version' = Version /\ CodeStart' = CodeStart /\ Draft' = Draft
  BY DEF Version, CodeStart, Draft
<1>2. \A n : Start(n)' = Start(n) /\ Line(n)' = Line(n)
  BY <1>1 DEF Start, Line
<1>3. TableBytes' = TableBytes
  BY <1>1 DEF TableBytes
<1>4. TableAddress' = TableAddress
  BY <1>1 DEF TableAddress
<1>5. Named' = Named
  BY <1>3, <1>4 DEF Named
<1>6. \A n : PaddingAfter(n)' = PaddingAfter(n)
  <2>1. Alignment' = Alignment
    BY <1>1 DEF Alignment
  <2> QED BY <1>1, <2>1 DEF PaddingAfter
<1>7. File' = File
  BY <1>3, <1>5, <1>6 DEF File
<1>8. Story' = Story
  BY <1>1, <1>7 DEF Story
<1>9. TooLong' = TooLong
  <2>1. Divisor' = Divisor
    BY <1>1 DEF Divisor
  <2> QED BY <1>1, <1>3, <1>4, <1>7, <2>1 DEF TooLong
<1>10. \A n, table : WrittenWith(n, table)' = WrittenWith(n, table)
  BY <1>1, <1>2 DEF WrittenWith
<1>11. Start(Len(ends))' = Start(Len(ends))
  BY <1>1 DEF Start
<1>12. WrittenInv'
  <2>1. \A n \in 1..Len(ends) : \E table : WrittenWith(n, table)'
    <3>1. ASSUME NEW n \in 1..Len(ends) PROVE \E table : WrittenWith(n, table)'
      <4>1. PICK table : WrittenWith(n, table)
        BY DEF WrittenInv
      <4>2. WrittenWith(n, table)'
        BY <1>10, <4>1
      <4> QED BY <4>2
    <3> QED BY <3>1
  <2> QED BY <1>1, <1>11, <2>1 DEF WrittenInv
<1> QED BY <1>1, <1>8, <1>9, <1>12

LEMMA ConfigKept == [Next]_vars => config' = config
BY DEF Next, Begin, NextRoot, Finish, CheckAddress, StopAtLimit, StopAtSeen,
       VisitNothing, VisitInstruction, Visit, Return, Ended, vars

LEMMA FileInit == TripInit => FileInv
<1> SUFFICES ASSUME TripInit PROVE FileInv
  OBVIOUS
<1>1. /\ source \in Sources /\ za_phase = "assembling" /\ bytes = <<>>
      /\ ends = <<>> /\ unicode_table = <<>> /\ config = <<>> /\ Idle
  BY DEF TripInit
<1>2. Len(source.lines) \in Nat /\ CodeStart \in Nat
  BY <1>1, SourceType, CodeStartType
<1>3. Start(Len(ends)) = CodeStart + Len(bytes)
  BY <1>1, <1>2 DEF Start
<1>4. /\ bytes \in Seq(Byte) /\ ends \in Seq(Nat) /\ Len(ends) = 0
      /\ unicode_table \in Seq(Words16) /\ Len(unicode_table) <= 97
  BY <1>1
<1>5. WrittenInv
  <2>1. \A n \in 1..Len(ends) : \E table : WrittenWith(n, table)
    BY <1>4
  <2>2. Len(ends) <= Len(source.lines)
    BY <1>2, <1>4
  <2> QED BY <1>1, <1>3, <1>4, <2>1, <2>2 DEF WrittenInv
<1> QED BY <1>1, <1>5 DEF FileInv

LEMMA FileStep ==
  ASSUME FileInv, Agreed, [TripNext]_<<za_vars, vars>>
  PROVE  FileInv'
<1>1. CASE Assemble
  BY <1>1, AssembleStep
<1>2. CASE EndFile
  <2>1. /\ za_phase = "assembling" /\ Len(ends) = Len(source.lines)
        /\ UNCHANGED <<source, bytes, ends, unicode_table>>
        /\ UNCHANGED <<phase, roots, rooted, interpreter, found>>
        /\ \/ za_phase' = "failed" /\ config' = config
           \/ za_phase' = "done" /\ config' = Story /\ ~TooLong
    BY <1>2 DEF EndFile
  <2>2. source \in Sources /\ WrittenInv /\ config = <<>> /\ Idle
    BY <2>1 DEF FileInv
  <2>3. WrittenInv' /\ Story' = Story /\ TooLong' = TooLong
    BY <2>1, <2>2, FileKept
  <2>4. Idle'
    BY <2>1, <2>2 DEF Idle, interpreter, found
  <2> QED BY Zenon, <2>1, <2>2, <2>3, <2>4 DEF FileInv
<1>3. CASE Disassemble
  <2>1. za_phase = "done" /\ Next /\ UNCHANGED za_vars
    BY <1>3 DEF Disassemble
  <2>2. config' = config
    BY <2>1, ConfigKept
  <2>3. UNCHANGED <<source, bytes, ends, unicode_table>> /\ za_phase' = "done"
    BY <2>1 DEF za_vars
  <2>4. WrittenInv
    BY <2>1 DEF FileInv
  <2>5. WrittenInv' /\ Story' = Story /\ TooLong' = TooLong
    BY <2>3, <2>4, FileKept
  <2> QED BY Zenon, <2>1, <2>2, <2>3, <2>5 DEF FileInv
<1>4. CASE UNCHANGED <<za_vars, vars>>
  <2>1. /\ UNCHANGED <<source, bytes, ends, unicode_table>>
        /\ za_phase' = za_phase /\ config' = config
    BY <1>4 DEF za_vars, vars
  <2>2. Idle => Idle'
    BY <1>4 DEF Idle, vars, interpreter, found
  <2>3. WrittenInv => WrittenInv' /\ Story' = Story /\ TooLong' = TooLong
    BY <2>1, FileKept
  <2>4. source' = source /\ ends' = ends
    BY <2>1
  <2>5. CASE za_phase = "failed"
    BY <2>1, <2>2, <2>4, <2>5 DEF FileInv
  <2>6. CASE za_phase # "failed"
    <3>1. WrittenInv' /\ Story' = Story /\ TooLong' = TooLong
      BY <2>3, <2>6 DEF FileInv
    <3> QED BY <2>1, <2>2, <2>4, <3>1 DEF FileInv
  <2> QED BY <2>5, <2>6
<1>5. CASE Failed
  <2>1. UNCHANGED <<za_vars, vars>>
    BY <1>5 DEF Failed
  <2> QED BY <1>4, <2>1
<1> QED BY <1>1, <1>2, <1>3, <1>4, <1>5 DEF TripNext

----------------------------------------------------------------------------
(* What zd does with the story.                                            *)

LEMMA StoryFields ==
  /\ Story.zversion = Version /\ Story.story = TRUE
  /\ Story.start = (IF Version = 6 THEN (CodeStart - 1) \div 4 ELSE CodeStart)
  /\ Story.r_o = 0 /\ Story.ignore_errors = FALSE
  /\ Story.max_instructions = <<>> /\ Story.addresses = <<>>
  /\ Story.start_offset = <<>>
BY DEF Story

(* It begins at the first line: in V6 behind the byte of the main routine, *)
(* which the header names by its packed address.                           *)
LEMMA BeginsAt ==
  ASSUME FileInv, za_phase = "done"
  PROVE  /\ Given = <<0>> /\ ~MainFails /\ ~AddressFails(0)
         /\ Root(0) = CodeStart
<1>1. source \in Sources /\ WrittenInv /\ ~TooLong /\ config = Story
  BY DEF FileInv
<1>2. Given = <<0>>
  BY <1>1, StoryFields DEF Given
<1>3. ~AddressFails(0)
  BY DEF AddressFails
<1>4. ~MainFails /\ MainRoutine = CodeStart
  <2>1. CASE Version # 6
    BY <1>1, <2>1, StoryFields DEF MainFails, MainRoutine
  <2>2. CASE Version = 6
    <3> DEFINE c == Story
               packed == (CodeStart - 1) \div 4
               b == source.before
    <3>1. CodeStart \in Nat /\ CodeStart >= 64 /\ CodeStart % 4 = 1
      <4>1. Preceding(Version, b) /\ CodeStart = 64 + Len(b)
        BY <1>1, SourceType DEF Version, CodeStart
      <4> HIDE DEF b
      <4>2. Len(b) \in Nat /\ Len(b) % 4 = 1
        BY <2>2, <4>1, PrecedingFacts
      <4> QED BY <4>1, <4>2
    <3>2. 4 * packed = CodeStart - 1 /\ packed \in Nat /\ packed # 0
      BY <3>1
    <3>3. /\ c.zversion = 6 /\ c.story = TRUE /\ c.start = packed /\ c.r_o = 0
      BY <2>2, StoryFields
    <3>4. Size(c) \in Nat /\ Size(c) >= CodeStart
      <4>1. WrittenAt(c, 64, Named) /\ Size(c) \in Nat /\ Named \in Seq(Byte)
            /\ CodeStart = 64 + Len(Named)
        BY <1>1, FileFacts, NamedFacts DEF NamedAs, CodeStart
      <4> DEFINE n == Named
      <4>2. WrittenAt(c, 64, n) /\ n \in Seq(Byte) /\ CodeStart = 64 + Len(n)
        BY <4>1
      <4> HIDE DEF c, n
      <4>3. Len(n) \in Nat
        BY <4>2
      <4>4. CASE Len(n) = 0
        <5>1. CodeStart = 64
          BY <4>2, <4>4
        <5> QED BY <3>1, <5>1
      <4>5. CASE Len(n) # 0
        <5>1. Len(n) \in 1..Len(n)
          BY <4>3, <4>5
        <5>2. InMemory(c, (64 + Len(n)) - 1)
          BY <4>2, <5>1 DEF WrittenAt
        <5> QED BY <4>1, <4>2, <4>3, <5>2 DEF InMemory
      <4> QED BY <4>1, <4>4, <4>5
    <3> HIDE DEF c, packed
    <3>5. Unpack(c, packed, c.r_o) = CodeStart - 1
      BY <3>1, <3>2, <3>3 DEF Unpack, PackFactor, HasOffsets
    <3>6. InMemory(c, CodeStart - 1)
      BY <3>1, <3>4 DEF InMemory
    <3>7. RoutineEntry(c, packed) = [ok |-> TRUE, entry |-> CodeStart]
      <4>1. (CodeStart - 1) + 1 = CodeStart
        BY <3>1
      <4>2. c.story /\ ~(c.zversion <= 4)
        BY <3>3
      <4> QED BY Zenon, <3>5, <3>6, <4>1, <4>2 DEF RoutineEntry
    <3> QED BY <1>1, <3>2, <3>3, <3>7
            DEF MainFails, MainRoutine, Enterable, c
  <2> QED BY <2>1, <2>2
<1>5. Root(0) = CodeStart
  BY <1>1, <1>4, StoryFields DEF Root
<1> QED BY <1>2, <1>3, <1>4, <1>5

(* zd itself is in a state of its own specification.                       *)
ZdInv ==
  za_phase = "done" =>
    /\ TypeOK /\ Unstarted /\ SearchInv
    /\ phase # "start" => roots = <<CodeStart>>
    /\ rooted = 0 => control = "return" /\ stack = <<>>

LEMMA ZdInit ==
  ASSUME FileInv, EndFile, za_phase' = "done"
  PROVE  ZdInv'
<1>1. /\ source \in Sources /\ WrittenInv /\ ~TooLong /\ config' = Story
      /\ Idle /\ UNCHANGED <<phase, roots, rooted, interpreter, found>>
  BY DEF FileInv, EndFile
<1>2. config' \in Config
  BY <1>1, FileFacts
<1>3. Idle'
  BY <1>1 DEF Idle, interpreter, found
<1> QED BY <1>2, <1>3 DEF ZdInv, Idle, TypeOK, Unstarted, SearchInv, Explored,
                           Justified, NothingMissed

LEMMA ZdStep ==
  ASSUME FileInv, Agreed, ZdInv, [TripNext]_<<za_vars, vars>>
  PROVE  ZdInv'
<1>1. CASE Assemble \/ Failed
  <2>1. za_phase' # "done"
    BY <1>1 DEF Assemble, Failed, za_vars
  <2> QED BY <2>1 DEF ZdInv
<1>2. CASE EndFile
  <2>1. CASE za_phase' = "done"
    BY <1>2, <2>1, ZdInit
  <2> QED BY <2>1 DEF ZdInv
<1>3. CASE za_phase = "done" /\ [Next]_vars /\ UNCHANGED za_vars
  <2>1. TypeOK /\ Unstarted /\ SearchInv
    BY <1>3 DEF ZdInv
  <2>2. TypeOK' /\ Unstarted' /\ SearchInv'
    BY <1>3, <2>1, TypeStep, UnstartedStep, SearchStep
  <2>3. CodeStart' = CodeStart
    BY <1>3 DEF za_vars, CodeStart
  <2>4. CASE Begin
    <3>1. Given = <<0>> /\ ~MainFails /\ ~AddressFails(0) /\ Root(0) = CodeStart
      BY <1>3, BeginsAt
    <3>2. Len(Given) = 1 /\ \A i \in 1..Len(Given) : Given[i] = 0
      BY <3>1
    <3>3. roots' = [i \in 1..Len(Given) |-> Root(Given[i])]
      BY <2>4, <3>1, <3>2 DEF Begin
    <3>4. roots' = <<CodeStart>>
      BY <3>1, <3>2, <3>3
    <3>5. rooted' = rooted /\ control' = control /\ stack' = stack
      BY <2>4 DEF Begin, interpreter
    <3> QED BY <1>3, <2>2, <2>3, <3>4, <3>5 DEF ZdInv
  <2>5. CASE ~Begin
    <3>1. phase = "start" => phase' = "start"
      BY <1>3, <2>5
         DEF Next, NextRoot, Finish, CheckAddress, StopAtLimit, StopAtSeen,
             VisitNothing, VisitInstruction, Visit, Return, Ended, Running, vars
    <3>2. roots' = roots
      BY <1>3, <2>5
         DEF Next, NextRoot, Finish, CheckAddress, StopAtLimit, StopAtSeen,
             VisitNothing, VisitInstruction, Visit, Return, Ended, vars
    <3>3. rooted' = 0 => control' = "return" /\ stack' = <<>>
      <4>1. CASE NextRoot
        <5>1. rooted \in Nat
          BY <2>1 DEF TypeOK
        <5> QED BY <4>1, <5>1 DEF NextRoot
      <4>2. CASE ~NextRoot
        <5>1. rooted' = rooted
          BY <1>3, <2>5, <4>2
             DEF Next, Finish, CheckAddress, StopAtLimit, StopAtSeen,
                 VisitNothing, VisitInstruction, Visit, Return, Ended, vars
        <5>2. CASE rooted = 0
          <6>1. control = "return" /\ stack = <<>>
            BY <1>3, <5>2 DEF ZdInv
          <6>2. Finish \/ Ended \/ UNCHANGED vars
            BY <1>3, <2>5, <4>2, <6>1
               DEF Next, CheckAddress, StopAtLimit, StopAtSeen, VisitNothing,
                   VisitInstruction, Visit, Return, Running
          <6> QED BY <6>1, <6>2 DEF Finish, Ended, interpreter, vars
        <5> QED BY <5>1, <5>2
      <4> QED BY <4>1, <4>2
    <3> QED BY <1>3, <2>2, <2>3, <3>1, <3>2, <3>3 DEF ZdInv
  <2> QED BY <2>4, <2>5
<1>4. CASE UNCHANGED <<za_vars, vars>> /\ za_phase # "done"
  BY <1>4 DEF ZdInv, za_vars
<1>5. CASE Disassemble
  BY <1>3, <1>5 DEF Disassemble
<1>6. CASE UNCHANGED <<za_vars, vars>> /\ za_phase = "done"
  <2>1. UNCHANGED vars /\ UNCHANGED za_vars
    BY <1>6
  <2> QED BY <1>3, <1>6, <2>1
<1> QED BY <1>1, <1>2, <1>4, <1>5, <1>6 DEF TripNext

----------------------------------------------------------------------------
(* Where zd is.                                                            *)

(* Where its outermost call can be, and where it can go on from.           *)
AtPlace(p) ==
  \/ \E n \in 0..Len(source.lines) : Reached(n) /\ p = Start(n)
  \/ /\ Reached(Len(source.lines) + 1)
     /\ p > Start(Len(source.lines))

Going(p) ==
  \/ \E n \in 0..Len(source.lines) : Reached(n + 1) /\ p = Start(n)
  \/ /\ Reached(Len(source.lines) + 1)
     /\ p > Start(Len(source.lines))

Alive == IF stack = <<>> THEN control # "return" ELSE ~stack[1].returns

(* Nothing leads zd away from the lines, which end in one that returns.    *)
Quiet ==
  /\ \A n \in 1..Len(source.lines) : ~Names(Line(n)) /\ ~Jumps(Line(n))
  /\ ~Reached(Len(source.lines) + 1)

(* zd at a line.                                                           *)
LineAt(n) ==
  LET d == Decode(config, Start(n - 1))
  IN /\ InMemory(config, Start(n - 1))
     /\ d.status \in {"ok", "fail"}
     /\ d.status = "fail" => Names(Line(n))
     /\ d.status = "ok" =>
          /\ d.next = Start(n)
          /\ d.returns = Returning(Line(n))
          /\ d.to # NoAddress => Names(Line(n)) \/ Jumps(Line(n))

LEMMA AtLine ==
  ASSUME FileInv, Agreed, za_phase = "done", NEW n \in 1..Len(source.lines)
  PROVE  LineAt(n)
<1>1. /\ Line(n) \in SourceLine /\ Start(n - 1) \in Nat
      /\ \E table : Found(n, table)
  BY LinesFound
<1>2. PICK table : Found(n, table)
  BY <1>1
<1>3. /\ ReadsBack(config, Start(n - 1), Version, table, Line(n))
      /\ InMemory(config, Start(n - 1))
      /\ Start(n) = Start(n - 1) + Len(Za!Bytes(Version, table, Line(n)))
  BY <1>2 DEF Found
<1>4. config \in Config /\ config.story
  BY FileFacts, StoryFields DEF FileInv
<1> DEFINE i == Line(n)
           a == Start(n - 1)
           d == Decode(config, a)
           length == Len(Za!Bytes(Version, table, i))
<1>5. /\ i \in SourceLine /\ a \in Int /\ InMemory(config, a)
      /\ ReadsBack(config, a, Version, table, i) /\ Start(n) = a + length
  BY <1>1, <1>3
<1> HIDE DEF i, a
<1>6. /\ d.status \in {"ok", "fail"}
      /\ d.status = "fail" => Names(i)
      /\ d.status = "ok" =>
           /\ d.next = a + length
           /\ d.returns = Returning(i)
           /\ d.to # NoAddress => Names(i) \/ Jumps(i)
  BY <1>4, <1>5, LineDecoded
<1> QED BY Zenon, <1>5, <1>6 DEF LineAt, i, a

(* Its starts are numbers.                                                 *)
LEMMA StartTypes ==
  ASSUME FileInv, Agreed, za_phase = "done"
  PROVE  /\ Len(source.lines) \in Nat
         /\ \A n \in 0..Len(source.lines) : Start(n) \in Nat
<1>1. source \in Sources /\ WrittenInv /\ Len(ends) = Len(source.lines)
  BY DEF FileInv
<1>2. ASSUME NEW n \in 0..Len(source.lines) PROVE Start(n) \in Nat
  BY <1>1, StartFacts DEF StartsLate
<1> QED BY <1>1, <1>2, SourceType

LEMMA ReachedOn ==
  ASSUME NEW n \in Nat, Reached(n + 1), ~Returning(Line(n + 1))
  PROVE  Reached((n + 1) + 1)
BY DEF Reached

(* If zd goes on from a place and finds an instruction there, it comes to  *)
(* one of its places, and goes on from it unless the instruction returns.  *)
LEMMA GoesOn ==
  ASSUME FileInv, Agreed, za_phase = "done", NEW p \in Int, Going(p),
         Decode(config, p).status = "ok"
  PROVE  /\ Decode(config, p).next \in Int
         /\ AtPlace(Decode(config, p).next)
         /\ ~Decode(config, p).returns => Going(Decode(config, p).next)
         /\ Quiet => Decode(config, p).to = NoAddress
<1> DEFINE d == Decode(config, p)
           L == Len(source.lines)
<1>1. config \in Config /\ config.story
  BY FileFacts, StoryFields DEF FileInv
<1>2. L \in Nat /\ \A n \in 0..L : Start(n) \in Nat
  BY StartTypes
<1>3. d.next \in Int /\ d.next > p
  BY <1>1, NextLater
<1>4. ASSUME NEW n \in 0..(L - 1), Reached(n + 1), p = Start(n)
      PROVE  /\ AtPlace(d.next)
             /\ ~d.returns => Going(d.next)
             /\ Quiet => d.to = NoAddress
  <2>1. PICK m : m = n + 1
    OBVIOUS
  <2>2. m \in 1..L /\ m - 1 = n /\ m \in 0..L
    BY <1>2, <2>1
  <2>3. LineAt(m)
    BY <2>2, AtLine
  <2>4. /\ d.next = Start(m)
        /\ d.returns = Returning(Line(m))
        /\ d.to # NoAddress => Names(Line(m)) \/ Jumps(Line(m))
    BY <1>4, <2>2, <2>3 DEF LineAt
  <2> HIDE DEF d
  <2>5. AtPlace(d.next)
    BY <1>4, <2>1, <2>2, <2>4 DEF AtPlace
  <2>6. ~d.returns => Going(d.next)
    <3>1. ~Returning(Line(m)) => Reached(m + 1)
      BY <1>4, <2>1, ReachedOn
    <3> QED BY <2>2, <2>4, <3>1 DEF Going
  <2>7. Quiet => d.to = NoAddress
    BY <2>2, <2>4 DEF Quiet
  <2> QED BY <2>5, <2>6, <2>7
<1>5. ASSUME Reached(L + 1), p >= Start(L)
      PROVE  /\ AtPlace(d.next) /\ Going(d.next)
             /\ ~Quiet
  <2>1. Start(L) \in Nat
    BY <1>2
  <2> HIDE DEF d
  <2>2. d.next > Start(L)
    BY <1>3, <1>5, <2>1
  <2> QED BY <1>5, <2>2 DEF AtPlace, Going, Quiet
<1>6. \/ \E n \in 0..(L - 1) : Reached(n + 1) /\ p = Start(n)
      \/ Reached(L + 1) /\ p >= Start(L)
  <2>1. CASE \E n \in 0..L : Reached(n + 1) /\ p = Start(n)
    <3>1. PICK n \in 0..L : Reached(n + 1) /\ p = Start(n)
      BY <2>1
    <3>2. n \in 0..(L - 1) \/ n = L
      BY <1>2
    <3> QED BY <3>1, <3>2
  <2>2. CASE Reached(L + 1) /\ p > Start(L)
    BY <1>2, <2>2
  <2> QED BY <2>1, <2>2 DEF Going
<1> HIDE DEF d, L
<1>7. /\ AtPlace(d.next)
      /\ ~d.returns => Going(d.next)
      /\ Quiet => d.to = NoAddress
  BY <1>4, <1>5, <1>6
<1> QED BY <1>3, <1>7 DEF d

(* If nothing leads zd away, it goes on from lines only.                   *)
LEMMA QuietPlace ==
  ASSUME FileInv, Agreed, za_phase = "done", NEW p, Going(p), Quiet
  PROVE  \E n \in 1..Len(source.lines) : p = Start(n - 1)
<1> DEFINE L == Len(source.lines)
<1>1. L \in Nat /\ ~Reached(L + 1)
  BY StartTypes DEF Quiet
<1>2. PICK n \in 0..L : Reached(n + 1) /\ p = Start(n)
  BY <1>1 DEF Going
<1>3. n # L
  BY <1>1, <1>2
<1>4. n + 1 \in 1..L /\ (n + 1) - 1 = n
  BY <1>1, <1>3
<1> HIDE DEF L
<1>5. PICK m : m = n + 1
  OBVIOUS
<1> QED BY <1>2, <1>4, <1>5 DEF L

(* All this is as za has left it.                                          *)
LEMMA Steady ==
  ASSUME UNCHANGED <<source, bytes, ends, unicode_table>>, config' = config
  PROVE  /\ \A n : Start(n)' = Start(n) /\ Line(n)' = Line(n)
         /\ \A n : Reached(n)' = Reached(n)
         /\ \A i : Names(i)' = Names(i)
         /\ \A p : AtPlace(p)' = AtPlace(p) /\ Going(p)' = Going(p)
         /\ Quiet' = Quiet
<1>1. \A n : Start(n)' = Start(n) /\ Line(n)' = Line(n)
  BY DEF Start, Line, CodeStart
<1>2. \A n : Reached(n)' = Reached(n)
  BY <1>1 DEF Reached
<1>3. \A i : Names(i)' = Names(i)
  BY DEF Names
<1>4. source' = source
  OBVIOUS
<1>5. \A p : AtPlace(p)' = AtPlace(p) /\ Going(p)' = Going(p)
  BY <1>1, <1>2, <1>4 DEF AtPlace, Going
<1>6. Quiet' = Quiet
  BY <1>1, <1>2, <1>3, <1>4 DEF Quiet
<1> QED BY <1>1, <1>2, <1>3, <1>5, <1>6

----------------------------------------------------------------------------
(* zd keeps its place.                                                     *)

PlaceInv ==
  rooted = 1 =>
    \A p \in {Outermost} : p \in Int /\ AtPlace(p) /\ (Alive => Going(p))

LEMMA FirstKept ==
  ASSUME NEW S, NEW q \in Seq(S), q # <<>>, Len(q) # 1
  PROVE  /\ SubSeq(q, 1, Len(q) - 1) # <<>>
         /\ SubSeq(q, 1, Len(q) - 1)[1] = q[1]
<1>1. PICK k \in Nat : k = Len(q) /\ k # 0
  OBVIOUS
<1>2. PICK n \in Nat : n = k - 1 /\ n >= 1
  <2>1. k - 1 \in Nat /\ k - 1 >= 1
    BY <1>1
  <2> QED BY <2>1
<1> PICK r : r = SubSeq(q, 1, n)
  OBVIOUS
<1>3. Len(r) = n /\ 1 \in 1..n
  BY <1>1, <1>2
<1>4. r[1] = q[1]
  BY <1>1, <1>2
<1>5. Len(r) # 0
  BY <1>2, <1>3
<1>6. r # <<>>
  BY <1>5
<1> QED BY <1>1, <1>2, <1>4, <1>6

LEMMA PlaceStep ==
  ASSUME FileInv, Agreed, ZdInv, PlaceInv, za_phase = "done",
         [Next]_vars, UNCHANGED za_vars
  PROVE  PlaceInv'
<1>1. /\ TypeOK /\ Unstarted
      /\ phase # "start" => roots = <<CodeStart>>
      /\ rooted = 0 => control = "return" /\ stack = <<>>
  BY DEF ZdInv
<1>2. /\ rooted \in Nat /\ pc \in Int
      /\ stack \in Seq([pc : Int, returns : BOOLEAN])
  BY <1>1 DEF TypeOK
<1>3. UNCHANGED <<source, bytes, ends, unicode_table>> /\ config' = config
  BY ConfigKept DEF za_vars
<1>4. \A p : AtPlace(p)' = AtPlace(p) /\ Going(p)' = Going(p)
  BY <1>3, Steady
<1>5. ASSUME rooted' = rooted, Outermost' = Outermost, Alive' => Alive
      PROVE  PlaceInv'
  BY <1>4, <1>5 DEF PlaceInv
<1>6. CASE Begin
  <2>1. rooted' = 0
    BY <1>1, <1>6 DEF Begin, Unstarted
  <2> QED BY <2>1 DEF PlaceInv
<1>7. CASE NextRoot
  <2>1. /\ stack' = <<>> /\ pc' = roots[rooted + 1] /\ rooted < Len(roots)
        /\ roots = <<CodeStart>>
    BY <1>1, <1>7 DEF NextRoot, Enter, Running
  <2>2. pc' = CodeStart
    <3>1. Len(roots) = 1
      BY <2>1
    <3>2. rooted = 0
      BY <1>2, <2>1, <3>1
    <3> QED BY <2>1, <3>2
  <2>3. Outermost' = CodeStart
    BY <2>1, <2>2 DEF Outermost
  <2>4. CodeStart \in Int /\ AtPlace(CodeStart) /\ Going(CodeStart)
    <3>1. Len(source.lines) \in Nat /\ Start(0) = CodeStart
      BY StartTypes DEF Start
    <3>2. 0 \in 0..Len(source.lines) /\ 0 + 1 = 1 /\ Reached(0) /\ Reached(1)
      BY <3>1 DEF Reached
    <3>3. CodeStart \in Int
      BY CodeStartType DEF FileInv
    <3> QED BY <3>1, <3>2, <3>3 DEF AtPlace, Going
  <2> QED BY <1>4, <2>3, <2>4 DEF PlaceInv
<1>8. CASE VisitInstruction
  <2> DEFINE d == Decode(config, pc)
  <2>1. /\ phase = "run" /\ control = "loop" /\ d.status = "ok"
        /\ rooted' = rooted
        /\ IF Follows(d)
             THEN /\ pc' = d.to
                  /\ stack' = Append(stack, Frame(d.next, d.returns))
             ELSE /\ control' = IF d.returns THEN "return" ELSE "loop"
                  /\ pc' = d.next
                  /\ stack' = stack
    BY <1>8 DEF VisitInstruction, Visit, Running, Enter
  <2>2. CASE rooted # 1
    BY <2>1, <2>2 DEF PlaceInv
  <2>3. CASE rooted = 1 /\ stack = <<>>
    <3>1. Outermost = pc /\ Alive
      BY <2>1, <2>3 DEF Outermost, Alive
    <3>2. Going(pc)
      BY <2>3, <3>1 DEF PlaceInv
    <3>3. /\ d.next \in Int /\ AtPlace(d.next) /\ (~d.returns => Going(d.next))
      BY <1>2, <2>1, <3>2, GoesOn
    <3> PICK q, r : q = d.next /\ r = d.returns
      OBVIOUS
    <3>4. Outermost' = q /\ (Alive' => ~r)
      <4>1. CASE Follows(d)
        <5>1. stack' = <<Frame(q, r)>>
          BY <2>1, <2>3, <4>1
        <5>2. stack' # <<>> /\ stack'[1] = Frame(q, r)
          BY <5>1
        <5>3. Frame(q, r).pc = q /\ Frame(q, r).returns = r
          BY DEF Frame
        <5> QED BY Zenon, <5>2, <5>3 DEF Outermost, Alive
      <4>2. CASE ~Follows(d)
        <5>1. stack' = <<>> /\ pc' = q /\ control' = IF r THEN "return" ELSE "loop"
          BY <2>1, <2>3, <4>2
        <5> QED BY <5>1 DEF Outermost, Alive
      <4> QED BY <4>1, <4>2
    <3>5. q \in Int /\ AtPlace(q) /\ (~r => Going(q))
      BY <3>3
    <3> HIDE DEF d
    <3> QED BY <1>4, <3>4, <3>5 DEF PlaceInv
  <2>4. CASE stack # <<>>
    <3>1. stack' # <<>> /\ stack'[1] = stack[1]
      <4>1. PICK f : f = Frame(d.next, d.returns)
        OBVIOUS
      <4>2. stack' = stack \/ stack' = Append(stack, f)
        BY <2>1, <4>1
      <4> HIDE DEF d
      <4> QED BY <1>2, <2>4, <4>2
    <3>2. Outermost' = Outermost /\ Alive' = Alive
      BY Zenon, <2>4, <3>1 DEF Outermost, Alive
    <3> QED BY <1>5, <2>1, <3>2
  <2> QED BY <2>2, <2>3, <2>4
<1>9. CASE Return
  <2> DEFINE f == stack[Len(stack)]
  <2>1. /\ stack # <<>> /\ rooted' = rooted
        /\ pc' = f.pc /\ control' = (IF f.returns THEN "return" ELSE "loop")
        /\ stack' = SubSeq(stack, 1, Len(stack) - 1)
    BY <1>9 DEF Return, Popped
  <2>2. CASE Len(stack) = 1
    <3>1. stack' = <<>> /\ f = stack[1]
      BY <1>2, <2>1, <2>2
    <3>2. Outermost' = Outermost
      BY <2>1, <3>1 DEF Outermost
    <3>3. Alive' => Alive
      BY <2>1, <3>1 DEF Alive
    <3> QED BY <1>5, <2>1, <3>2, <3>3
  <2>3. CASE Len(stack) # 1
    <3>1. stack' # <<>> /\ stack'[1] = stack[1]
      BY <1>2, <2>1, <2>3, FirstKept
    <3>2. Outermost' = Outermost /\ Alive' = Alive
      BY Zenon, <2>1, <3>1 DEF Outermost, Alive
    <3> QED BY <1>5, <2>1, <3>2
  <2> QED BY <2>2, <2>3
<1>10. CASE Finish \/ Ended \/ UNCHANGED vars
  <2>1. UNCHANGED <<rooted, control, pc, stack>>
    BY <1>10 DEF Finish, Ended, vars, interpreter
  <2>2. Outermost' = Outermost /\ Alive' = Alive
    BY <2>1 DEF Outermost, Alive
  <2> QED BY <1>5, <2>1, <2>2
<1>11. CASE CheckAddress \/ StopAtLimit \/ StopAtSeen \/ VisitNothing
  <2>1. UNCHANGED <<rooted, pc, stack>> /\ control # "return"
    BY <1>11 DEF CheckAddress, StopAtLimit, StopAtSeen, VisitNothing, Visit,
                 Running
  <2>2. Outermost' = Outermost /\ (Alive' => Alive)
    BY <2>1 DEF Outermost, Alive
  <2> QED BY <1>5, <2>1, <2>2
<1> QED BY <1>6, <1>7, <1>8, <1>9, <1>10, <1>11 DEF Next

(* While nothing leads it away, it makes no call; an error has its reason  *)
(* in a line; and until there is one, what it has seen it has listed.      *)
QuietInv == Quiet /\ phase = "run" => stack = <<>>

Noted(a) ==
  /\ Decode(config, a).status = "ok"
  /\ \E k \in 1..Len(instructions) : instructions[k] = a

SeenInv == phase \in {"start", "run", "done"} => \A a \in seen : Noted(a)

(* Where zd looks for an instruction while nothing leads it away.          *)
LEMMA QuietLook ==
  ASSUME FileInv, Agreed, ZdInv, PlaceInv, QuietInv, za_phase = "done",
         phase = "run", control # "return", Quiet
  PROVE  /\ stack = <<>> /\ Going(pc) /\ pc \in Int
         /\ \E n \in 1..Len(source.lines) :
              pc = Start(n - 1) /\ LineAt(n) /\ ~Names(Line(n))
<1>1. stack = <<>>
  BY DEF QuietInv
<1>2. rooted = 1
  <2>1. /\ roots = <<CodeStart>> /\ rooted \in 0..Len(roots) /\ rooted # 0
    BY DEF ZdInv, TypeOK
  <2>2. Len(roots) = 1
    BY <2>1
  <2> QED BY <2>1, <2>2
<1>3. Outermost = pc /\ Alive
  BY <1>1 DEF Outermost, Alive
<1>4. pc \in Int /\ Going(pc)
  BY <1>2, <1>3 DEF PlaceInv
<1>5. PICK n \in 1..Len(source.lines) : pc = Start(n - 1)
  BY <1>4, QuietPlace
<1>6. LineAt(n) /\ ~Names(Line(n))
  BY AtLine DEF Quiet
<1> QED BY <1>1, <1>4, <1>5, <1>6

LEMMA QuietStep ==
  ASSUME FileInv, Agreed, ZdInv, PlaceInv, QuietInv, za_phase = "done",
         [Next]_vars, UNCHANGED za_vars
  PROVE  QuietInv'
<1>1. UNCHANGED <<source, bytes, ends, unicode_table>> /\ config' = config
  BY ConfigKept DEF za_vars
<1>2. Quiet' = Quiet
  BY <1>1, Steady
<1>3. CASE Begin
  <2>1. stack' = <<>>
    BY <1>3 DEF Begin, ZdInv, Unstarted, interpreter
  <2> QED BY <2>1 DEF QuietInv
<1>4. CASE VisitInstruction
  <2>1. /\ phase = "run" /\ control = "loop"
        /\ Decode(config, pc).status = "ok"
    BY <1>4 DEF VisitInstruction, Visit, Running
  <2>2. ASSUME Quiet PROVE stack' = <<>>
    <3>1. stack = <<>> /\ Going(pc) /\ pc \in Int
      BY <2>1, <2>2, QuietLook
    <3>2. ~Follows(Decode(config, pc))
      BY <2>1, <2>2, <3>1, GoesOn DEF Follows
    <3>3. stack' = stack
      BY <1>4, <3>2 DEF VisitInstruction
    <3> QED BY <3>1, <3>3
  <2> QED BY <1>2, <2>2 DEF QuietInv
<1>5. CASE Return
  <2>1. phase = "run" /\ stack # <<>>
    BY <1>5 DEF Return, Running
  <2> QED BY <1>2, <2>1 DEF QuietInv
<1>6. CASE ~Begin /\ ~VisitInstruction /\ ~Return
  <2>1. stack' = stack /\ (phase' = "run" => phase = "run")
    BY <1>6 DEF Next, NextRoot, Finish, CheckAddress, StopAtLimit, StopAtSeen,
                VisitNothing, Visit, Ended, Running, vars, interpreter
  <2> QED BY <1>2, <2>1 DEF QuietInv
<1> QED BY <1>3, <1>4, <1>5, <1>6

LEMMA ErrorStep ==
  ASSUME FileInv, Agreed, ZdInv, PlaceInv, QuietInv, ErrorsNamed,
         za_phase = "done", [Next]_vars, UNCHANGED za_vars
  PROVE  ErrorsNamed'
<1> DEFINE L == Len(source.lines)
           wrong == phase' \in {"error", "panic"}
<1>1. UNCHANGED <<source, bytes, ends, unicode_table>> /\ config' = config
  BY ConfigKept DEF za_vars
<1>2. /\ \A n : Start(n)' = Start(n) /\ Line(n)' = Line(n)
      /\ \A n : Reached(n)' = Reached(n)
      /\ \A i : Names(i)' = Names(i)
  BY <1>1, Steady
<1>3. source' = source
  BY <1>1
<1>4. ASSUME wrong => /\ \A n \in 1..L : pc' = Start(n - 1) => Names(Line(n))
                      /\ ~Quiet
      PROVE  ErrorsNamed'
  <2> SUFFICES ASSUME wrong PROVE ErrorsNamed'
    BY DEF ErrorsNamed
  <2>1. \A n \in 1..L : pc' = Start(n - 1) => Names(Line(n))
    BY <1>4
  <2>2. (\E n \in 1..L : Names(Line(n)) \/ Jumps(Line(n))) \/ Reached(L + 1)
    BY <1>4 DEF Quiet
  <2>3. \A n \in 1..Len(source'.lines) :
          pc' = Start(n - 1)' => Names(Line(n))'
    <3>1. ASSUME NEW n \in 1..L, pc' = Start(n - 1)' PROVE Names(Line(n))'
      <4>1. pc' = Start(n - 1)
        BY <1>2, <3>1
      <4>2. PICK i : i = Line(n)
        OBVIOUS
      <4>3. Names(i)'
        BY <1>2, <2>1, <4>1, <4>2
      <4>4. Line(n)' = i
        BY <1>2, <4>2
      <4> QED BY <1>1, <4>3, <4>4 DEF Names
    <3> QED BY <1>3, <3>1
  <2>4. \/ \E n \in 1..Len(source'.lines) : Names(Line(n))' \/ Jumps(Line(n))'
        \/ Reached(Len(source.lines) + 1)'
    <3>1. CASE \E n \in 1..L : Names(Line(n)) \/ Jumps(Line(n))
      <4>1. PICK n \in 1..L : Names(Line(n)) \/ Jumps(Line(n))
        BY <3>1
      <4>2. PICK i : i = Line(n)
        OBVIOUS
      <4>3. Line(n)' = i
        BY <1>2, <4>2
      <4>4. Names(i) => Names(Line(n))'
        BY <1>1, <4>3 DEF Names
      <4>5. Jumps(i) => Jumps(Line(n))'
        BY <4>3 DEF Jumps
      <4> QED BY <1>3, <4>1, <4>2, <4>4, <4>5
    <3>2. CASE Reached(L + 1)
      <4>1. Reached(Len(source.lines) + 1)' = Reached(L + 1)
        BY <1>1, <1>2, <1>3 DEF Reached
      <4> QED BY <3>2, <4>1
    <3> QED BY <2>2, <3>1, <3>2
  <2> QED BY <2>3, <2>4 DEF ErrorsNamed
<1>5. CASE Begin
  <2>1. Given = <<0>> /\ ~MainFails /\ ~AddressFails(0)
    BY BeginsAt
  <2>2. \A i \in 1..Len(Given) : Given[i] = 0
    BY <2>1
  <2>3. phase' = "run"
    BY <1>5, <2>1, <2>2 DEF Begin
  <2> QED BY <1>4, <2>3
<1>6. CASE CheckAddress
  <2>1. /\ phase = "run" /\ control = "enter" /\ pc' = pc
        /\ wrong => ~InMemory(config, pc)
    BY <1>6 DEF CheckAddress, Running
  <2>2. ASSUME wrong, NEW n \in 1..L, pc = Start(n - 1) PROVE FALSE
    BY <2>1, <2>2, AtLine DEF LineAt
  <2>3. ASSUME wrong, Quiet PROVE FALSE
    <3>1. \E n \in 1..L : pc = Start(n - 1)
      BY <2>1, <2>3, QuietLook
    <3> QED BY <2>2, <2>3, <3>1
  <2> HIDE DEF L, wrong
  <2> QED BY <1>4, <2>1, <2>2, <2>3
<1>7. CASE VisitNothing
  <2>1. /\ phase = "run" /\ control = "loop" /\ pc' = pc
        /\ Decode(config, pc).status # "ok"
    BY <1>7 DEF VisitNothing, Visit, Running
  <2>2. ASSUME NEW n \in 1..L, pc = Start(n - 1) PROVE Names(Line(n))
    <3>1. /\ Decode(config, pc).status \in {"ok", "fail"}
          /\ Decode(config, pc).status = "fail" => Names(Line(n))
      BY <2>2, AtLine DEF LineAt
    <3> QED BY <2>1, <3>1
  <2>3. ASSUME Quiet PROVE FALSE
    <3>1. \E n \in 1..L : pc = Start(n - 1) /\ ~Names(Line(n))
      BY <2>1, <2>3, QuietLook
    <3> QED BY <2>2, <3>1
  <2> HIDE DEF L, wrong
  <2> QED BY <1>4, <2>1, <2>2, <2>3
<1>8. CASE Ended \/ UNCHANGED vars
  <2>1. phase' = phase /\ pc' = pc
    BY <1>8 DEF Ended, vars, interpreter
  <2>2. wrong => ErrorsNamed /\ phase \in {"error", "panic"}
    BY <2>1
  <2>3. wrong => /\ \A n \in 1..L : pc' = Start(n - 1) => Names(Line(n))
                 /\ ~Quiet
    BY <2>1, <2>2 DEF ErrorsNamed, Quiet
  <2> HIDE DEF L, wrong
  <2> QED BY <1>4, <2>3
<1>9. CASE NextRoot \/ Finish \/ StopAtLimit \/ StopAtSeen
             \/ VisitInstruction \/ Return
  <2>1. phase' = "run" \/ phase' = "done"
    BY <1>9 DEF NextRoot, Finish, StopAtLimit, StopAtSeen, VisitInstruction,
                Visit, Return, Running
  <2> QED BY <1>4, <2>1
<1> QED BY <1>5, <1>6, <1>7, <1>8, <1>9 DEF Next

(* Given a story, zd does not take the end of memory for the end.          *)
LEMMA NoQuit ==
  ASSUME NEW c, c.story, NEW a
  PROVE  Decode(c, a).status # "quit"
<1> DEFINE s == Shape(c, a)
<1>1. Instruction(c, s).status \in {"ok", "fail"}
  BY Zenon DEF Instruction, Result, Ends
<1>2. \A x : Ends(x).status = x
  BY DEF Ends, Result
<1> HIDE DEF s
<1> QED BY Zenon, <1>1, <1>2 DEF Decode, s

LEMMA SeenStep ==
  ASSUME FileInv, Agreed, ZdInv, SeenInv, za_phase = "done", [Next]_vars,
         UNCHANGED za_vars
  PROVE  SeenInv'
<1>1. config' = config
  BY ConfigKept
<1>2. TypeOK /\ instructions \in Seq(Int)
  BY DEF ZdInv, TypeOK
<1>3. config.story = TRUE /\ config.ignore_errors = FALSE
  BY StoryFields DEF FileInv
<1>4. CASE VisitInstruction
  <2>1. /\ phase = "run" /\ phase' = "run" /\ seen' = seen \cup {pc}
        /\ instructions' = Append(instructions, pc)
        /\ Decode(config, pc).status = "ok"
    BY <1>4 DEF VisitInstruction, Visit, Running
  <2> PICK n \in Nat : n = Len(instructions)
    BY <1>2
  <2>2. /\ Len(instructions') = n + 1 /\ instructions'[n + 1] = pc
        /\ \A k \in 1..n : instructions'[k] = instructions[k]
    BY <1>2, <2>1
  <2>3. ASSUME NEW a \in seen'
        PROVE  /\ Decode(config, a).status = "ok"
               /\ \E k \in 1..Len(instructions') : instructions'[k] = a
    <3>1. CASE a = pc
      <4>1. n + 1 \in 1..Len(instructions')
        BY <2>2
      <4> QED BY <2>1, <2>2, <3>1, <4>1
    <3>2. CASE a # pc
      <4>1. a \in seen
        BY <2>1, <3>2
      <4>2. Noted(a)
        BY <2>1, <4>1 DEF SeenInv
      <4>3. PICK k \in 1..n : instructions[k] = a
        BY <4>2 DEF Noted
      <4>4. k \in 1..Len(instructions') /\ instructions'[k] = a
        BY <2>2, <4>3
      <4> QED BY <4>2, <4>4 DEF Noted
    <3> QED BY <3>1, <3>2
  <2> QED BY <1>1, <2>3 DEF SeenInv, Noted
<1>5. CASE VisitNothing
  <2>1. phase' \in {"error", "panic"}
    <3>1. Decode(config, pc).status # "quit"
      BY <1>3, NoQuit
    <3> QED BY <1>3, <1>5, <3>1 DEF VisitNothing
  <2> QED BY <2>1 DEF SeenInv
<1>6. CASE ~VisitInstruction /\ ~VisitNothing
  <2>1. /\ seen' = seen /\ instructions' = instructions
        /\ phase' \in {"start", "run", "done"} =>
             phase \in {"start", "run", "done"}
    BY <1>6 DEF Next, Begin, NextRoot, Finish, CheckAddress, StopAtLimit,
                StopAtSeen, Return, Ended, Running, vars, found
  <2> QED BY <1>1, <2>1 DEF SeenInv, Noted
<1> QED BY <1>4, <1>5, <1>6

----------------------------------------------------------------------------
(* All of it together.                                                     *)

TripInv ==
  /\ FileInv /\ ZdInv
  /\ za_phase = "done" => PlaceInv /\ QuietInv /\ ErrorsNamed /\ SeenInv

LEMMA TripStart == TripInit => TripInv
<1> SUFFICES ASSUME TripInit PROVE TripInv
  OBVIOUS
<1>1. FileInv /\ za_phase # "done"
  BY FileInit DEF TripInit
<1> QED BY <1>1 DEF TripInv, ZdInv

LEMMA TripStep ==
  ASSUME TripInv, Agreed, [TripNext]_<<za_vars, vars>>
  PROVE  TripInv'
<1>1. FileInv' /\ ZdInv'
  BY FileStep, ZdStep DEF TripInv
<1>2. CASE Assemble \/ Failed
  <2>1. za_phase' # "done"
    BY <1>2 DEF Assemble, Failed, za_vars
  <2> QED BY <1>1, <2>1 DEF TripInv
<1>3. CASE EndFile
  <2>1. Idle'
    BY <1>3 DEF EndFile, TripInv, FileInv, Idle, interpreter, found
  <2> QED BY <1>1, <2>1
          DEF TripInv, Idle, PlaceInv, QuietInv, ErrorsNamed, SeenInv
<1>4. CASE za_phase = "done" /\ [Next]_vars /\ UNCHANGED za_vars
  <2>1. FileInv /\ ZdInv /\ PlaceInv /\ QuietInv /\ ErrorsNamed /\ SeenInv
    BY <1>4 DEF TripInv
  <2>2. PlaceInv' /\ QuietInv' /\ ErrorsNamed' /\ SeenInv'
    BY <1>4, <2>1, PlaceStep, QuietStep, ErrorStep, SeenStep
  <2> QED BY <1>1, <2>2 DEF TripInv
<1>5. CASE Disassemble
  BY <1>4, <1>5 DEF Disassemble
<1>6. CASE UNCHANGED <<za_vars, vars>>
  <2>1. CASE za_phase = "done"
    BY <1>4, <1>6, <2>1
  <2>2. CASE za_phase # "done"
    <3>1. za_phase' # "done"
      BY <1>6, <2>2 DEF za_vars
    <3> QED BY <1>1, <3>1 DEF TripInv
  <2> QED BY <2>1, <2>2
<1> QED BY <1>2, <1>3, <1>5, <1>6 DEF TripNext

LEMMA TripHolds ==
  ASSUME Agreed
  PROVE  TripSpec => []TripInv
<1>1. TripInv /\ [TripNext]_<<za_vars, vars>> => TripInv'
  BY TripStep
<1> QED BY <1>1, TripStart, PTL DEF TripSpec

(* Before za is done, zd is.                                               *)
LEMMA NotYet ==
  ASSUME TripInv, za_phase # "done"
  PROVE  Idle
BY DEF TripInv, FileInv

(* If all the instructions of the sources are ones that za and zd agree    *)
(* on: whatever the lines call, jump to and name, zd's outermost call goes *)
(* from line to line in the order za wrote them up to one that returns.    *)
THEOREM InStepHolds ==
  ASSUME Agreed
  PROVE  TripSpec => []InStep
<1>1. TripInv => InStep
  <2> SUFFICES ASSUME TripInv PROVE InStep
    OBVIOUS
  <2>1. CASE za_phase = "done"
    <3>1. PlaceInv
      BY <2>1 DEF TripInv
    <3> QED BY <3>1 DEF PlaceInv, AtPlace, InStep
  <2>2. CASE za_phase # "done"
    BY <2>2, NotYet DEF Idle, InStep
  <2> QED BY <2>1, <2>2
<1> QED BY <1>1, TripHolds, PTL

(* And if it ends in an error, that is over a text or a routine that the   *)
(* line it is at names, or because a line named or jumped to an address or *)
(* none returned.                                                          *)
THEOREM ErrorsNamedHolds ==
  ASSUME Agreed
  PROVE  TripSpec => []ErrorsNamed
<1>1. TripInv => ErrorsNamed
  <2> SUFFICES ASSUME TripInv PROVE ErrorsNamed
    OBVIOUS
  <2>1. CASE za_phase # "done"
    BY <2>1, NotYet DEF Idle, ErrorsNamed
  <2> QED BY <2>1 DEF TripInv
<1> QED BY <1>1, TripHolds, PTL

(* A line that control comes to is one zd has seen in the end.             *)
LEMMA LineSeen ==
  ASSUME TripInv, Agreed, phase = "done", za_phase = "done"
  PROVE  \A n \in 1..Len(source.lines) : Reached(n) => Start(n - 1) \in seen
<1> DEFINE L == Len(source.lines)
           G == {k \in Nat : k + 1 <= L /\ Reached(k + 1) => Start(k) \in seen}
<1>1. FileInv /\ ZdInv /\ SeenInv /\ L \in Nat
  BY StartTypes DEF TripInv
<1>2. config.story = TRUE /\ config.max_instructions = <<>>
  BY <1>1, StoryFields DEF FileInv
<1>3. /\ roots = <<CodeStart>>
      /\ RootsIn(config) \subseteq seen
      /\ \A a \in seen : Successors(config, a) \subseteq seen
  <2>1. ~Limited
    BY <1>2 DEF Limited
  <2> QED BY <1>1, <2>1 DEF ZdInv, SearchInv, NothingMissed
<1>4. 0 \in G
  <2> SUFFICES ASSUME 0 + 1 <= L PROVE Start(0) \in seen
    OBVIOUS
  <2>1. 1 \in 1..L /\ 1 - 1 = 0
    BY <1>1
  <2>2. LineAt(1)
    BY <1>1, <2>1, AtLine
  <2>3. InMemory(config, CodeStart)
    BY <2>1, <2>2 DEF LineAt, Start
  <2>4. 1 \in 1..Len(roots) /\ roots[1] = CodeStart
    BY <1>3
  <2>5. CodeStart \in RootsIn(config)
    BY <2>3, <2>4 DEF RootsIn
  <2> QED BY <1>3, <2>5 DEF Start
<1>5. ASSUME NEW k \in Nat, k \in G PROVE k + 1 \in G
  <2> SUFFICES ASSUME (k + 1) + 1 <= L, Reached((k + 1) + 1)
               PROVE  Start(k + 1) \in seen
    OBVIOUS
  <2>1. k + 1 \in 1..L /\ (k + 1) - 1 = k /\ k + 1 <= L
    BY <1>1
  <2>2. Reached(k + 1) /\ ~Returning(Line(k + 1))
    <3>1. \A m \in 1..(((k + 1) + 1) - 1) : ~Returning(Line(m))
      BY DEF Reached
    <3>2. /\ k + 1 \in 1..(((k + 1) + 1) - 1)
          /\ \A m \in 1..((k + 1) - 1) : m \in 1..(((k + 1) + 1) - 1)
      OBVIOUS
    <3> QED BY <3>1, <3>2 DEF Reached
  <2>3. Start(k) \in seen
    BY <1>5, <2>1, <2>2
  <2>4. Decode(config, Start(k)).status = "ok"
    BY <1>1, <2>3 DEF SeenInv, Noted
  <2>5. /\ Decode(config, Start(k)).next = Start(k + 1)
        /\ ~Decode(config, Start(k)).returns
    <3>1. LineAt(k + 1)
      BY <1>1, <2>1, AtLine
    <3> QED BY <2>1, <2>2, <2>4, <3>1 DEF LineAt
  <2>6. Start(k + 1) \in Successors(config, Start(k))
    BY <2>4, <2>5 DEF Successors
  <2> QED BY <1>3, <2>3, <2>6
<1>6. \A k \in Nat : k \in G
  <2> HIDE DEF G
  <2> QED BY <1>4, <1>5, Induction
<1>7. ASSUME NEW n \in 1..L, Reached(n) PROVE Start(n - 1) \in seen
  <2>1. PICK k \in Nat : k = n - 1
    BY <1>1
  <2>2. k \in G /\ k + 1 = n /\ k + 1 <= L
    BY <1>1, <1>6, <2>1
  <2> QED BY <1>7, <2>1, <2>2
<1> QED BY <1>7

(* And if it ends without one, it has listed every line that control comes *)
(* to, whatever was called and jumped to in between.                       *)
THEOREM AllListedHolds ==
  ASSUME Agreed
  PROVE  TripSpec => []AllListed
<1>1. TripInv => AllListed
  <2> SUFFICES ASSUME TripInv, phase = "done",
                      NEW n \in 1..Len(source.lines), Reached(n)
               PROVE  Listed(n)
    BY DEF AllListed
  <2>1. za_phase = "done"
    BY NotYet DEF Idle
  <2>2. Start(n - 1) \in seen
    BY <2>1, LineSeen
  <2>3. Noted(Start(n - 1))
    BY <2>1, <2>2 DEF TripInv, SeenInv
  <2> QED BY <2>3 DEF Noted, Listed
<1> QED BY <1>1, TripHolds, PTL

(* Each instruction that zd lists, of each line, has the opcode, the       *)
(* operands, the store variable and the branch that the source has.        *)
THEOREM InstructionsReadBackHolds ==
  ASSUME Agreed
  PROVE  TripSpec => []InstructionsReadBack
<1>1. TripInv => InstructionsReadBack
  <2> SUFFICES ASSUME TripInv, NEW n \in 1..Len(source.lines),
                      za_phase = "done"
               PROVE  WithoutText(Entry(n)) = WithoutText(Meaning(Line(n)))
    BY DEF InstructionsReadBack
  <2>1. PICK table : Found(n, table)
    BY LinesFound DEF TripInv
  <2>2. ReadsBack(config, Start(n - 1), Version, table, Line(n))
    BY <2>1 DEF Found
  <2>3. \A own : WithoutText(Listing(config, Start(n - 1), own)) =
                   WithoutText(Meaning(Line(n)))
    BY <2>2 DEF ReadsBack
  <2> QED BY <2>3 DEF Entry
<1> QED BY <1>1, TripHolds, PTL

(* Every text of the sources is of characters that za and zd agree on.     *)
LegibleSources ==
  \A s \in Sources :
    \A n \in 1..Len(s.lines) : LegibleLine(s.version, s.lines[n])

(* If besides every text is of characters that za and zd agree on, each    *)
(* text reads as the source has it, with the table as zd finds it in the   *)
(* file, although every string was written with the table as it was then.  *)
THEOREM TextsReadBackHolds ==
  ASSUME Agreed, LegibleSources
  PROVE  TripSpec => []TextsReadBack
<1>1. TripInv => TextsReadBack
  <2> SUFFICES ASSUME TripInv, NEW n \in 1..Len(source.lines),
                      za_phase = "done"
               PROVE  Entry(n).text = Meaning(Line(n)).text
    BY DEF TextsReadBack
  <2>1. FileInv
    BY DEF TripInv
  <2>2. source \in Sources /\ WrittenInv /\ ~TooLong /\ config = Story
    BY <2>1 DEF FileInv
  <2>3. PICK i : i = Line(n)
    OBVIOUS
  <2>4. PICK table : Found(n, table)
    BY <2>1, LinesFound
  <2>5. /\ Fits(Version, table, i) /\ Grown(table, unicode_table)
        /\ ReadsBack(config, Start(n - 1), Version, table, i)
    BY <2>3, <2>4 DEF Found
  <2>6. /\ Version \in 1..8 /\ i \in SourceLine
    BY <2>2, <2>3, LineType DEF Version, Line
  <2>7. LegibleLine(Version, i)
    BY <2>2, <2>3 DEF LegibleSources, Version, Line
  <2>8. Finished(Version, table, unicode_table)
    <3>1. unicode_table \in Seq(Nat)
      BY <2>2, Widened DEF WrittenInv
    <3> QED BY <2>2, <2>5, <3>1 DEF Finished, WrittenInv
  <2>9. TextRead(Version, table, i, unicode_table) = Meaning(i).text
    BY <2>5, <2>6, <2>7, <2>8, TextFacts
  <2>10. Entry(n).text = TextRead(Version, table, i, unicode_table)
    <3>1. OwnTable(config) = unicode_table
      BY <2>2, OwnTableFacts
    <3>2. \A own : Listing(config, Start(n - 1), own).text =
                     TextRead(Version, table, i, own)
      BY <2>5 DEF ReadsBack
    <3> QED BY Zenon, <3>1, <3>2 DEF Entry
  <2> QED BY <2>3, <2>9, <2>10
<1> QED BY <1>1, TripHolds, PTL
=============================================================================

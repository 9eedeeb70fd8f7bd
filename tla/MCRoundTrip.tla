---------------------------- MODULE MCRoundTrip ----------------------------
(***************************************************************************)
(* Sources for RoundTrip: each instruction of each version, with operands  *)
(* of every kind, and strings of every kind of character; and calls of     *)
(* routines, jumps and texts among the instructions themselves.            *)
(***************************************************************************)
EXTENDS RoundTrip

(* What za writes by itself after the header, and for the start directive: *)
(* the header extension, the globals, the object table and its one object, *)
(* whose name is "Default object", an empty dictionary, and in V6 the byte *)
(* of the main routine.                                                    *)
Zeros(n) == [k \in 1..n |-> 0]

DefaultObject ==
  <<68, 101, 102, 97, 117, 108, 116, 32, 111, 98, 106, 101, 99, 116>>

ObjectBefore(v, before) ==
  LET object == before \o Zeros(IF v <= 3 THEN 69 ELSE 138)
      name == Za!EncodeString(v, <<>>, DefaultObject)
  IN object \o Za!Word(64 + Len(object) + 2) \o <<Len(name)>> \o name \o <<0>>

DefaultBefore(v) ==
  LET extension == IF v >= 5 THEN Extension ELSE <<>>
      globals == IF v <= 3 THEN <<0, 1>> \o Zeros(478) ELSE Zeros(480)
      all == ObjectBefore(v, extension \o globals) \o <<0, 6, 0, 0>>
  IN all \o IF v = 6 THEN Zeros((-Len(all)) % 4) \o <<0>> ELSE <<>>

(* A small and a large constant, a variable, one by reference, a label.    *)
(* None is the address of a byte of the header.                            *)
Kinds ==
  <<[kind |-> "constant", value |-> 200], [kind |-> "variable", value |-> 3],
    [kind |-> "reference", value |-> 67], [kind |-> "constant", value |-> 300],
    [kind |-> "label", value |-> 310]>>

(* The kinds in turn, or every other one in turn, from any of them on.     *)
ArgLists(n) ==
  {[i \in 1..n |-> Kinds[1 + ((first + i * step) % 5)]] :
     first \in 0..4, step \in {1, 2}}

Instruct(form, args, store, branch, text) ==
  [form |-> form, args |-> args, store |-> store, branch |-> branch,
   text |-> text]

StoresOf(form) == IF form.store THEN {<<0>>, <<16>>} ELSE {<<>>}
BranchesOf(form) ==
  IF form.branch THEN {<<r, inv>> : r \in {0, 1}, inv \in BOOLEAN} ELSE {<<>>}

Lines(form) ==
  {Instruct(form, args, store, branch, IF form.text THEN <<<<104, 105>>>> ELSE <<>>) :
     args \in ArgLists(form.args), store \in StoresOf(form),
     branch \in BranchesOf(form)}

AgreedForms(v) == {form \in ZaForms[v] : ~Disagreed(v, form)}

Simple(count, number) == Za!Form(count, number, 0, FALSE, FALSE, FALSE)
ReturnTrue == Instruct(Simple("Zero", 0), <<>>, <<>>, <<>>, <<>>)
Nop == Instruct(Simple("Zero", 4), <<>>, <<>>, <<>>, <<>>)

InstructionLines(v) ==
  UNION {{<<line, ReturnTrue>> : line \in Lines(form)} : form \in AgreedForms(v)}

Printed(text) == Instruct(Za!Form("Zero", 2, 0, FALSE, FALSE, TRUE), <<>>, <<>>, <<>>,
                    <<text>>)

(* Letters of both cases, a space, a tilde, accents, a character that only *)
(* a Unicode table has, one beyond 16 bits; and from V2 on, where za has   *)
(* the alphabet that zd has, a newline, a digit, a quote and <.            *)
Characters(v) ==
  {97, 90, 32, 126, 233, 339, 20013, 128512}
    \cup (IF v = 1 THEN {} ELSE {94, 48, 34, 60})

Texts(v) == {<<>>} \cup {<<x>> : x \in Characters(v)}
              \cup {<<x, y>> : x \in Characters(v), y \in Characters(v)}

TextLines(v) ==
  {<<Printed(t), ReturnTrue>> : t \in Texts(v)}
    \cup (IF v \in {1, 4}
            THEN {<<Printed(<<Za!Latin[k]>>), ReturnTrue>> : k \in 1..Len(Za!Latin)}
            ELSE {})
    \cup (IF v \in {2, 3, 5, 6}
            THEN {<<Printed(<<x, y>>), Printed(<<y, z, 97>>), ReturnTrue>> :
                    x \in {97, 233, 339}, y \in {90, 233, 339, 20013},
                    z \in {32, 233, 20013}}
            ELSE {})

(* A label, and instructions that name what it stands for: a routine, by   *)
(* its packed address; an address, by its distance; a text, by its address *)
(* or its packed address.                                                  *)
LabelAt(word) == <<[kind |-> "label", value |-> word]>>

Call(word) ==
  Instruct(Za!Form("Var", 0, 1, TRUE, FALSE, FALSE), LabelAt(word), <<0>>, <<>>,
           <<>>)
One(number, word) ==
  Instruct(Za!Form("One", number, 1, FALSE, FALSE, FALSE), LabelAt(word), <<>>,
           <<>>, <<>>)

(* The addresses near the second line of a source whose first is at code,  *)
(* and the packed ones among them.                                         *)
Near(code) == (code + 3)..(code + 12)
PackedNear(v, code) ==
  LET factor == IF v <= 3 THEN 2 ELSE IF v <= 7 THEN 4 ELSE 8
  IN {a \div factor : a \in {b \in Near(code) : b % factor = 0}}

(* A call or a jump into the instructions after it, or the jump itself.    *)
ControlLines(v, code) ==
  {<<Call(p)>> \o [k \in 1..9 |-> Nop] \o <<ReturnTrue>> : p \in PackedNear(v, code)}
    \cup {<<Nop, One(12, d), Nop, Nop, ReturnTrue>> :
            d \in (0..5) \cup {65534, 65535}}

(* A text printed by its address, which another line prints on the spot.   *)
AddressLines(v, code) ==
  {<<line, Printed(<<104, 105>>), Printed(<<>>), ReturnTrue>> :
     line \in {One(7, a) : a \in Near(code)}
                \cup {One(13, p) : p \in PackedNear(v, code)}}

(* Sources after what za writes by itself in each version.                 *)
Sourced(linesOf(_, _)) ==
  LET starts == {<<v, DefaultBefore(v)>> : v \in 1..8}
      all == UNION {linesOf(s[1], 64 + Len(s[2])) \X {s} : s \in starts}
  IN {[version |-> x[2][1], before |-> x[2][2], lines |-> x[1]] : x \in all}

AgreedLines(v, code) ==
  UNION {InstructionLines(v), TextLines(v), ControlLines(v, code),
         AddressLines(v, code)}

AgreedSources == Sourced(AgreedLines)

(* get_sibling 200 -> sp ?1 and its like, and an rtrue after it.           *)
StoreAndBranchLines(v, code) ==
  IF v \notin {3, 5, 6} THEN {}
  ELSE UNION {{<<line, ReturnTrue>> : line \in Lines(form)} :
                form \in {f \in ZaForms[v] : f.store /\ f.branch}}

StoreAndBranchSources == Sourced(StoreAndBranchLines)
============================================================================

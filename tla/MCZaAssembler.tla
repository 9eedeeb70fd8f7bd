--------------------------- MODULE MCZaAssembler ---------------------------
(***************************************************************************)
(* Instances of ZaAssembler for TLC: the labels A and B, and instructions  *)
(* that between them have every kind of operand, branch, string and store. *)
(***************************************************************************)
EXTENDS ZaLinkage

CONSTANTS A, B

NoBranch == NoInstruction.branch
To(l, invert, small) ==
  [kind |-> "label", byte |-> 0, label |-> l, invert |-> invert,
   small |-> small]
ReturnIf == [NoBranch EXCEPT !.kind = "return", !.byte = 193]

Lit(bytes) == [kind |-> "bytes", bytes |-> bytes, label |-> NoLabel]
Ref(kind, l) == [kind |-> kind, bytes |-> <<0, 0>>, label |-> l]

Code(head, args, branch, text, store) ==
  [head |-> head, args |-> args, branch |-> branch, text |-> text,
   store |-> store]

Plain(l) == [len |-> l, char |-> 0]
Accented(l, c) == [len |-> l, char |-> c]

(* jump A; call_1n A; je 1 2 %~B; verify ?B; copy_table A B 1; and for the *)
(* mixture: get_sibling 1 -> sp ?A; print with an accent; jz 1 ?1.         *)
JumpA == Code(<<140>>, <<Ref("jump", A)>>, NoBranch, NoText, <<>>)
CallA == Code(<<143>>, <<Ref("packed", A)>>, NoBranch, NoText, <<>>)
SmallB == Code(<<1>>, <<Lit(<<1>>), Lit(<<2>>)>>, To(B, TRUE, TRUE), NoText,
               <<>>)
LongB == Code(<<189>>, <<>>, To(B, FALSE, FALSE), NoText, <<>>)
CopyAB == Code(<<253, 3>>, <<Ref("unpacked", A), Ref("unpacked", B),
                             Lit(<<1>>)>>, NoBranch, NoText, <<>>)
SiblingA == Code(<<145>>, <<Lit(<<1>>)>>, To(A, FALSE, FALSE), NoText, <<0>>)
PrintE == Code(<<178>>, <<>>, NoBranch, Accented(4, 233), <<>>)
JzReturn == Code(<<144>>, <<Lit(<<1>>)>>, ReturnIf, NoText, <<>>)
(* verify %A, a 0OP branch in the short form.                              *)
VerifySmallA == Code(<<189>>, <<>>, To(A, FALSE, TRUE), NoText, <<>>)

(* References of every kind, forwards and backwards, and a string.         *)
RefInstructions == {JumpA, CallA, SmallB, LongB, CopyAB, PrintE}
MixedInstructions == {JumpA, SmallB, SiblingA, PrintE, JzReturn}
EdgeInstructions == {CallA, CopyAB, PrintE}
SmallInstructions == {VerifySmallA, SmallB}

TwoLabels == {A, B}
OneLabel == {A}

NoTexts == {}
(* With MaxUnicode = 2 the third character of its own is one too many.     *)
AllTexts == {Plain(2), Accented(4, 233), Accented(4, 339), Accented(4, 269)}
UsedTexts == {Accented(4, 233), Plain(2)}
OneText == {Accented(4, 233)}
LatinChars == {233, 339}

NoTables == {}
OneTable == {<<230>>}
SomeTables == {<<>>, <<230, 269>>, <<66000>>, <<230, 230, 230>>}

NoValues == {<<>>}
SomeValues == {<<>>, <<258>>, <<1, 2>>, <<65536>>}
NoBytes == {}
SomeBytes == {<<7, 255>>, <<256>>}
============================================================================

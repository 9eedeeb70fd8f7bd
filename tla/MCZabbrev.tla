----------------------------- MODULE MCZabbrev -----------------------------
(***************************************************************************)
(* Small games for zabbrev, and command lines for them.                    *)
(***************************************************************************)
EXTENDS ZabbrevSearch

\* The characters that the strings here have, from the space on, _ for the others.
Ascii == " !\"_$_______,-./0123456789:____?@ABCDEFGHIJKLMNOPQRSTUVWXYZ___^__abcdefghijklmnopqrstuvwxyz___~"

\* The bytes of a string of these characters.
MCBytes(s) == [i \in 1 .. Len(s) |->
                31 + CHOOSE c \in 1 .. 95 : SubSeq(Ascii, c, c) = SubSeq(s, i, i)]

Numerals == [i \in 1 .. 9 |-> ToString(i)]

MCNumber(s) == IF s \in Range(Numerals) THEN CHOOSE i \in 1 .. 9 : Numerals[i] = s ELSE 0

Lf == <<10>>
Lines(strings) == [i \in DOMAIN strings |-> MCBytes(strings[i])]
Bytewise(lines) == FlattenSeq([i \in DOMAIN lines |-> MCBytes(lines[i]) \o Lf])

NoFiles == [gametext |-> <<>>, zaps |-> <<>>, dumps |-> [f \in {} |-> <<>>]]
Game(strings) == [NoFiles EXCEPT !.gametext = Lines(strings)]
Code(frequencies, strings) == [frequencies |-> frequencies, bytes |-> Bytewise(strings)]

\* Every kind of text, metaclasses, two routines.
Kinds == Game(<<"Compiled Z-machine version 5", "O: ^Class", "G: $$a b", "L: a b$$", "H: $$a",
                "Routine, without inline strings size: 13", "   ", "H: b$$", "S: b$!",
                "size 0 without inline strings size: 6">>)

\* Spaces that an edit takes away or adds; capitals; a long string that occurs twice.
Spaces == Game(<<"I: AB", "L: $$ C", "L: C $$ a", "O: .">>)
Words  == Game(<<"V: the cat, the cat", "S: the catch", "O: the cat", "L: a the cat sat.">>)
Twice  == Game(<<"S: $A$A$b", "L: $A$A$", "O: $A$A$c", "H: a", "without inline strings size: 3">>)
Back   == Game(<<"L: $BB$A$A$B.">>)
Ends   == Game(<<"L: $$a b", "L: a b$$", "L: $$a", "L: b$$">>)
Swap   == Game(<<"L: A$$A$$">>)
Nested == Game(<<"L: $ $$$">>)

\* The table of word frequencies is not read, nor is a text of one character.
Zap == [NoFiles EXCEPT !.zaps =
  <<Code(TRUE, <<" .GSTR S,\"$$ $$\"">>),
    Code(FALSE, <<" .NEW 8", " .GSTR S,\"th $ th\"", " PRINTI \"th $\"", " .STRL \"$\"">>)>>]

Dumps == [NoFiles EXCEPT !.dumps =
  [f \in {"info"} |-> Bytewise(<<"Z-code version:    3", "Inform Version:    ZAPF", "Description: \"$$ a\"">>)]
  @@ [f \in {"code"} |-> Bytewise(<<"         PRINT    \"$$ \"", "PRINT_RET \"$ a\"",
                                    "END OF CODE  S1: \"a$$.\"">>)]]

MCDisk ==
  "." :> Kinds @@ "spaces" :> Spaces @@ "words" :> Words @@ "twice" :> Twice @@ "back" :> Back @@ "ends" :> Ends
  @@ "swap" :> Swap @@ "nested" :> Nested
  @@ "zap" :> Zap @@ "dumps" :> Dumps @@ "empty" :> NoFiles

MCCommandLines ==
  { <<"-x2", "3", "-n", "2">>,
    <<"-x0", "-n", "1", "-o", "inform", "zap">>,
    <<"-x1", "-n", "2", "-v", "spaces">>,
    <<"-b", "-x3", "4", "2", "-n", "2", "-v8", "back">>,
    <<"-x2", "2", "-n", "1", "-v4", "-r3", "-v", "twice">>,
    <<"--onlyrefactor", "-v5", "words">>,
    <<"-i", "-v", "-x3", "3", "2", "-n", "3", "-v3", "words">>,
    <<"-b", "-x2", "-n", "1", "--a0", "ABCDEFGHIJKLMNOPQRSTUVWXYZ", "--a2", "$", "twice">>,
    <<"--infodump", "info", "--txd", "code", "-x0", "-n", "2", "-b", "-o", "zap", "dumps">>,
    <<"-n", "2", "swap">>, <<"-x3", "-n", "2", "swap">>, <<"-x0", "-n", "3", "nested">>,
    <<"-i", "empty">>, <<"--txd", "code", "empty">>, <<"empty">> }

\* Texts that end as others do.
EndsCommandLines == {<<"-x0", "ends">>}
=============================================================================

------------------------------ MODULE MCGlazer ------------------------------
(***************************************************************************)
(* Small sources for glazer.                                               *)
(***************************************************************************)
EXTENDS Glazer

No == [is |-> "none"]
Line(labels, statement) == [labels |-> labels, statement |-> statement]
At0(name) == <<Word(name)>>
Dot(name) == <<Private(name)>>

Is(statement)    == Line(<<>>, statement)
Do(name, tokens) == Is([is |-> "op", name |-> name, tokens |-> tokens])
Const(name, v)   == Is([is |-> "const", name |-> name, value |-> v])
Section0(to)     == Is([is |-> "section", to |-> to])
Fun(type)        == [is |-> "function", type |-> type]
Locals(names)    == Is([is |-> "local", names |-> names])
Data(size, tokens)    == Is([is |-> "data", size |-> size, tokens |-> tokens])
Reserve(size, tokens) == Is([is |-> "reserve", size |-> size, tokens |-> tokens])
Align(tokens)         == Is([is |-> "align", size |-> 0, tokens |-> tokens])
Text(type, token)     == Is([is |-> "string", type |-> type, token |-> token])
LabelOnly(labels)     == Line(labels, No)

Main == Line(At0("entry_point"), Fun("func_va"))

N(name)   == Name(name)
P(name)   == Expr(<<Private(name)>>)
I(n)      == Integer(n)
In(op, l, r) == Expr(<<l, r, Operator(2, op)>>)
Pre(op, v)   == Expr(<<v, Operator(1, op)>>)

Source(lines, order) == [lines |-> lines, order |-> order]
Plainly(lines) == Source(lines, <<>>)

----------------------------------------------------------------------------
(* Instructions and data of every kind. *)

Start == <<Line(At0("entry_point"), Fun("function")), Locals(<<"a", "b", "c">>)>>

\* Jumps and calls between two functions.
Code == Start \o <<
  Do("copy", <<N("a"), Arrow, N("b")>>),
  LabelOnly(Dot("loop")),
  Do("add", <<N("b"), I(2), Arrow, N("c")>>),
  Do("jlt", <<N("c"), I(100), Arrow, P("loop")>>),
  Do("jz", <<N("a"), Arrow, P("done")>>),
  Do("jz", <<N("b"), Arrow, Key("rfalse")>>),
  Do("jnz", <<N("b"), Arrow, Key("rtrue")>>),
  Do("call", <<N("helper"), I(0), Arrow, List(<<N("cell")>>)>>),
  LabelOnly(Dot("done")),
  Do("catch", <<Arrow, N("a"), Arrow, P("loop")>>),
  Do("return", <<>>),
  Line(At0("helper"), Fun("func_va")),
  LabelOnly(Dot("loop")),
  Do("callf", <<N("entry_point"), Arrow, Key("push")>>),
  Do("jump", <<P("loop")>>),
  Section0("bss"),
  LabelOnly(At0("cell")), Reserve(4, <<I(1)>>)>>

\* Pairs, doubles, memory.
Pairs == Start \o <<
  Do("pull", <<Arrow, N("a")>>),
  Do("dpush", <<N("a"), N("b")>>), Do("dpull", <<Arrow, N("a"), N("b")>>),
  Do("dcopy", <<N("a"), N("b"), Arrow, N("c"), List(<<N("cell")>>)>>),
  Do("dcopy", <<N("a"), N("b"), Arrow, Key("push"), Key("push")>>),
  Do("dload", <<I(400), Arrow, N("a"), N("b")>>),
  Do("dstore", <<N("c"), N("a"), I(0)>>),
  Do("dadd", <<Key("hilo"), Float(3), Key("hilo"), FltSpec("NAN"), Arrow, N("c"), Key("drop")>>),
  Do("fadd", <<Float(-2), FltSpec("-INFINITY"), Arrow, Key("drop")>>),
  Do("streamchar", <<Char(65)>>),
  Do("copy", <<Key("pop"), Arrow, List(<<In("+", Word("cell"), I(4))>>)>>),
  Do("getiosys", <<Arrow, N("a"), N("b")>>),
  Do("glk", <<I(2), I(0)>>),
  Section0("bss"), LabelOnly(At0("cell")), Reserve(4, <<I(2)>>)>>

\* Data and space.
Values == <<
  Line(At0("entry_point"), Fun("function")), Line(At0("helper"), Fun("func_va")),
  Section0("data"),
  LabelOnly(At0("bytes")),
  Data(1, <<I(1), I(-128), I(255), Char(97), String(<<104, 105>>)>>),
  Data(2, <<I(300), I(-1), String(<<120, 121>>)>>),
  Align(<<I(8)>>),
  Data(4, <<N("helper"), In("-", Word("cell"), I(4)), Float(3), Float(-59999), FltSpec("+INFINITY")>>),
  Data(8, <<I(-5), N("bytes"), Float(1), Float(60000)>>),
  Reserve(1, <<I(3)>>),
  Section0("bss"),
  LabelOnly(At0("cell")),
  Reserve(4, <<I(2)>>),
  Align(<<I(16)>>),
  Reserve(8, <<I(1)>>)>>

\* Strings of every kind; one of them waits for an address.
Strings == <<
  Main,
  Do("streamstr", <<N("hello")>>),
  LabelOnly(At0("hello")),
  Text("huffstr", String(<<97, 98, 97, 97, 97>>)),
  Text("huffstr", Block(<<String(<<97>>), Char(98), I(-1), List(<<N("who")>>)>>)),
  Section0("data"),
  LabelOnly(At0("who")),
  Text("huffstr", Block(<<List(<<List(<<N("ptr")>>), I(5), N("hello")>>), String(<<945, 97, 945, 97>>)>>)),
  Text("latstr", String(<<104, 101, 233>>)),
  LabelOnly(At0("odd")),
  Text("unistr", Block(<<String(<<945>>), I(7), Char(98)>>)),
  LabelOnly(At0("ptr")),
  Data(4, <<N("who"), N("odd")>>)>>

\* Weights that are merged in more than one order.
Weights == <<
  Main,
  Text("huffstr", String(<<97, 97, 97, 97, 98, 98, 98, 99, 99, 100, 100, 101>>)),
  Text("huffstr", String(<<97, 101, 102, 102, 102>>)),
  Text("huffstr", String(<<>>))>>

\* A string of a to d with these numbers of each.
Weighted(n) ==
  LET Times(c, k) == [i \in 1 .. k |-> c]
  IN  <<Main, Text("huffstr", String(Times(97, n[1]) \o Times(98, n[2]) \o Times(99, n[3]) \o Times(100, n[4])))>>
AllWeights == {n \in [1 .. 4 -> 1 .. 5] : \A i \in 1 .. 3 : n[i] <= n[i + 1]}

\* Every load with every store, at both ends of the sizes of operands.
Loads  == <<Key("pop"), N("a"), N("b"), I(0), I(1), I(-1), I(127), I(128), I(-127), I(-128), I(32767), I(-32768),
            Char(0), Char(200), N("far"), List(<<I(0)>>), List(<<N("far")>>), Float(0), FltSpec("NAN")>>
Stores == <<Key("push"), Key("drop"), N("b"), List(<<I(300)>>), List(<<In("+", Word("far"), I(1))>>), I(0)>>
Copies(store) ==
  Start
  \o [i \in DOMAIN Loads |-> Do("copy", <<Loads[i], Arrow, store>>)]
  \o <<Section0("data"), LabelOnly(At0("far")), Data(2, <<I(1)>>)>>

Compares(store) ==
  Start
  \o [i \in DOMAIN Loads |-> Do("jdlt", <<Loads[i], I(2), I(3), N("a"), Arrow, P("out")>>)]
  \o <<Line(Dot("out"), [is |-> "op", name |-> "dcopy", tokens |->
            <<Key("pop"), Key("pop"), Arrow, store, IF store = Key("push") THEN store ELSE N("c")>>]),
       Section0("data"), LabelOnly(At0("far")), Data(2, <<I(1)>>)>>

\* Three constants in the worst order, and the operators.
Constants == <<
  Const("A", In("+", Word("B"), I(1))),
  Const("B", In("*", Word("C"), I(2))),
  Const("C", I(3)),
  Const("big", Expr(<<Word("A"), I(4), Operator(2, "<<"), Word("B"), Operator(2, "|"), I(9), Operator(2, "^")>>)),
  Const("mean", In("/", I(-7), Word("C"))),
  Const("rest", In("%", I(-7), Word("C"))),
  Const("low", Expr(<<Word("rest"), I(28), Operator(2, ">>>"), Word("A"), Operator(2, "&")>>)),
  Const("high", Expr(<<I(-1), I(16), Operator(2, ">>"), Operator(1, "~")>>)),
  Const("F", Expr(<<Float(2), Word("C"), Operator(2, "*"), Operator(1, "-")>>)),
  Const("huge", Expr(<<Float(60000), Float(60000), Operator(2, "+"), Word("F"), Operator(2, "*")>>)),
  Const("stack_size", In("<<", I(1), I(10))),
  Main,
  Do("push", <<Expr(<<Word("A"), Word("mean"), Operator(2, "-")>>)>>),
  Do("push", <<N("low")>>),
  Section0("data"),
  Data(2, <<N("A"), N("big"), N("mean"), N("rest")>>),
  Data(4, <<N("F"), N("huge"), N("high"), In("+", Word("entry_point"), Word("C"))>>)>>

Chain(n) == [i \in 1 .. n |-> <<"k1", "k2", "k3", "k4", "k5">>[i]]
ChainOf(names) == [i \in DOMAIN names |-> Const(names[i], IF i = Len(names) THEN I(1) ELSE N(names[i + 1]))]

----------------------------------------------------------------------------
(* Sources with errors, as many in one as the pass that finds them allows. *)

BadLines == <<
  Do("frobnicate", <<>>),
  Main,
  Line(At0("entry_point"), No),
  Locals(<<"a", "a", "b">>), Locals(<<"push">>),
  LabelOnly(Dot("x")), LabelOnly(Dot("x")),
  Do("copy", <<N("a")>>), Do("copy", <<Key("push"), Arrow, N("a")>>), Do("copy", <<N("a"), N("a")>>),
  Do("jz", <<N("a"), P("x")>>), Do("jz", <<N("a"), Arrow, Key("push")>>), Do("jump", <<I(5)>>),
  Do("push", <<List(<<>>)>>),
  Section0("rodata"),
  Data(1, <<>>), Reserve(1, <<I(1), I(2)>>), Text("latstr", Block(<<List(<<N("a")>>)>>)),
  Text("latstr", Block(<<>>)), Data(1, <<Block(<<List(<<>>)>>)>>),
  Const("entry_point", I(1)), Const("C", String(<<97>>))>>

BadConstants == <<Const("Z", In("/", I(1), I(0))), Const("L", N("entry_point")), Const("S", In("<<", I(1), I(-1))),
                  Const("U", Pre("~", Float(1))), Const("W", N("nobody")), Main, Do("push", <<N("Z")>>)>>

BadStrings == <<Main, Text("huffstr", Block(<<String(<<97>>), N("entry_point")>>)), Text("huffstr", N("nobody"))>>

BadPlaces == <<
  Do("nop", <<>>),
  Main,
  Do("push", <<N("nobody")>>), Do("push", <<P("x")>>), Do("push", <<Pre("-", Word("entry_point"))>>),
  Do("dpush", <<Key("hilo"), I(1)>>),
  Line(<<>>, Fun("function")), Locals(<<"p", "q", "r", "s", "t">>),
  Reserve(1, <<I(0)>>), Reserve(2, <<N("entry_point")>>), Align(<<I(0)>>), Align(<<Float(2)>>),
  Text("latstr", I(3)), Data(1, <<N("p")>>),
  Section0("bss"),
  Line(<<>>, Fun("function")), LabelOnly(Dot("here")), Do("nop", <<>>), Data(1, <<I(1)>>),
  Text("huffstr", String(<<97>>))>>

BadBytes == <<
  Main, Locals(<<"a">>),
  Do("copy", <<N("a"), Arrow, I(5)>>), Do("copyb", <<N("a"), Arrow, Key("push")>>),
  Do("getiosys", <<Arrow, N("a"), Key("push")>>), Do("push", <<List(<<Float(1)>>)>>),
  Section0("data"),
  Data(1, <<I(300)>>), Data(2, <<I(-40000), Float(1)>>), Data(4, <<Float(60000)>>), Data(1, <<String(<<300>>)>>), Text("latstr", String(<<945>>))>>

NoEntry == <<Line(<<>>, Fun("function")), Do("quit", <<>>)>>
LabelledStack == <<Main, LabelOnly(At0("stack_size"))>>
SmallStack == <<Const("stack_size", I(100)), Main>>
TooLarge == <<Main, Section0("data"), Reserve(1, <<I(5000)>>), Data(1, <<I(1)>>)>>
JumpNowhere == <<Const("K", I(7)), Main, Do("jump", <<N("K")>>)>>
ArrowInString == <<Main, Text("unistr", Block(<<I(1), Arrow>>))>>
NumberAsString == <<Main, Text("huffstr", I(5))>>
Trap == <<Const("M", In("/", I(-524288), I(-1))), Main>>

MCSources == {
  Plainly(Code), Plainly(Pairs), Plainly(Values), Plainly(Strings), Plainly(Weights),
  Source(Constants, <<"A", "B", "C", "big", "mean", "low", "rest", "high", "huge", "F", "stack_size">>),
  Source(ChainOf(Chain(4)) \o <<Main>>, Reverse(Chain(4))),
  Source(ChainOf(Chain(5)) \o <<Main>>, Chain(5)),
  Source(<<Const("A", N("B")), Const("B", Pre("-", Word("A"))), Main>>, <<"A", "B">>),
  Plainly(BadLines), Source(BadConstants, <<"L", "S", "U", "W", "Z">>),
  Plainly(BadStrings), Plainly(BadPlaces), Plainly(BadBytes),
  Plainly(NoEntry), Plainly(LabelledStack), Source(SmallStack, <<"stack_size">>), Plainly(TooLarge),
  Source(JumpNowhere, <<"K">>), Plainly(NumberAsString), 
  Plainly(ArrowInString), Source(Trap, <<"M">>) }
  \union {Plainly(Copies(store)) : store \in ToSet(Stores)} \union {Plainly(Compares(store)) : store \in ToSet(Stores)}
  \union {Plainly(Weighted(n)) : n \in AllWeights}
  \union {Source(ChainOf(Chain(4)) \o <<Main, Do("push", <<N("k1")>>)>>, order) : order \in SetToSeqs(ToSet(Chain(4)))}

\* Pairs in memory at a label.
PairSources == {Plainly(<<Main, Locals(<<"a", "b">>), Do("dload", <<N("pair"), Arrow, N("a"), N("b")>>),
                           Section0("data"), LabelOnly(At0("pair")), Data(8, <<Float(1)>>)>>)}
=============================================================================

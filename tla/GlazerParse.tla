---------------------------- MODULE GlazerParse ----------------------------
(***************************************************************************)
(* Lines of a source for glazer, with their words in order: what they      *)
(* define, and the item they add to the current section.                   *)
(*                                                                         *)
(* A line is a sequence of labels and a statement.  Its operands are       *)
(* values (expressions in the order of evaluation), keywords and the arrow,*)
(* [ ... ] as a list, { ... } as a block.                                  *)
(***************************************************************************)
EXTENDS GlazerEval, TLC

Key(key)     == [kind |-> "key", key |-> key]
Arrow        == Key("->")
List(parts)  == [kind |-> "list", parts |-> parts]
Block(parts) == [kind |-> "block", parts |-> parts]
Name(name)   == Expr(<<Word(name)>>)

Plain(kind)  == [kind |-> kind]       \* pop, push, drop, hilo
Memory(parts)   == [kind |-> "memory", parts |-> parts]
JumpDest(parts) == [kind |-> "jumpdest", parts |-> parts, num |-> 0]
Return(n)       == [kind |-> "return", num |-> n]
Indirect(parts) == [kind |-> "indirect", parts |-> parts, ref |-> 0]
Complex(parts)  == [kind |-> "complex", parts |-> parts]

----------------------------------------------------------------------------
(***************************************************************************)
(* The instructions: number, loads, stores, whether the last operand is    *)
(* the target of a jump.  The ones above 61440 are not instructions of the *)
(* machine, they stand for one or two others.                              *)
(***************************************************************************)

Shape(loads, stores, jump, codes) ==
  [name \in DOMAIN codes |->
    [code |-> codes[name], loads |-> loads, stores |-> stores, jump |-> jump]]

AllOpcodes ==
     Shape(0, 0, FALSE, [nop |-> 0, stkswap |-> 82, quit |-> 288, restart |-> 290, discardundo |-> 297])
  @@ Shape(0, 0, TRUE, [jump |-> 32])
  @@ Shape(0, 1, FALSE, [
        stkcount |-> 80, getmemsize |-> 258, verify |-> 289, saveundo |-> 293,
        restoreundo |-> 294, hasundo |-> 296, getstringtbl |-> 320, pull |-> 61442])
  @@ Shape(0, 1, TRUE, [catch |-> 50])
  @@ Shape(0, 2, FALSE, [getiosys |-> 328, dpull |-> 61447])
  @@ Shape(1, 0, FALSE, [
        return |-> 49, stkcopy |-> 84, streamchar |-> 112, streamnum |-> 113, streamstr |-> 114,
        streamunichar |-> 115, debugtrap |-> 257, jumpabs |-> 260, setrandom |-> 273,
        setstringtbl |-> 321, mfree |-> 377, push |-> 61441])
  @@ Shape(1, 0, TRUE, [jz |-> 34, jnz |-> 35, jisnan |-> 456, jisinf |-> 457])
  @@ Shape(1, 1, FALSE, [
        neg |-> 21, bitnot |-> 27, copy |-> 64, copys |-> 65, copyb |-> 66, sexs |-> 68,
        sexb |-> 69, stkpeek |-> 81, setmemsize |-> 259, random |-> 272, save |-> 291,
        restore |-> 292, callf |-> 352, malloc |-> 376, numtof |-> 400, ftonumz |-> 401,
        ftonumn |-> 402, ceil |-> 408, floor |-> 409, sqrt |-> 424, exp |-> 425, log |-> 426,
        sin |-> 432, cos |-> 433, tan |-> 434, asin |-> 435, acos |-> 436, atan |-> 437])
  @@ Shape(1, 2, FALSE, [numtod |-> 512, ftod |-> 515, dload |-> 61444])
  @@ Shape(2, 0, FALSE, [
        throw |-> 51, tailcall |-> 52, stkroll |-> 83, protect |-> 295, setiosys |-> 329,
        mzero |-> 368, accelfunc |-> 384, accelparam |-> 385, dpush |-> 61446])
  @@ Shape(2, 0, TRUE, [
        jeq |-> 36, jne |-> 37, jlt |-> 38, jge |-> 39, jgt |-> 40, jle |-> 41, jltu |-> 42,
        jgeu |-> 43, jgtu |-> 44, jleu |-> 45, jflt |-> 450, jfle |-> 451, jfgt |-> 452,
        jfge |-> 453, jdisnan |-> 568, jdisinf |-> 569])
  @@ Shape(2, 1, FALSE, [
        add |-> 16, sub |-> 17, mul |-> 18, div |-> 19, mod |-> 20, bitand |-> 24, bitor |-> 25,
        bitxor |-> 26, shiftl |-> 28, sshiftr |-> 29, ushiftr |-> 30, call |-> 48, aload |-> 72,
        aloads |-> 73, aloadb |-> 74, aloadbit |-> 75, gestalt |-> 256, glk |-> 304,
        callfi |-> 353, fadd |-> 416, fsub |-> 417, fmul |-> 418, fdiv |-> 419, pow |-> 427,
        atan2 |-> 438, dtonumz |-> 513, dtonumn |-> 514, dtof |-> 516])
  @@ Shape(2, 2, FALSE, [
        fmod |-> 420, dceil |-> 520, dfloor |-> 521, dsqrt |-> 536, dexp |-> 537, dlog |-> 538,
        dsin |-> 544, dcos |-> 545, dtan |-> 546, dasin |-> 547, dacos |-> 548, datan |-> 549,
        dcopy |-> 61443])
  @@ Shape(3, 0, FALSE, [
        astore |-> 76, astores |-> 77, astoreb |-> 78, astorebit |-> 79, mcopy |-> 369,
        dstore |-> 61445])
  @@ Shape(3, 0, TRUE, [jfeq |-> 448, jfne |-> 449])
  @@ Shape(3, 1, FALSE, [callfii |-> 354])
  @@ Shape(4, 0, TRUE, [jdlt |-> 562, jdle |-> 563, jdgt |-> 564, jdge |-> 565])
  @@ Shape(4, 1, FALSE, [callfiii |-> 355])
  @@ Shape(4, 2, FALSE, [
        dadd |-> 528, dsub |-> 529, dmul |-> 530, ddiv |-> 531, dmodr |-> 532, dmodq |-> 533,
        dpow |-> 539, datan2 |-> 550])
  @@ Shape(6, 0, TRUE, [jdeq |-> 560, jdne |-> 561])
  @@ Shape(6, 1, FALSE, [linkedsearch |-> 338])
  @@ Shape(7, 1, FALSE, [linearsearch |-> 336, binarysearch |-> 337])

FakePairs == {"dcopy", "dload", "dstore", "dpush", "dpull"}

LookupOp(name) == AllOpcodes[name]

----------------------------------------------------------------------------
(* Operands. *)

\* A value that is no string.  A keyword out of its place is taken for a name.
ParseValue(tok) ==
  CASE tok.kind \in {"string", "block", "list"} \/ tok = Arrow -> Fail
    [] tok.kind = "key" /\ tok # Arrow -> Name(tok.key)
    [] OTHER -> tok

ParseMemory(tok) ==
  IF tok.parts = <<>> \/ ParseValue(tok.parts[1]) = Fail THEN Fail
  ELSE Memory(<<ParseValue(tok.parts[1])>>)

\* Only what an indirect string refers to may be in [ ] again.
ParseIndirectStr(tokens) ==
  LET args == Parts(LAMBDA tok : IF tok.kind = "list" THEN ParseMemory(tok) ELSE ParseValue(tok), tokens)
  IN  IF tokens = <<>> \/ args = Fail \/ \E i \in DOMAIN tokens : i > 1 /\ tokens[i].kind = "list" THEN Fail
      ELSE Indirect(args.parts)

\* The message for a symbol in { } prints as a string what is none.
ParseComplexStr(tokens) ==
  LET parts == Parts(LAMBDA tok : CASE tok.kind = "string" -> tok
                                    [] tok.kind = "list" -> ParseIndirectStr(tok.parts)
                                    [] tok = Arrow -> Crash
                                    [] OTHER -> ParseValue(tok), tokens)
  IN  CASE tokens = <<>> -> Fail
        [] tokens # <<>> /\ parts.kind = "parts" -> Complex(parts.parts)
        [] OTHER -> parts

ParseStringValue(tok) ==
  CASE tok.kind = "string" -> tok
    [] tok.kind = "block" -> ParseComplexStr(tok.parts)
    [] OTHER -> ParseValue(tok)

ParseOperand(tok, isStore) ==
  CASE tok.kind = "list" -> ParseMemory(tok)
    [] tok.kind = "key" /\ tok.key \in (IF isStore THEN {"push", "drop"} ELSE {"pop", "hilo"}) ->
         Plain(tok.key)
    [] tok.kind = "key" /\ tok.key \in (IF isStore THEN {"pop", "hilo"} ELSE {"push", "drop"})
                                       \union {"rfalse", "rtrue"} -> Fail
    [] OTHER -> ParseValue(tok)

ParseJumpDest(tok) ==
  CASE tok = Key("rfalse") -> Return(0)
    [] tok = Key("rtrue") -> Return(1)
    [] tok.kind = "key" /\ tok.key \notin {"rfalse", "rtrue"} ->
         IF tok.key \in {"push", "pop", "drop", "->"} THEN Fail ELSE JumpDest(<<Name(tok.key)>>)
    [] tok.kind = "expr" /\ Len(tok.post) = 1 -> JumpDest(<<tok>>)
    [] OTHER -> Fail

(***************************************************************************)
(* Loads, then the stores after an arrow or none of them, then the target  *)
(* of a jump after an arrow, and nothing more.                             *)
(***************************************************************************)
ParseShape(name, info, tokens) ==
  LET stored == info.stores > 0 /\ Len(tokens) > info.loads /\ tokens[info.loads + 1] = Arrow
      after  == info.loads + (IF stored THEN 1 + info.stores ELSE 0)
      arrow  == info.jump /\ Len(tokens) > after /\ tokens[after + 1] = Arrow
      target == after + (IF arrow THEN 2 ELSE 1)
      loads  == [i \in 1 .. info.loads |-> ParseOperand(tokens[i], FALSE)]
      stores == [i \in 1 .. info.stores |->
                  IF stored THEN ParseOperand(tokens[info.loads + 1 + i], TRUE) ELSE Plain("drop")]
      jump   == IF info.jump THEN <<ParseJumpDest(tokens[target])>> ELSE <<>>
      args   == loads \o stores \o jump
  IN  IF \/ Len(tokens) # (IF info.jump THEN target ELSE after)
         \/ info.jump /\ ~arrow /\ name # "jump"
         \/ \E i \in 1 .. after : tokens[i] = Arrow /\ ~(stored /\ i = info.loads + 1)
         \/ Fail \in ToSet(args)
      THEN Fail
      ELSE CASE name = "push" -> [kind |-> "opcode", op |-> "copy", args |-> args \o <<Plain("push")>>]
             [] name = "pull" -> [kind |-> "opcode", op |-> "copy", args |-> <<Plain("pop")>> \o args]
             [] OTHER -> [kind |-> "opcode", op |-> name, args |-> args]

ParseInstruct(name, tokens) ==
  IF name \notin DOMAIN AllOpcodes THEN Fail
  ELSE ParseShape(name, LookupOp(name), IF name = "return" /\ tokens = <<>> THEN <<Integer(0)>> ELSE tokens)

----------------------------------------------------------------------------
(***************************************************************************)
(* What has been read: the items of each section, the section and the      *)
(* function that lines now belong to, the functions with their locals and  *)
(* private labels, global labels, the expressions of constants, whether an *)
(* error was posted, and whether the program ended there.                  *)
(***************************************************************************)

Sections == <<"text", "data", "bss">>

NothingRead ==
  [streams |-> [s \in ToSet(Sections) |-> <<>>], section |-> "text", fun |-> NoFunction,
   funs |-> <<>>, labels |-> {}, raw |-> <<>>, ok |-> TRUE, crashed |-> FALSE]

Posted(st) == [st EXCEPT !.ok = FALSE]
AddItem(st, item) == [st EXCEPT !.streams[st.section] = Append(@, item)]

Reserved == {"drop", "pop", "push", "pull", "hilo", "rtrue", "rfalse", "fail",
             "FALSE", "TRUE", "NULL", "NAN", "INFINITY", "STACKREF"}

ValidateName(st, name, isLocal) ==
  /\ isLocal \/ name \notin st.labels \union DOMAIN st.raw
  /\ name \notin Reserved

LabelItem(fun, name) == [kind |-> "label", id |-> <<fun, name>>, args |-> <<>>]

\* The rest of a line is left when one of its labels is refused.
ParseLabel(st, word) ==
  CASE word.private ->
         IF st.fun = NoFunction \/ (st.fun # NoFunction /\ word.name \in st.funs[st.fun].labels) THEN Posted(st)
         ELSE AddItem([st EXCEPT !.funs[st.fun].labels = @ \union {word.name}], LabelItem(st.fun, word.name))
    [] ~word.private ->
         IF ~ValidateName(st, word.name, FALSE) THEN Posted(st)
         ELSE AddItem([st EXCEPT !.labels = @ \union {word.name}], LabelItem(NoFunction, word.name))

ParseFunction(st, type) ==
  LET n == Len(st.funs) + 1
  IN  AddItem([st EXCEPT !.funs = Append(@, [locals |-> <<>>, labels |-> {}]), !.fun = n],
              [kind |-> "function", type |-> type, fun |-> n, args |-> <<>>])

AddLocal(st, name) ==
  IF st.fun = NoFunction \/ ~ValidateName(st, name, TRUE)
     \/ (st.fun # NoFunction /\ name \in ToSet(st.funs[st.fun].locals))
  THEN Posted(st) ELSE [st EXCEPT !.funs[st.fun].locals = Append(@, name)]

\* What parsing gave: an item, an error, or the end of the program.
AddParsed(st, item, parsed) ==
  CASE parsed.kind = "fail" -> Posted(st)
    [] parsed.kind = "crash" -> [Posted(st) EXCEPT !.crashed = TRUE]
    [] OTHER -> AddItem(st, item)

AddInstruction(st, ins) == AddParsed(st, ins, ins)

\* A statement with one value, or several, which must all be values.
WithValues(st, item, tokens, allowString) ==
  LET args == Parts(LAMBDA tok : IF allowString THEN ParseStringValue(tok) ELSE ParseValue(tok), tokens)
  IN  IF tokens = <<>> THEN Posted(st) ELSE AddParsed(st, item @@ [args |-> args.parts], args)

\* Only a compressed string has indirect strings in it.
StringAllowed(type, v) ==
  type = "huffstr" \/ v.kind # "complex" \/ \A i \in DOMAIN v.parts : v.parts[i].kind # "indirect"

ParseString(st, type, token) ==
  LET v == ParseStringValue(token)
  IN  AddParsed(st, [kind |-> "string", type |-> type, bits |-> <<>>, args |-> <<v>>],
          IF StringAllowed(type, v) THEN v ELSE Fail)

ParseStatement(st, s) ==
  CASE s.is = "none" -> st
    [] s.is = "const" -> IF ParseValue(s.value) = Fail \/ ~ValidateName(st, s.name, FALSE) THEN Posted(st)
                         ELSE [st EXCEPT !.raw = (s.name :> s.value) @@ @]
    [] s.is = "section" -> IF s.to \in ToSet(Sections) THEN [st EXCEPT !.section = s.to] ELSE Posted(st)
    [] s.is = "function" -> ParseFunction(st, s.type)
    [] s.is = "local" -> FoldLeft(LAMBDA t, name : IF t.ok THEN AddLocal(t, name) ELSE t, st, s.names)
    [] s.is = "data" -> WithValues(st, [kind |-> "data", num |-> s.size], s.tokens, TRUE)
    [] s.is \in {"reserve", "align"} ->
         IF Len(s.tokens) > 1 THEN Posted(st)
         ELSE WithValues(st, [kind |-> s.is, num |-> s.size], s.tokens, FALSE)
    [] s.is = "string" -> ParseString(st, s.type, s.token)
    [] s.is = "op" -> AddInstruction(st, ParseInstruct(s.name, s.tokens))

\* A line with an error in a label is not looked at any further.
ParseLine(st, line) ==
  LET clean  == [st EXCEPT !.ok = TRUE]
      labels == FoldLeft(LAMBDA t, w : IF t.ok THEN ParseLabel(t, w) ELSE t, clean, line.labels)
      done   == IF labels.ok THEN ParseStatement(labels, line.statement) ELSE labels
  IN  [done EXCEPT !.ok = @ /\ st.ok]

=============================================================================

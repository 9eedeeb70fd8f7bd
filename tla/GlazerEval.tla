----------------------------- MODULE GlazerEval -----------------------------
(***************************************************************************)
(* Values and expressions of glazer.                                       *)
(*                                                                         *)
(* An expression is kept in the order of its evaluation: the operands of   *)
(* an operator stand before it.  What the program rewrites in place (names *)
(* that turn out to be labels or locals) is rewritten in that sequence.    *)
(* An error is posted wherever part of an expression fails, and refuses    *)
(* the source at the end of the pass: the whole expression fails here.     *)
(*                                                                         *)
(* Floats stand by whole values, and a quotient of floats by its whole     *)
(* part; the sign of zero is not kept.                                     *)
(***************************************************************************)
EXTENDS Integers, Sequences, FiniteSets, SequencesExt

CONSTANTS IntBits,   \* the width of an integer, 32 in the code
          MaxFloat,  \* the largest finite float
          FloatLimit \* the least that data of 32 bits refuses, 3.4e38 in the code

ASSUME WidthAssumption ==
  IntBits \in Nat \ {0} /\ MaxFloat \in Nat /\ FloatLimit \in Nat

Integer(n)    == [kind |-> "integer", num |-> n]
Char(c)       == [kind |-> "char", num |-> c]
Float(f)      == [kind |-> "float", flt |-> f]
FltSpec(s)    == [kind |-> "fltspec", spec |-> s]
String(chars) == [kind |-> "string", chars |-> chars]
Word(name)    == [kind |-> "word", name |-> name, private |-> FALSE]
Private(name) == [kind |-> "word", name |-> name, private |-> TRUE]
Local(offset) == [kind |-> "local", num |-> offset]
Label(id)     == [kind |-> "label", id |-> id]
Operator(arity, op) == [kind |-> "operator", arity |-> arity, op |-> op]
Expr(post)    == [kind |-> "expr", post |-> post]

\* An address with nothing below it is final, the others wait for labels.
Address(n)    == [kind |-> "address", num |-> n, post |-> <<>>]
Waiting(post) == [kind |-> "address", num |-> -1, post |-> post]

Unknown == [kind |-> "unknown"]
Fail    == [kind |-> "fail"]
Crash   == [kind |-> "crash"]     \* an assertion, a fatal error or a trap

WholeKinds == {"integer", "char", "address"}
FloatKinds == {"float", "fltspec"}
LiteralKinds == {"integer", "char", "float", "fltspec", "string"}

----------------------------------------------------------------------------
(* Integers: two's complement, division towards zero. *)

Wrap(n) == ((n + 2 ^ (IntBits - 1)) % (2 ^ IntBits)) - 2 ^ (IntBits - 1)
Unsigned(n) == n % (2 ^ IntBits)

Abs(n) == IF n < 0 THEN -n ELSE n
Quotient(l, r) == LET q == Abs(l) \div Abs(r) IN IF (l < 0) = (r < 0) THEN q ELSE -q

Bitwise2(Bit(_, _), l, r) ==
  LET At(n, i) == (n \div 2 ^ i) % 2
  IN  Wrap(FoldLeftDomain(LAMBDA sum, i : sum + Bit(At(l, i - 1), At(r, i - 1)) * 2 ^ (i - 1),
                          0, [i \in 1 .. IntBits |-> i]))

\* A shift by the width or more is left to the machine, which takes it modulo.
IntegerValue(op, l, r) ==
  LET width == 2 ^ (r % IntBits)
  IN  CASE op = "+" -> Wrap(l + r)
        [] op = "-" -> Wrap(l - r)
        [] op = "*" -> Wrap(l * r)
        [] op = "/" -> Quotient(l, r)
        [] op = "%" -> l - r * Quotient(l, r)
        [] op = "|" -> Bitwise2(LAMBDA a, b : IF a + b > 0 THEN 1 ELSE 0, l, r)
        [] op = "&" -> Bitwise2(LAMBDA a, b : a * b, l, r)
        [] op = "^" -> Bitwise2(LAMBDA a, b : (a + b) % 2, l, r)
        [] op = "<<" -> Wrap(l * width)
        [] op = ">>" -> Wrap(Unsigned(l) \div width)
        [] op = ">>>" -> l \div width

IntegerBinary(op, l, r, isAddress) ==
  CASE op \in {"/", "%"} /\ r = 0 -> Fail
    [] op \in {"<<", ">>", ">>>"} /\ r < 0 -> Fail
    [] op \in {"/", "%"} /\ r = -1 /\ l = -(2 ^ (IntBits - 1)) -> Crash
    [] OTHER -> LET n == IntegerValue(op, l, r) IN IF isAddress THEN Address(n) ELSE Integer(n)

----------------------------------------------------------------------------
(* Floats: a special value is "NAN", "+INFINITY" or "-INFINITY". *)

IsNan(v) == v.kind = "fltspec" /\ v.spec = "NAN"
IsInfinite(v) == v.kind = "fltspec" /\ ~IsNan(v)
Infinity(negative) == FltSpec(IF negative THEN "-INFINITY" ELSE "+INFINITY")
SignOf(v) ==
  CASE v.kind = "fltspec" -> IF v.spec = "-INFINITY" THEN -1 ELSE 1
    [] v.flt < 0 -> -1
    [] v.flt = 0 -> 0
    [] OTHER -> 1

Finite(f) == IF Abs(f) > MaxFloat THEN Infinity(f < 0) ELSE Float(f)

FloatSum(l, r) ==
  CASE IsInfinite(l) /\ IsInfinite(r) -> IF l = r THEN l ELSE FltSpec("NAN")
    [] IsInfinite(l) -> l
    [] IsInfinite(r) -> r
    [] OTHER -> Finite(l.flt + r.flt)

FloatUnary(op, v) ==
  CASE IsNan(v) -> v
    [] IsInfinite(v) -> IF op = "-" THEN Infinity(SignOf(v) > 0) ELSE v
    [] OTHER -> Float(IF op = "-" THEN -v.flt ELSE v.flt)

FloatBinary(op, l, r) ==
  LET infinite == IsInfinite(l) \/ IsInfinite(r)
      sign == SignOf(l) * SignOf(r)
  IN  CASE IsNan(l) \/ IsNan(r) -> FltSpec("NAN")
        [] op = "+" -> FloatSum(l, r)
        [] op = "-" -> FloatSum(l, FloatUnary("-", r))
        [] op = "*" /\ infinite -> IF sign = 0 THEN FltSpec("NAN") ELSE Infinity(sign < 0)
        [] op = "*" /\ ~infinite -> Finite(l.flt * r.flt)
        [] op \in {"/", "%"} /\ IsInfinite(l) ->
             IF op = "%" \/ IsInfinite(r) THEN FltSpec("NAN") ELSE Infinity(SignOf(l) * (IF SignOf(r) < 0 THEN -1 ELSE 1) < 0)
        [] op \in {"/", "%"} /\ ~IsInfinite(l) /\ IsInfinite(r) -> IF op = "%" THEN l ELSE Float(0)
        [] op \in {"/", "%"} /\ ~infinite /\ r.flt = 0 ->
             IF op = "%" \/ l.flt = 0 THEN FltSpec("NAN") ELSE Infinity(l.flt < 0)
        [] op = "/" /\ ~infinite -> Float(Quotient(l.flt, r.flt))
        [] op = "%" /\ ~infinite -> Float(l.flt - r.flt * Quotient(l.flt, r.flt))

----------------------------------------------------------------------------
(* Operators.  An operand that failed or is unknown decides for both. *)

Unary(op, v) ==
  CASE v.kind \in {"fail", "unknown", "crash"} -> v
    [] v.kind \in FloatKinds -> IF op = "~" THEN Fail ELSE FloatUnary(op, v)
    [] v.kind \in WholeKinds ->
         LET n == CASE op = "~" -> -v.num - 1 [] op = "+" -> v.num [] op = "-" -> Wrap(-v.num)
         IN  IF v.kind = "address" THEN Address(n) ELSE Integer(n)
    [] OTHER -> Fail

ToFloat(v) == IF v.kind \in FloatKinds THEN v ELSE Float(v.num)

BinaryOfKnown(op, l, r) ==
  CASE {l.kind, r.kind} \subseteq WholeKinds \union FloatKinds ->
         CASE {l.kind, r.kind} \intersect FloatKinds = {} ->
                IntegerBinary(op, l.num, r.num, "address" \in {l.kind, r.kind})
           [] op \in {"+", "-", "*", "/", "%"} -> FloatBinary(op, ToFloat(l), ToFloat(r))
           [] OTHER -> Fail
    [] OTHER -> Fail

(* Mutant: a right side that is not known yet is left out. *)
BinaryLeftOnly(op, l, r) ==
  CASE l.kind \in {"fail", "unknown", "crash"} -> l
    [] r.kind \in {"fail", "unknown", "crash"} -> IF r = Unknown THEN l ELSE r
    [] OTHER -> BinaryOfKnown(op, l, r)

Binary(op, l, r) ==
  CASE l.kind \in {"fail", "unknown", "crash"} -> l
    [] r.kind \in {"fail", "unknown", "crash"} -> r
    [] OTHER -> BinaryOfKnown(op, l, r)

----------------------------------------------------------------------------
(***************************************************************************)
(* Names are looked up in an environment: the current function, if any,    *)
(* the functions with their private labels and locals, the global labels,  *)
(* the constants with their values so far, and the addresses of labels.    *)
(* A label is identified by its function, 0 for a global one, and its name.*)
(***************************************************************************)

NoFunction == 0

\* The place of a local in its function, four bytes apart.
OffsetOf(locals, name) == 4 * ((CHOOSE i \in DOMAIN locals : locals[i] = name) - 1)

EvalLabel(env, ctx, id) ==
  CASE ctx = "constant" -> Fail
    [] ctx = "resolve"  -> Unknown
    [] ctx = "assemble" -> Address(env.addresses[id])

\* What a name stands for: the token it becomes, or a failure.
LookUp(env, ctx, word) ==
  LET local == ctx = "resolve" /\ env.fun # NoFunction
               /\ word.name \in ToSet(env.funs[env.fun].locals)
  IN  CASE word.private ->
             IF env.fun # NoFunction /\ word.name \in env.funs[env.fun].labels
             THEN Label(<<env.fun, word.name>>) ELSE Fail
        [] ~word.private /\ local -> Local(OffsetOf(env.funs[env.fun].locals, word.name))
        [] ~word.private /\ ~local /\ word.name \in env.labels -> Label(<<NoFunction, word.name>>)
        [] ~word.private /\ ~local /\ word.name \in DOMAIN env.values -> env.values[word.name]
        [] OTHER -> Fail

\* The token as it is kept, and its value.
EvalFound(env, ctx, token, found) ==
  [value |-> CASE found.kind = "label" -> EvalLabel(env, ctx, found.id)
               [] token.kind \notin LiteralKinds \union {"word", "label"} -> Crash
               [] OTHER -> found,
   token |-> IF found.kind \in {"label", "local"} THEN found ELSE token]

EvalToken(env, ctx, token) ==
  EvalFound(env, ctx, token, IF token.kind = "word" THEN LookUp(env, ctx, token) ELSE token)

(***************************************************************************)
(* Both sides of an operator are evaluated, whatever the first gives.      *)
(***************************************************************************)
Evaluated(st, kept, value, token) ==
  [stack |-> Append(SubSeq(st.stack, 1, kept), value),
   post  |-> Append(st.post, token),
   kinds |-> st.kinds \union {value.kind}]

EvalOperand(st, evaluated) == Evaluated(st, Len(st.stack), evaluated.value, evaluated.token)

EvalStep(env, ctx, st, token) ==
  LET top == Len(st.stack)
  IN  CASE token.kind # "operator" -> EvalOperand(st, EvalToken(env, ctx, token))
        [] token.kind = "operator" /\ token.arity = 1 ->
             Evaluated(st, top - 1, Unary(token.op, st.stack[top]), token)
        [] token.kind = "operator" /\ token.arity = 2 ->
             Evaluated(st, top - 2, Binary(token.op, st.stack[top - 1], st.stack[top]), token)

Run(env, ctx, post) ==
  FoldLeft(LAMBDA st, token : EvalStep(env, ctx, st, token),
           [stack |-> <<>>, post |-> <<>>, kinds |-> {}], post)

\* The value of an expression; an unknown one is a wait for labels.
ResultOf(ctx, run) ==
  CASE "crash" \in run.kinds -> Crash
    [] "crash" \notin run.kinds /\ "fail" \in run.kinds -> Fail
    [] OTHER -> IF run.stack[1] = Unknown /\ ctx = "resolve" THEN Waiting(run.post) ELSE run.stack[1]

\* What waited for labels must be an address.
EvaluatePost(v, value) ==
  IF v.kind = "expr" \/ value.kind \in {"address", "fail"} THEN value ELSE Crash

Evaluate(env, ctx, v) ==
  IF v.kind = "expr" \/ (v.kind = "address" /\ ctx = "assemble" /\ v.post # <<>>)
  THEN EvaluatePost(v, ResultOf(ctx, Run(env, ctx, v.post))) ELSE v

----------------------------------------------------------------------------
(***************************************************************************)
(* Every expression of an item is evaluated, also in the parts of operands *)
(* and strings: [x], the target of a jump, { ... } and the indirect        *)
(* strings in it.  The first part that fails is the result.                *)
(***************************************************************************)

Parts(Eval(_), parts) ==
  LET new == [i \in DOMAIN parts |-> Eval(parts[i])]
      bad == {i \in DOMAIN parts : new[i].kind \in {"fail", "crash"}}
  IN  IF bad = {} THEN [kind |-> "parts", parts |-> <<>> \o new]
      ELSE new[CHOOSE i \in bad : \A j \in bad : i <= j]

Compound == {"memory", "jumpdest", "complex", "indirect"}

WithParts(Eval(_), v) ==
  LET new == Parts(Eval, v.parts)
  IN  IF new.kind = "parts" THEN [v EXCEPT !.parts = new.parts] ELSE new

\* A value in [ ], and a value or [ ] in an indirect string.
InMost(env, ctx, v) == Evaluate(env, ctx, v)
InInner(env, ctx, v) ==
  IF v.kind \in Compound THEN WithParts(LAMBDA x : InMost(env, ctx, x), v) ELSE InMost(env, ctx, v)
InOperand(env, ctx, v) ==
  IF v.kind \in Compound THEN WithParts(LAMBDA x : InInner(env, ctx, x), v) ELSE InMost(env, ctx, v)
InArgument(env, ctx, v) ==
  IF v.kind \in Compound THEN WithParts(LAMBDA x : InOperand(env, ctx, x), v) ELSE InMost(env, ctx, v)

ExpressionsInNode(env, ctx, args) == Parts(LAMBDA v : InArgument(env, ctx, v), args)
=============================================================================

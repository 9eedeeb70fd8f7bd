------------------------------- MODULE Glazer -------------------------------
(***************************************************************************)
(* glazer: the passes over a source that make a Glulx file of it.          *)
(*                                                                         *)
(*   load       the lines are read, names and items are collected          *)
(*   constants  constants are evaluated, as often as it takes              *)
(*   analyse    the characters of compressed strings are counted           *)
(*   build      the tree is merged, two nodes a step                       *)
(*   encode     the strings are turned into bits                           *)
(*   resolve    items get their places, labels their addresses             *)
(*   header, table, assemble, close   the file is written                  *)
(*                                                                         *)
(* It ends done, refused (an error was posted; the file, if there is one,  *)
(* is deleted), fatal (an error that ends the program where it is met) or  *)
(* aborted (an assertion or a trap).                                       *)
(***************************************************************************)
EXTENDS GlazerReader

CONSTANTS Sources,    \* a set of sources: lines, and the order of the symbol table
          MaxRounds   \* passes over the constants, 50 in the code

ASSUME RoundsAssumption == MaxRounds \in Nat

VARIABLES source,    \* the source that is assembled
          phase,
          read,      \* what was collected, see GlazerParse; its ok is FALSE after any error
          given,     \* the items as they were read, for the properties: no pass uses them
          at,        \* where the pass is: a line, or a section and an item of it
          values,    \* the constants
          rounds,    \* passes over the constants so far
          huff,      \* counts, tree
          layout,    \* addr, the section's fun, addresses, starts, pads, table
          out        \* the file, its checksum, whether it is there

vars == <<source, phase, read, given, at, values, rounds, huff, layout, out>>

Begin == [section |-> 1, item |-> 1]

Env(fun) ==
  [fun |-> fun, funs |-> read.funs, labels |-> read.labels, values |-> values,
   addresses |-> layout.addresses]

Init ==
  /\ source \in Sources
  /\ phase = "load"
  /\ read = NothingRead
  /\ given = read.streams
  /\ at = [section |-> 1, item |-> 1]
  /\ values = <<>>
  /\ rounds = 0
  /\ huff = NoStrings
  /\ layout = [addr |-> 0, fun |-> NoFunction, addresses |-> <<>>, starts |-> <<>>, pads |-> <<>>,
               table |-> MeasureTable(NoStrings, HeaderSize)]
  /\ out = [file |-> <<>>, sum |-> <<0, 0>>, there |-> FALSE]

----------------------------------------------------------------------------
(* Reading and constants. *)

LoadLine ==
  /\ phase = "load"
  /\ at.item <= Len(source.lines)
  /\ read' = ParseLine(read, source.lines[at.item])
  /\ at' = [at EXCEPT !.item = @ + 1]
  /\ phase' = IF read'.crashed THEN "aborted" ELSE phase
  /\ UNCHANGED <<source, given, values, rounds, huff, layout, out>>

EndOfSource ==
  /\ phase = "load"
  /\ at.item > Len(source.lines)
  /\ phase' = "constants"
  /\ values' = [name \in DOMAIN read.raw |-> Unknown]
  /\ given' = read.streams
  /\ UNCHANGED <<source, read, at, rounds, huff, layout, out>>

\* One constant; what an earlier one of this pass got is there already.
EvalConstant(known, name) ==
  IF known[name] # Unknown THEN known
  ELSE [known EXCEPT ![name] = Evaluate([Env(NoFunction) EXCEPT !.values = known], "constant", read.raw[name])]

\* A constant that has failed has its value, as far as the passes go.
EvalConstantPass ==
  /\ phase = "constants"
  /\ rounds < MaxRounds
  /\ LET order == SelectSeq(source.order, LAMBDA name : name \in DOMAIN read.raw)
         new   == FoldLeft(EvalConstant, values, order)
         done  == \A name \in DOMAIN values : values[name] # Unknown
         ok    == read.ok /\ \A name \in DOMAIN values : new[name] # Fail
     IN  /\ values' = new
         /\ rounds' = rounds + 1
         /\ read' = [read EXCEPT !.ok = ok]
         /\ at' = Begin
         /\ phase' = CASE \E name \in DOMAIN values : new[name] = Crash -> "aborted"
                       [] done /\ ok -> "analyse"
                       [] done /\ ~ok -> "refused"
                       [] OTHER -> "constants"
  /\ UNCHANGED <<source, given, huff, layout, out>>

\* Ends the program, before the errors that were posted are shown.
CyclicConstants ==
  /\ phase = "constants"
  /\ rounds = MaxRounds
  /\ phase' = "fatal"
  /\ UNCHANGED <<source, given, read, at, values, rounds, huff, layout, out>>

----------------------------------------------------------------------------
(* Going over the items of some sections. *)

Section == Sections[at.section]
Items == read.streams[Section]
AtItem == at.item <= Len(Items)
Item == Items[at.item]
NextItem == [at EXCEPT !.item = @ + 1]

(* Mutant: the same section again. *)
SameSection == [section |-> at.section, item |-> 1]

NextSection == [section |-> at.section + 1, item |-> 1]

\* The item becomes one or more, the others are met later.
Replaced(items) ==
  [read EXCEPT !.streams[Section] = SubSeq(@, 1, at.item - 1) \o items \o SubSeq(@, at.item + 1, Len(@))]

Stops(result) == IF result.kind = "crash" THEN "aborted" ELSE phase

\* An error is posted and the item is left, or the program ends.
ItemFails(result) ==
  /\ result.kind \in {"fail", "crash"}
  /\ read' = Posted(read)
  /\ phase' = Stops(result)
  /\ at' = NextItem

IsText == AtItem /\ Item.kind = "string"

Analysed(args) ==
  CASE args.kind # "parts" -> args
    [] args.kind = "parts" /\ Item.type = "huffstr" -> Analyse(huff, SimplifyAll(args.parts[1]))
    [] OTHER -> [kind |-> "analysed", huff |-> huff, value |-> SimplifyAll(args.parts[1])]

\* Names in strings are looked up outside of any function.
AnalyseString ==
  /\ phase = "analyse"
  /\ IsText
  /\ \E found \in {Analysed(ExpressionsInNode(Env(NoFunction), "resolve", Item.args))} :
         \/ ItemFails(found) /\ UNCHANGED huff
         \/ /\ found.kind = "analysed"
            /\ huff' = found.huff
            /\ read' = Replaced(<<[Item EXCEPT !.args = <<found.value>>]>>)
            /\ at' = NextItem
            /\ UNCHANGED phase
  /\ UNCHANGED <<source, given, values, rounds, layout, out>>

EncodeString ==
  /\ phase = "encode"
  /\ IsText
  /\ read' = IF Item.type = "huffstr"
             THEN Replaced(<<[Item EXCEPT !.bits = Encode(huff.nodes, Item.args[1])]>>) ELSE read
  /\ at' = NextItem
  /\ UNCHANGED <<source, given, phase, values, rounds, huff, layout, out>>

\* Strings are looked for in the first two sections.
SkipItem ==
  /\ phase \in {"analyse", "encode"}
  /\ ~IsText
  /\ AtItem \/ at.section = 1
  /\ at' = IF AtItem THEN NextItem ELSE NextSection
  /\ UNCHANGED <<source, given, phase, read, values, rounds, huff, layout, out>>

StartLayout(h) ==
  LET table == MeasureTable(h, HeaderSize)
  IN  [layout EXCEPT !.table = table, !.addr = table.end, !.starts = ("text" :> table.end)]

\* With no string to compress there is no tree, and no table.
EndOfStrings ==
  /\ phase \in {"analyse", "encode"}
  /\ ~AtItem /\ at.section = 2
  /\ at' = Begin
  /\ phase' = CASE ~read.ok -> "refused"
                [] read.ok /\ phase = "analyse" /\ huff.strings > 0 -> "build"
                [] OTHER -> "resolve"
  /\ huff' = IF phase' = "build" THEN StartTree(huff) ELSE huff
  /\ layout' = IF phase' = "resolve" THEN StartLayout(huff) ELSE layout
  /\ UNCHANGED <<source, given, read, values, rounds, out>>

MergeNodes ==
  /\ phase = "build"
  /\ MoreThanOne(huff)
  /\ LET merged == MergeLowest(huff)
     IN  /\ huff' = IF merged = Crash THEN huff ELSE merged.huff
         /\ phase' = Stops(merged)
  /\ UNCHANGED <<source, given, read, at, values, rounds, layout, out>>

EndOfTree ==
  /\ phase = "build"
  /\ ~MoreThanOne(huff)
  /\ huff' = FinishTree(huff)
  /\ phase' = "encode"
  /\ UNCHANGED <<source, given, read, at, values, rounds, layout, out>>

----------------------------------------------------------------------------
(* Resolving. *)

ResolveNode ==
  /\ phase = "resolve"
  /\ AtItem
  /\ LET begins == Item.kind = "function" /\ Section # "bss"
         locals == IF begins THEN Len(read.funs[Item.fun].locals) ELSE 0
         fun    == IF begins THEN Item.fun ELSE layout.fun
     IN  \E placed \in {ResolveItem(Env(layout.fun), Section, Item, locals, layout.addr)} :
         \/ /\ ItemFails(placed)
            /\ layout' = [layout EXCEPT !.fun = fun]
         \/ /\ placed.kind = "placed"
            /\ read' = Replaced(placed.items)
            /\ layout' = [layout EXCEPT
                 !.addr = placed.addr,
                 !.fun = fun,
                 !.addresses = IF Item.kind = "label" THEN (Item.id :> layout.addr) @@ @ ELSE @]
            /\ at' = NextItem
            /\ UNCHANGED phase
  /\ UNCHANGED <<source, given, values, rounds, huff, out>>

\* The end of a section is padded; after the last the errors are shown.
ResolveSection ==
  /\ phase = "resolve"
  /\ ~AtItem
  /\ LET pad == PadTo(layout.addr, PageSize)
         end == layout.addr + pad
     IN  /\ layout' = [layout EXCEPT !.addr = end, !.pads = (Section :> pad) @@ @, !.fun = NoFunction,
                                       !.starts = IF at.section < 3 THEN (Sections[at.section + 1] :> end) @@ @ ELSE @]
         /\ at' = IF at.section < 3 THEN NextSection ELSE Begin
         /\ phase' = CASE at.section < 3 -> phase
                       [] at.section = 3 /\ end > MaxSize -> "fatal"
                       [] OTHER -> IF read.ok THEN "header" ELSE "refused"
  /\ UNCHANGED <<source, given, read, values, rounds, huff, out>>

----------------------------------------------------------------------------
(* Writing. *)

Put(bytes) ==
  [out EXCEPT !.file = @ \o bytes, !.sum = ChecksumWith(@, Len(out.file), bytes), !.there = TRUE]

\* What could not be written is an error, and nothing of it is kept.
WriteOrPost(result) ==
  /\ out' = IF result.kind = "written" THEN Put(result.bytes) ELSE out
  /\ read' = IF result.kind = "written" THEN read ELSE Posted(read)

AssembleHeader ==
  /\ phase = "header"
  /\ LET header == HeaderOf(Env(NoFunction), layout.starts, layout.addr, layout.table)
     IN  /\ out' = IF header.kind = "written" THEN Put(header.bytes) ELSE [out EXCEPT !.there = TRUE]
         /\ phase' = IF header.kind = "written" THEN "table" ELSE "fatal"
  /\ UNCHANGED <<source, given, read, at, values, rounds, huff, layout>>

WriteStringTable ==
  /\ phase = "table"
  /\ \E table \in {WriteTable(Env(NoFunction), huff, layout.table)} :
         /\ WriteOrPost(table)
         /\ phase' = IF table.kind = "crash" THEN "aborted" ELSE "assemble"
  /\ UNCHANGED <<source, given, at, values, rounds, huff, layout>>

AssembleNode ==
  /\ phase = "assemble"
  /\ AtItem
  /\ LET locals  == IF Item.kind = "function" THEN Len(read.funs[Item.fun].locals) ELSE 0
     IN  \E written \in {AssembleItem(Env(NoFunction), Item, locals)} :
         /\ WriteOrPost(written)
         /\ phase' = Stops(written)
         /\ at' = NextItem
  /\ UNCHANGED <<source, given, values, rounds, huff, layout>>

\* The third section takes no room in the file.
AssembleSection ==
  /\ phase = "assemble"
  /\ ~AtItem
  /\ out' = Put(Zeros(layout.pads[Section]))
  /\ at' = NextSection
  /\ phase' = IF at.section = 1 THEN phase ELSE "close"
  /\ UNCHANGED <<source, given, read, values, rounds, huff, layout>>

CloseOutput ==
  /\ phase = "close"
  /\ out' = IF read.ok THEN [out EXCEPT !.file = CloseFile(@, out.sum)]
            ELSE [file |-> <<>>, sum |-> out.sum, there |-> FALSE]
  /\ phase' = IF read.ok THEN "done" ELSE "refused"
  /\ UNCHANGED <<source, given, read, at, values, rounds, huff, layout>>

Ended == {"done", "refused", "fatal", "aborted"}

Stopped == phase \in Ended /\ UNCHANGED vars

Next ==
  \/ LoadLine \/ EndOfSource \/ EvalConstantPass \/ CyclicConstants
  \/ AnalyseString \/ EncodeString \/ SkipItem \/ EndOfStrings \/ MergeNodes \/ EndOfTree
  \/ ResolveNode \/ ResolveSection
  \/ AssembleHeader \/ WriteStringTable \/ AssembleNode \/ AssembleSection \/ CloseOutput
  \/ Stopped

\* glazer runs until it has ended: weak fairness of Next, which can always take
\* a step before that.
Fairness == []<>(phase \in Ended) \/ []<><<Next>>_vars

Spec == Init /\ [][Next]_vars /\ Fairness

----------------------------------------------------------------------------
Phases == {"load", "constants", "analyse", "build", "encode", "resolve",
           "header", "table", "assemble", "close"}

\* Text, or pieces of it: what is counted of a value is characters.
OfCharacters(part) == part.kind = "string" => part.chars \in Seq(Nat)
IsOfText(v) ==
  /\ OfCharacters(v)
  /\ v.kind = "complex" => /\ Len(v.parts) \in Nat /\ DOMAIN v.parts = 1 .. Len(v.parts)
                           /\ \A i \in DOMAIN v.parts : OfCharacters(v.parts[i])

(* What is counted next is text, and its operands are numbered. *)
CountsText ==
  phase = "analyse" /\ IsText =>
    LET args == ExpressionsInNode(Env(NoFunction), "resolve", Item.args)
    IN  /\ DOMAIN Item.args \in SUBSET Nat
        /\ args.kind = "parts" /\ Item.type = "huffstr" => IsOfText(SimplifyAll(args.parts[1]))

(* The state has its shape: the pass is somewhere in the source, addresses *)
(* are in memory, everything in the file is a byte, strings are text.      *)
TypeOK ==
  /\ phase \in Phases \union Ended
  /\ read.ok \in BOOLEAN
  /\ at.section \in 1 .. 3 /\ at.item \in Nat \ {0}
  /\ rounds \in 0 .. MaxRounds
  /\ layout.addr \in Nat
  /\ \A id \in DOMAIN layout.addresses : layout.addresses[id] \in 0 .. layout.addr
  /\ \A i \in DOMAIN out.file : out.file[i] \in 0 .. 255
  /\ CountsText
  /\ phase \in {"table", "assemble", "close", "done"} => out.there

(* Two passes agree (resolve.c and assemble.c): while the file is written, *)
(* each section and each label comes up where the resolving pass put it,   *)
(* and the finished file is as long as its header says, has its sections   *)
(* at whole pages, and the checksum of its words.                          *)
LaidOut ==
  /\ phase = "assemble" /\ read.ok =>
       /\ at.item = 1 => Len(out.file) = layout.starts[Section]
       /\ AtItem /\ Item.kind = "label" => Len(out.file) = layout.addresses[Item.id]
  /\ phase = "done" =>
       /\ Len(out.file) = ExtStart(out.file)
       /\ RamStart(out.file) % PageSize = 0 /\ ExtStart(out.file) % PageSize = 0
       /\ EndMem(out.file) = layout.addr /\ EndMem(out.file) >= ExtStart(out.file)
       /\ SumOfWords(out.file) = <<WordAt(out.file, 32), WordAt(out.file, 34)>>

NoAddresses == [Env(NoFunction) EXCEPT !.addresses = [id \in DOMAIN layout.addresses |-> 0]]

\* Every item of the source is found in the file in its place, with `P`.
AllItems(P(_, _)) ==
  \E walk \in {WalkAll(out.file, NoAddresses, given)} :
    \E env \in {[NoAddresses EXCEPT !.addresses = LabelsOf(walk)]} :
      /\ walk["text"].a <= RamStart(out.file) /\ walk["data"].a <= ExtStart(out.file)
      /\ walk["bss"].a <= EndMem(out.file)
      /\ \A s \in {"text", "data"} : \A i \in DOMAIN walk[s].found :
           P([env EXCEPT !.fun = walk[s].found[i].fun], walk[s].found[i])
      /\ env.addresses[<<NoFunction, "entry_point">>] = Entry(out.file)

(* A finished file, decoded from its bytes as the machine does, has the    *)
(* instructions of the source with operands that mean what the source says *)
(* (labels are where they were found in the file), for an instruction on a *)
(* pair two that move the pair, the functions with their locals, the data  *)
(* (assemble.c, resolve.c).                                                *)
CodeReadsBack ==
  phase = "done" =>
    AllItems(LAMBDA env, x : x.item.kind # "string" => ItemIs(out.file, env, x.item, x.a))

(* The same for the instructions on pairs alone: the two that each becomes *)
(* leave in the machine what its manual promises (MANUAL.md:565-582).      *)
PairsReadBack ==
  phase = "done" =>
    AllItems(LAMBDA env, x : x.item.kind = "opcode" /\ x.item.op \in FakePairs => ItemIs(out.file, env, x.item, x.a))

(* A finished file prints, through the table its header names, every       *)
(* string of the source: characters, numbers in complex strings, indirect  *)
(* references with their addresses and arguments (huff.c).                 *)
StringsReadBack ==
  phase = "done" =>
    AllItems(LAMBDA env, x : x.item.kind = "string" => ItemIs(out.file, env, x.item, x.a))

(* While the tree is merged from two sorted lists its nodes stay linked    *)
(* and the lists in order, so that the assertion that a merged node is not *)
(* lighter than those before it holds (HUFF_BuildTree).                    *)
TreeSound ==
  /\ phase \in {"build", "encode"} => SoundTree(huff)
  /\ phase = "build" /\ MoreThanOne(huff) => MergeLowest(huff) # Crash

\* The least a code for some weights can cost, over all trees: for every set of
\* leaves of a size from the sets that are smaller.
LeastCost(leaves, weight) ==
  LET Sum(set) == SumOf(LAMBDA n : IF n \in set THEN weight[n] ELSE 0, [n \in 1 .. Len(weight) |-> n])
      Split(cost, set) ==
        LET first == CHOOSE n \in set : TRUE
        IN  {cost[a \union {first}] + cost[set \ (a \union {first})] :
               a \in (SUBSET (set \ {first})) \ {set \ {first}}}
      OfSize(cost, k) ==
        cost @@ [set \in kSubset(k, leaves) |-> IF k = 1 THEN 0 ELSE Sum(set) + Min(Split(cost, set))]
      sizes == [k \in 1 .. Cardinality(leaves) |-> k]
  IN  FoldLeft(OfSize, <<>>, sizes)[leaves]

(* The finished tree gives the strings the fewest bits that any tree gives *)
(* them (HUFF_BuildTree).                                                  *)
CodesLeast ==
  phase = "encode" /\ at = Begin =>
    LET leaves == {n \in DOMAIN huff.nodes : huff.nodes[n].kind # "branch"}
        weight == [n \in 1 .. Cardinality(leaves) |-> huff.nodes[n].weight]
    IN  SumOf(LAMBDA n : weight[n] * Len(CodeOf(huff.nodes, n)), [n \in 1 .. Len(weight) |-> n])
          = LeastCost(leaves, weight)

Mentions(name) ==
  IF read.raw[name].kind # "expr" THEN {}
  ELSE {token.name : token \in {t \in ToSet(read.raw[name].post) : t.kind = "word"}}

(* Once the constants are evaluated each is what its expression gives for  *)
(* the final values of the others, whatever the order of the symbol table; *)
(* and they are called cyclic only if they are, or if a chain of them is   *)
(* as long as the passes there are (EvaluateConstants).                    *)
ConstantsTrue ==
  /\ phase \in (Phases \ {"load", "constants"}) \union {"done"} =>
       \A name \in DOMAIN values : values[name] = Evaluate(Env(NoFunction), "constant", read.raw[name])
  /\ phase = "fatal" /\ rounds = MaxRounds /\ (\E name \in DOMAIN values : values[name] = Unknown) =>
       \/ Cardinality(DOMAIN read.raw) >= MaxRounds
       \/ \E cycle \in SUBSET DOMAIN read.raw \ {{}} :
            \A name \in cycle : Mentions(name) \intersect cycle # {}

(* glazer always comes to an end: a file, or errors, or an assertion,      *)
(* however its constants depend on each other (EvaluateConstants).         *)
Terminates == <>(phase \in Ended)
=============================================================================

# A verification project for zdevtools, zabbrev and glazer

The repository holds three sets of tools for old virtual machines:

- **zdevtools** (Rust): `za`, a single-pass assembler for the Z-machine, and
  `zd`, a disassembler for it, in all versions 1 to 8;
- **zabbrev** (C): finds the abbreviations that make the text of a Z-machine
  game shortest;
- **glazer** (C): a two-phase assembler for Glulx and the Z-machine.

All are sequential programs that read files and write files. What is hard about
them is not concurrency. It is that several computations must agree although
they are written apart: the place where a reference is recorded and the place
where it is patched; the length of a thing that is measured and of the thing
that is written; the two tools that write and read one format; a cached score
and the state it was computed from. The modules here are about those
agreements. Every definition is translated from the source; `PROJECT.json` maps
each to the lines it stands for.

## Inventory

### za (`za/src`)

| part | state | operations |
|---|---|---|
| options, `main.rs` | version, release, serial, `--preallocate-unicode-table` | parse options, read lines, write the file |
| grammars `asm/parser/z1..z6.lalrpop` | none | one line to one `Directive`, by version (V7 and V8 use that of V5) |
| `Assembler`, `asm/mod.rs` | output file and position, `labels`, `label_targets`, `started`, header addresses, `unicode_table`, `custom_unicode_table`, preallocated table | `start_file`, one handler per directive, `handle_opcode`, `apply_label_targets`, `write_unicode_table`, `end_file` |
| `Opcode::encode`, `Arg` | none but the references they record | operand types, forms, operand bytes |
| `encode_string` | appends to `unicode_table` | characters to Z-characters to words |

The assembler reads each line once. A reference to a label is written as zeros
and recorded as a `Target`; when the source ends, `apply_label_targets` patches
all of them, then the Unicode table, the padding, the length and the checksum
are written. An error ends the program and leaves in the file what was written.

Correct means: each reference of a finished file is its label, in the form the
reader expects; no write touches what is not its own; the header agrees with
the file; the reader sees the instructions and the texts of the source.

### zd (`zd/src`)

| part | state | operations |
|---|---|---|
| `Memory`, `sources.rs` | the bytes, header fields, alphabet, Unicode table | read bytes and words, fail at the end |
| `Disassembler::start` | list of starting addresses, routines | pack and unpack addresses, read routine headers |
| `Disassembler::interpret` | `pc` (a field, shared by all nested calls), seen addresses, instructions, routines | decode one instruction, call itself for each target |
| `decode_string_helper` | alphabet, shift, ten-bit code, abbreviation | a state machine over Z-characters |
| `standard.rs`, `visual.rs`, `main.rs` | none | printing, options |

Correct means: everything reachable from the starting addresses is listed, once
and whole, whatever the nesting; the walk ends; options limit it as documented.

### zabbrev (`zabbrev/src`)

| part | state | operations |
|---|---|---|
| `main.c`, `zabbrev.c`, readers | settings, files of the game | options and their bounds, detection of the format, reading of ZAP sources, infodumps, transcripts and plain text |
| `gametext.c` | texts, windows of the transcript, cost of characters, patterns with cached occurrences, candidate heap | count, update occurrences, push, pop |
| `suffix_array.c` | suffix and LCP arrays of the whole text | prefix doubling, search, count patterns |
| `optimal_parse.c` | cost and choice per position, frequency and savings per pattern | `rescore_optimal_parse`: a shortest path computed backwards |
| `zabbrev.c`, search | heap of candidates, list of the best, a second heap of long ones | extract patterns, greedy choice with candidates thrown back, oversampling and cutting, three refinements, long patterns |
| `zabbrev.c`, output | none | abbreviations in three styles, the game with its abbreviations marked, sizes |

Correct means: no candidate is lost; the parse is least; the scores that are
compared are those of the current list; the loops end; what is reported is what
is written.

### glazer (`glazer`)

| part | state | operations |
|---|---|---|
| `lex.c`, `parse.c`, `file.c`, `node.c` | syntax trees, items in three sections | read a line, collect names, operands, data |
| `symbol.c`, `defs.c`, `eval.c` | definitions, constants, scopes of private names | rounds of constant evaluation, arithmetic, lookup |
| `huff.c` | character counts, tree, encoded strings, table position | analyse, sort and merge, encode, measure and write the table |
| `resolve.c` | address of each label, size of each item, padding | first pass: sizes, addresses, pseudo-instructions |
| `assemble.c`, `output.c` | file, position, checksum | second pass: header, table, bytes, closing |
| `z_text.c`, `z_opcode.c` | tables | Z-machine text and opcodes, unreachable |

Correct means: the second pass writes as many bytes as the first counted, for
each item; the bytes mean what the source says; the code for strings is
prefix-free and least, and the table agrees with it; constants do not depend on
the order of the symbol table, or are refused.

### How they interact

`za` writes what `zd` reads. They share no code: the opcode tables, the alphabets
and the meaning of each field exist twice, and `RoundTrip` composes both. The
abbreviations `zabbrev` finds are meant for other compilers, and glazer's output
is read by interpreters outside the repository.

## Plan

1. *(done)* `ZaAssembler` with `Linkage`, the promise about labels it implements.
2. *(done)* `ZdDecode`, `ZdInterpret`, `ZdTraversal` with `Reachability`, the search it implements.
3. *(done)* `ZaEncode`, `ZdListing`, composed with `ZdInterpret` in `RoundTrip`.
4. *(done)* Proofs about 1 and 2.
5. *(done)* zabbrev from its command line to its output, in the modules `Zabbrev...`.
6. *(done)* glazer from its lines to its file, in the modules `Glazer...`, with a
   reader of its own as specification.
7. *(done)* Proofs: the header of `ZaAssembler` (`EntryPoint`, `UnicodeTableFound`,
   `LengthAndChecksum`), all of `RoundTrip`, the tree of glazer.
8. *(done)* Proofs: the search of zabbrev, its heap, what it reports.
9. The lexer of glazer with precedence and included files; strings of zd that hold
   abbreviations.

The project has at most a dozen runs, each a question of its own, so that all of
it is checked in minutes.

## Modules

### za

`ZaAssembler` models the whole of `asm/mod.rs` except the contents of bytes that
nothing looks at again. One action per directive, and for an instruction one to
start it (`HandleOpcode`), one per operand (`WriteOperand`), one to end it
(`EndOpcode`), since operands are what records references; one per patched
reference (`ApplyTarget`); `FinishFile` is the rest of `end_file`. The file is
the sequence of its cells from an address `Origin` on, the end of what
`start_file` writes or, in the V8 instance, an address after a long seek, so that
the 16-bit limits are near. `header` holds the header words. The bytes of a
string are opaque (`TextCell`) and the head of an instruction is given. A line
may fail; what the code has written by then stays written.

`Linkage` says what an assembler promises about names: bound once, used before
or after, and either every use becomes the address of its name or there is no
output. `ZaLinkage` states that `ZaAssembler` implements it: the value of a use
is what zd reads in the finished file, so the many steps of patching amount to
one abstract step, and a failure at any point to none.

`ZaEncode` is pure: the instructions each grammar accepts (`Forms`), operand
types and bytes (`MakeType`, `Written`, `OpcodeBytes`), strings (`EncodeString`)
and whole instructions (`Bytes`).

### zd

`ZdDecode` is pure: the opcode table as sets of numbers per version, the shape
of an instruction, its fields and `Decode`, the outcome at an address.

`ZdInterpret` models `start` and `interpret`. Recursion is an explicit stack of
frames holding what the caller still has on its own: the address to go on at and
whether its instruction returns. `control` is the point the running call is at.
It does not say what zd is given: `ZdTraversal` gives it any story or bytes under any
option, `RoundTrip` the file that za wrote.
`Reachability` is the search it performs, with no order and no stack: nodes are
visited one at a time, only from starts or visited nodes, and completion means
nothing is left. `Searches` says that `ZdTraversal` implements it.

`ZdListing` adds what is listed of an instruction: operand values, store, branch
and text, with `decode_string_helper` as a fold over Z-characters.

### za and zd

`RoundTrip` is za followed by zd. `Assemble` writes one instruction of the source with
`ZaEncode`, keeping za's growing Unicode table. `EndFile` writes the table, the pointer
to it in the header extension and the padding, or fails where an address or the length
is past 16 bits. From then on each step is a step of `ZdInterpret` on that file, so all
that zd does to a story is in it: the error at the end of memory, unknown opcodes, the
texts of `print_addr` and `print_paddr` and the routines of calls that are not in memory, the
calls for targets, the stop after an instruction that returns. `source.before` is what za
writes between the header and the first instruction; the instances have the very bytes.

What is not in it: a label as operand is the word it comes to (resolving labels is
`ZaAssembler`'s part), and a branch goes nowhere but to a return; there is no
`unicode_table` directive and no preallocated table. Of the header only the words that zd
reads are in memory, the rest is zero, so no operand of the instances is the address of a text below
64. zd also reads the abbreviations a text names, which `ZdDecode` leaves out: za writes
none, and where zd takes other bytes for such a text, after a call or a jump into an
instruction or at an address that is printed, it may end in an error that the model has not. `ErrorsNamed`
allows for such errors, and the other properties say nothing of what follows them.

### zabbrev

`ZabbrevSearch` is the program: one action per pass of each of its loops. It
extends, from the bottom up:

- `ZabbrevText`: costs of characters and strings, the parse as a fold over a text
  from its end, frequencies, savings, padding of strings to whole words;
- `ZabbrevHeap`: the array heap with its sifting, and patterns with the score they
  were pushed with;
- `ZabbrevPatterns`: the suffix array as the code sorts it, LCPs, counts, search,
  and the walk that yields candidates;
- `ZabbrevReader`: options, formats and texts of a game;
- `ZabbrevOutput`: what is printed and counted at the end.

Texts are sequences of bytes, since where words, windows and strings begin is what
the readers decide.

### glazer

`Glazer` is the program: one action per line read, per pass over the constants,
per string analysed or encoded, per merge, per item resolved, per item written.
The phase is a variable, and an end is one of four: done, refused, fatal, aborted.
It extends, from the bottom up:

- `GlazerEval`: postfix expressions over integers, floats, strings and labels,
  with Unknown for what is not known in this round; lookup of names in the
  function, in the scope of private names, and outside;
- `GlazerHuffman`: counts, the merge sort, the two queues, codes, table;
- `GlazerParse`: what a line adds to names, sections and errors;
- `GlazerLayout`: the size of an item and what the first pass makes of it;
- `GlazerWriter`: its bytes, the header and the checksum;
- `GlazerReader`: the specification. It decodes a file as the Glulx machine does,
  by its own tables, and compares each item of the *source as it was read* (`given`) with
  what it finds, so that a slip that the first pass makes and the second repeats
  shows. The two instructions made of one on a pair are executed on a machine with
  a few locals, a stack and memory, and must move the pair.

### Instances

`MC...` modules hold the instances TLC checks; `..._proof` modules the theorems.
Definitions marked *Mutant* are what a plausible slip in the code would make of
the definition after them. Each property is known to fail with one of them.

## Runs

| run | asks | instance |
|---|---|---|
| `za_references_v6` | does every finished file resolve its references, and does the assembler implement `Linkage`? | V6, two labels, six instructions with every kind of reference, forwards and backwards, strings with new characters, one table; 4 lines |
| `za_header_v3` | do the header words name the dictionary and the entry point? | V3, directives of every kind, failing ones included |
| `za_tables_v8` | do tables, padding and references stay apart near the 16-bit limits, with the right length and checksum? | V8, preallocated table, `Origin` near 65535, at most 2 entries in a table |
| `zd_traversal` | is the walk a complete search that ends? | all 2401 stories of four bytes over seven, with and without `-i`; twenty-odd longer ones in V3, V5, V6, V7, V8 with each option, limits of 2 |
| `zabbrev_search` | is the list found with true scores, and the report true? | fifteen command lines: each level `-x0` to `-x3`, `-b`, `-i`, `-r3`, versions, alphabets, output styles, refactoring only; games in each format; `CutoffLongPattern` 4, `Oversample` 3 |
| `glazer_files` | does each finished file hold its source, and does each source end? | instructions with each kind of operand, jumps, calls, data, pairs; strings of each kind; 70 multisets of weights; constants with each operator, chains of four in all 24 orders; a cycle; sources with each error |
| `round_trip` | does zd read what za wrote? | 12548 sources: each instruction of each version with operand kinds in turn from each of five, all return branches, two stores; texts of up to two characters of each kind, pairs of texts; calls of, jumps to and texts at each address in the instructions that follow |
| `za_small_branch_v5` | *violated*: is a branch to a label a branch? | `label A`, `verify %A` |
| `zd_offsets_v7` | *violated*: does disassembly start where `-a` says? | a V7 story, offsets 0 and 8 |
| `zabbrev_counts` | *violated*: does the suffix array count what occurs? | texts that end as others do |
| `glazer_pairs` | *violated*: does `dload` read both words? | a pair at a label |
| `round_trip_stores` | *violated*: do instructions with a store and a branch read back? | `get_sibling` and the like in V3, V5, V6 |

Properties, beside a type invariant for each machine:

- `FieldsApart`, `ReferencesResolved`, `WrittenOnce`: references are recorded at
  their own place and patched there, and stay right while the rest is written.
- `KeepsLinkage`: refinement of `Linkage`.
- `EntryPoint`, `LengthAndChecksum`, `UnicodeTableFound`: header words against the
  finished file, whatever the order of directives. A table at the end of the file is
  `RoundTrip`'s, one that is preallocated `za_tables_v8`'s; the theorem has both.
- `NothingMissed`, `ListedOnce`, `WithinLimit`, `RoutinesOfCalls`: the listing.
- `Searches`: refinement of `Reachability`. `Terminates`: liveness.
- za and zd agree: `InStep` (zd's outermost call goes from line to line, wherever nested
  calls lead, up to one that returns), `ErrorsNamed` (no line makes zd fail but one that
  names a text or a routine, and nothing does if no line names or jumps anywhere and one
  returns), `AllListed` (a disassembly that ends well has each line up to that one),
  `InstructionsReadBack`, `TextsReadBack` (each line listed reads as the source has it).
- zabbrev: `PatternsComplete` (every pattern that occurs twice is looked at),
  `HeapSound` (a candidate is in the heap or in the list, once, the greatest on top),
  `CachesCurrent` (cached occurrences and scores are those of their pattern),
  `ParseIsLeast` (against the least cost of all parses), `SavingsTrue` (the total
  is that of the list, counted afresh), `BaselineTrue` (what a refinement is
  compared with), `SizesAgree` and `FinishedIsText` (the output), `Terminates`.
- glazer: `LaidOut` (both passes agree, header and checksum), `CodeReadsBack` and
  `StringsReadBack` (against `GlazerReader`), `TreeSound` (the tree between merges;
  merged weights never fall), `CodesLeast` (against the least cost of all trees), `ConstantsTrue`, `Terminates`.

### Bounds

Lines are bounded by `MaxLines`. A reference needs its label's line, its own and
one between or around them to move either; the fourth line lets a string, a table
or a second reference come in between. Two labels let references be to different
and to equal labels, forwards and backwards. `MaxUnicode` is 2 instead of 97, so
that the third new character is one too many. `GlobalValues`, `Sizes`, `Offsets`
hold a value below, at and above each limit that the code compares with. Stories
of four bytes are long enough for a call, a branch back into it, and code that is
reached in two ways; overlapping instructions (a branch into the operand of
another) occur among them.

In `round_trip` a source is one or two instructions and a return, or a dozen for calls and
jumps, since what is to be seen is where the next instruction begins; operands are of each
size and kind, and named addresses go through all bytes of the instructions near, so that
calls and jumps come to the middle of an instruction, its text, the return, and the
padding. `print_paddr 300` and `call 300` name what is outside memory, and end in zd's errors.

In zabbrev the interesting cases are few occurrences and many overlaps: texts of a
dozen characters in which each pattern overlaps another, so that choosing one
changes the scores of the rest, forces candidates back into the heap, and edits
make two entries equal. `CutoffLongPattern` (20 in the code) and `Oversample` are
small so that short texts have long patterns and more candidates than asked for.

In glazer `IntBits` is 20 instead of 32, TLC having 32 bits itself; all limits that
the code compares with (a byte, a word, a signed word) lie below, and constants
reach the ends of the range. `PageSize` is 16 instead of 256, `LocalsAtOnce` 2
instead of 255, `MaxLocals` 4, `MaxSize` 4096, `MaxRounds` 5 instead of 50, each so
that the sources go past them. `FloatLimit` is 60000 for 3.4e38, from which on data of 32 bits
refuses a float, and the sources have the last float it takes and the first it does not. A chain of four constants takes from one round to
four, by the order of the table, and one of five is past the limit. Four leaves
have weights up to 5, so that each way for the queues to interleave and each tie
occurs. A glazer built with the same limits writes the same bytes for the sources
with output, and ends the others with the same messages.

### Fairness

`ZdTraversal` has `WF_vars(Next)`. zd is one thread, it waits for nothing
outside, and each step of the model is a bounded piece of its code; so it always
takes its next step. `Terminates` then holds because each visit adds an address to
`seen`, each other step shortens the stack or moves on, and memory is finite. zabbrev and glazer
are such programs as well: they read all their input and go on until they end.
`ZabbrevSearch` and `Glazer` state the same fairness as
`[]<>(phase \in Ended) \/ []<><<Next>>_vars`: a step is possible in every phase
that is not an end, so this is weak fairness of `Next` without an ENABLED that
would compute each step twice. zabbrev's `Terminates` speaks of candidates that are
thrown back and refinements that repeat as long as they gain; glazer's of rounds
that go on as long as constants are missing. The assembler za and `RoundTrip` claim
no liveness: a source may end anywhere.

## Proofs

Constants are arbitrary in all theorems: any version, source, story and option
that the assumptions (`OptionsAssumption`, `SourceAssumption`,
`DistinctAssumption`, `ConfigsAssumption`, `NoAddressAssumption`, `SourcesAssumption`,
`TableAssumption`, `ConstantsAssumption`, `InputAssumption`) allow. These say what the
option parsers and the grammars accept, that markers are not values, that a Unicode table
has at most the code's 97 characters, that zabbrev's arguments are strings and its files
bytes, and that a string counts as a natural number or as none, which is 0 (`-n` takes
what is below 1 for none, the other options what is not above 0).

`ZaAssembler_proof`

- `TypeCorrect`: `TypeOK` is inductive by itself. The interesting parts are the
  header words and patched bytes, which fit their widths because of the checks
  before each write.
- `WrittenOnceHolds`: action by action; all but `ApplyTarget` append.
- `FieldsApartHolds`, `ReferencesResolvedHolds`: neither is inductive.
  `ReferencesResolved` speaks of the patched references only, and patching the next
  one preserves it because the fields are apart; that fields are apart needs to
  know that the instruction in progress will begin at the end of the file and that
  what it has recorded lies in its buffer, and that nothing is patched while
  lines are read. `LinkInv` is the conjunction of these facts with the two
  properties and `AllLinked`, and is inductive together with `TypeOK`. The
  arithmetic of each kind of field (the value written, cut to its width, is
  decoded to the same address) is in lemmas of its own.

`ZaHeader_proof`: what the header says of the file.

- `LengthAndChecksumHolds`: the step that ends the file sets both, so the proof is
  arithmetic: the padded length is a multiple of the divisor. In V6 and V7 it need not
  be, since the file is padded to 4 and its length divided by 8; the theorem
  leaves these versions out, and the lemma `LengthRoundedHolds` says what holds in all.
- `UnicodeTableFoundHolds`: with `PointerInv`, that the header always points to a table
  that was preallocated; otherwise the table that the last step writes is read back word
  by word.
- `EntryPointHolds`: not inductive, as it speaks of bytes that patching could change.
  `EntryInv` adds `EntryClear`: no recorded field overlaps the dictionary or the count of
  locals of the V6 main routine; and that rests on `LinkInv`, which keeps fields in order.

The same module: `KeepsLinkageHolds`. A step either is a step of `Linkage` or
leaves its variables unchanged; the step to "done" is `Link` by
`ReferencesResolved` and `AllLinked`, with the padding and tables written by the
same step not touching the fields.

`ZdTraversal_proof`: first `DecodeType`, that decoding is defined on all bytes: every
address it computes is a number even where reading runs off the end.

Then the walk. `SearchInv` is `Explored` (each successor of a seen address
is seen, or pending: the current `pc`, or an address some frame will go on at),
`Justified` (each seen address and each pending one has a way to it) and, for the
end, `NothingMissed`. `NothingMissed` alone is not inductive, since in the middle
of the walk most addresses have unseen successors. From it follow
`NothingMissedHolds` and, with each step mapped to a visit, a completion or a
stutter, `SearchesHolds`. `ListedOnceHolds`, `WithinLimitHolds` and
`RoutinesOfCallsHolds` have short invariants of their own.

`Reachability_proof`: `SoundHolds` and `CompleteHolds` say what the abstract search
is worth: together, a complete search has visited the least set that is closed
under successors. With `SearchesHolds` this is what zd lists.

`Glazer_proof`: `TreeStaysSound`. A merge appends to the second list, which stays in
order only because no waiting node is lighter than half of any merged one
(`NoneLighter`): the two that were merged were then the lightest. With it, lists
that are in order, wait each node once and hold just the nodes with none above them
(`SoundTree`) are inductive under `MergeNodes` and `EndOfTree`, and the assertion in
`HUFF_BuildTree` holds. What the merging starts from is proved as well:

- while strings are analysed, `Counted` holds: finitely many quick characters, a list of
  slow leaves, weights that are numbers. Each of `AddChar`, `AnalyseStr` and `Analyse` keeps it;
- the leaves made from the counts are a sequence of leaves (`LeavesFacts`, which needs that a
  finite set of numbers has one of each rank);
- `SortedByWeight`: the merge sort, a recursive function on sequences, returns each
  leaf once, in order of weight. That the recursion defines a function at all is
  shown by building it length by length (`SortExists`, `SortUnique`).

The theorem assumes `[]CountsText`: an operand that is analysed is text, characters that are
numbers. The run checks it as a part of `TypeOK`; to prove it would take the types of all
that the parser and the evaluation of expressions compute.

`RoundTrip_proof`: zd reads back what za wrote, for sources of any length, every
version, any operands and any text.

- The invariant is `TripInv`: `FileInv`, `ZdInv`, and once zd has the file `PlaceInv`,
  `QuietInv`, `ErrorsNamed` and `SeenInv`. `FileInv` has the bytes: each line's are where its
  addresses say (`WrittenInv`), and were made with *some* table that the present one has grown
  from. The tables are existential because a string was encoded with
  the table as it was then and is read with the table as it is in the end. A step of za keeps it
  since tables only grow and code only follows.
- One instruction decodes to the next one's address with its own opcode, operands, store and
  branch (`LinesFound`): the forms are split by the first byte (short, long, variable,
  extended), and the types and operands decoded from the bytes that `OpcodeBytes`
  makes of them.
- The walk of zd rests on that and on `ZdTraversal_proof` (`ZdInv` has its `TypeOK` and
  `SearchInv`). `PlaceInv`: the bottom of the stack, or `pc` if there is no stack, is at a line
  that control comes to, and where the call will go on, at one that control comes to by going on.
  It is `InStep` made inductive: what nested calls do is arbitrary, but they only
  ever give the frame back. `QuietInv`: as long as no line
  names or jumps to an address there are no nested calls, so that an error has to come from
  the line zd is at. `SeenInv`: until there is an error, what was seen was listed.
- `AllListedHolds`: at the end `SearchInv` has everything reachable seen, and so, line after
  line, all that are reached.
- A string reads back (`TextsReadBackHolds`) by going through zd's state machine with the
  Z-characters of one character after another: shifts in both styles, ten-bit codes in two
  halves, padding. The fold of the model is turned into a sequence of states
  (`FoldExists`), and what holds along it is shown with `Least` and `Induction`,
  which speak of sets of numbers, since the library's induction theorems take an operator
  and cannot be cited here.
- `InStepHolds` and the others assume `Agreed`: no line is one of the few that
  `Disagreed` lists, where the tools do differ (see below). `TextsReadBackHolds` also
  assumes `LegibleSources`: no text has a control character, or in V1 a character
  of the third row, which za's alphabet shifts. The sources of the run satisfy both.

`Zabbrev_proof`: what the operators that zabbrev's model is built from compute, for any
texts and patterns.

- The folds of the model (pushing, sifting, parsing, rescoring, reading) are shown to go
  through a sequence of states (`FoldExists`), `StepOf` naming the steps of all
  of them, and sifting is unrolled likewise; what holds along such a sequence is
  then shown by `BoundedInduction`, over a set of numbers.
- `PushFacts` and their like: pushing, popping and draining keep an array in heap order and
  lose or double none, provided that no pattern in it changes.
- `ParseFacts`: what a parse leaves at each position is a cost that no choice there beats,
  and that its own choice reaches. `ScanFacts`: rescoring a list leaves keys and costs,
  and finds again the places and the savings, so that the size it returns depends on the
  keys alone.
- Sorting a table by hash, and the suffixes of a text by doubling, lose none of them.

`ZabbrevSearch_proof`: the search, for every game, every command line and every value of
`CutoffLongPattern` and `Oversample`.

- The invariant is `IInv`, that is `SearchOK` and `ReaderOK`. None of the properties is
  inductive. `Lists` keeps the heap in order and apart from the list: the order outlives a
  rescoring only because what is scored again is not in the heap. `Cached` says that
  whatever is kept of a pattern is true of the key it has *now*; an edit changes the key
  and has to restore cost and places when it is taken back. `Shorts` has each short
  pattern in the heap or the list during the greedy choice. `Baseline` relates the size to
  beat to a fresh rescore (`SizeOf`), so that a trial that is taken back needs none.
  `Bounded` limits the list. `ReaderOK` (`Asked`, `HasRead`) has what the readers of
  all formats deliver: texts are bytes, sizes numbers, options in range. `Searching` proves
  it; `Types`, `HeapTrue`, `CachesTrue` and `BaselineHolds` follow from it.
- What is printed at the end is fixed by `Printed`: parses, scores, savings, size and texts
  are those of the list as it is, since printing scores it once more. `Units` keeps the
  unit each text is rounded to (`Ending` proves all three together).
- `ParseHolds`: along the fold of `Cheapest` no way to print the text from its beginning
  costs less than the parse, read from its end, leaves over (`Costing`, `LeastCosts`);
  along the text as it is finished, what is printed and what is still to come
  cost together what the parse says of the whole (`PrintedTo`).
- `FinishedHolds`: the order of printing goes by slots, each text being in just one of them
  (`OrderFacts`), and pieces joined are the text up to where the parse has come.
- `SizesHold` and `SavingsHold`: totals by slots, or by abbreviations, are those by texts
  (`TotalSwap`, for tables of any size). For the savings the positions that a parse takes
  are followed with what they save (`TakenTo`): skipping what an abbreviation covers is what
  makes the sum come out, and counting what was merely picked would break it.

Only model-checked:

- `Terminates` of zd, zabbrev and glazer: liveness;
- `LengthAndChecksum` in V6 and V7, where it need not hold;
- zabbrev: `PatternsComplete`. That sorting loses no suffix is proved; that it sorts (if the
  game's last character occurs once), and that sorted suffixes with a common beginning
  are neighbours, is not;
- glazer: `CodesLeast` quantifies over all trees; `TypeOK`, `LaidOut`, `CodeReadsBack`,
  `StringsReadBack` and `ConstantsTrue` need the types of all that the reader, the
  evaluation of expressions and the writer compute, which `TypeOK` of `Glazer` takes
  from recursive functions over expressions of any depth.

## Disagreements

Shown by runs:

- a 6-bit branch of an instruction without operands to its own label is written
  as "return false" (`za_small_branch_v5`);
- `-a` in V6 and V7 does not start at the address given (`zd_offsets_v7`);
- za writes a branch before the store variable, zd and the instruction set have
  the store first (`round_trip_stores`);
- zabbrev counts only neighbours in the suffix array, which it does not sort where
  the text ends within a comparison (`zabbrev_counts`);
- glazer's `dload` and `dstore` with a label: the second half goes to address
  0xFFFFFFFF, since the operand was copied without its children (`glazer_pairs`).

Met while modelling, and excluded from `round_trip` by `Disagreed` in `RoundTrip`,
or noted as hazards:

- `get_parent` and `get_prop_len` take a branch in za's grammars and a store in zd;
  `tokenise` is accepted with six operands only, more than there are types for;
  `throw` and `verify` are accepted in versions zd does not know them in;
- za's V1 alphabet has a character too many, so its third row is shifted;
- `routine R 256` is taken for a routine without locals;
- V6 and V7 files are padded to 4 bytes and their length divided by 8;
- a custom Unicode table in another order than that of first use changes the
  characters shown;
- `-b` with `-z 6` never begins and with `-z 7` panics at a call.

In zabbrev, modelled as it is (the properties hold nevertheless, or say what they
leave out):

- after oversampling, refinement begins with the total of the list before it was cut
  (zabbrev.c:1336, 1347, 1365), so that the first replacement may be a worse one;
  `BaselineTrue` leaves out lists that were cut;
- patterns of ZAP sources and infodumps are also matched inside strings, object
  descriptions of ZAP count as none, strings end at the first newline;
- an edit may make two entries of the list equal; frequencies after a trial that
  was taken back stay those of the trial until the last rescore;
- savings from the alphabet are added at zabbrev.c:1695 and reset at 1705;
- with fewer abbreviations than asked for, the Inform style reads past the list
  (zabbrev.c:1823): such a read is `wild` in the model's output;
- `-i` does not imply `--r3` as its help says; `-x3 50` sets the passes to 1000.

In glazer, kept out of the sources of `glazer_files` unless the model ends as the
code does:

- three `resb 0x3FFFFFFF` in `.bss` are accepted: the address is cut to the limit
  "this causes a fatal error later on" (resolve.c:660, 694), and the error needs more;
- the base of an indirect reference given as a character is measured as 4 bytes
  and written as 1; a label in a complex `latstr` vanishes;
- `huffstr 5`, `jump` to a constant, and a label plus a float end in an assertion
  (modelled as `aborted`), as does `include` in a last line; a symbol within `{ }`
  ends in a trap, as does the least integer divided by -1;
- an error in the header leaves the file behind;
- a chain of constants longer than the passes is called cyclic: see `MaxRounds` in
  `ConstantsTrue`;
- `dcopy` with overlapping operands, and `dload pop`, take what the first half left;
- a private label belongs to the last function read, in any section, but is looked up
  by the section's; names that begin with a dot pass the check of names;
- an unfinished bracket swallows the next line, and an included file without a
  newline at its end is joined with the next line.

## Not modelled

- Parsing at the level of characters (za's tokens, glazer's lexer and parser),
  command lines, reading of files, printing: input, output and layout.
- Abbreviations in strings and alphabets of a story's own (`ZdListing` treats a
  string with an abbreviation as unreadable).
- The depth of zd's recursion against the thread's stack.
- zabbrev: the helpers of `util.c`, progress and timing messages, and the alphabet
  made for a game, which the code has switched off.
- glazer: characters to tokens, the order of operators (expressions are given in
  postfix form), included files, warnings. The Z-machine: `main.c` refuses it, so
  `z_text.c`, `z_opcode.c` and the `_Z` halves of functions cannot be reached.
- Memory: allocation, and C's undefined behaviour but where it is named above.

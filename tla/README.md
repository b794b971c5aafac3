# A TLA+ specification of OrbitVM

OrbitVM is a C implementation of the Orbit language: a virtual machine with a
garbage-collected heap, byte code that links itself while it runs, and a loader
for module files; and the front half of a compiler (lexer, parser, syntax tree,
type checking). There is no code generator yet. This directory holds its
specification: TLA+ modules written from the C sources, the TLC configurations that check
them on small instances, and TLAPS proofs for every size: of the map, the heap, the array,
the task, the linking and the loader of the virtual machine, and of the lexer, the string pool,
the line table, the parser and the hash map of the compiler.

Everything in the program runs in one thread. What makes the run-time hard is not
parallel processes but *re-entry and movement*: any allocation may start a
collection in the middle of whatever was being built, a deallocation inside a
collection may start another one, arrays move in memory while pointers into
them are held in locals, byte code and constants are overwritten while they
execute, and a load that fails stops where it stands. The models therefore cut
each C function at the points where such a thing can come between. What makes the
compiler hard is *shared ownership and wrong input*: nodes counted from several
sides, tables found out or grown while they are used, and texts that break off
anywhere. Its models take every text or tree of a family as an initial state
and run the code on it, one token, character, node or reference per step.

## 1. Inventory

Paths are under `src/`; `RT` stands for `libs/runtime`.

### Run-time

| Part | Source | State | Operations | Called by / calls |
|---|---|---|---|---|
| VM | `RT/vm.c`, `include/orbit/runtime/vm.h` | the task, the dispatch, class and module tables, the retain stack, byte counts, head of the object list | create, destroy, load a module, invoke an entry point, retain, release | the tables are GC maps; roots of the collector |
| Allocator | `RT/rtutils.c` | `allocated`, `nextGC` | allocate, reallocate, free: one function | every part of the run-time; starts the collector |
| Collector | `RT/gc.c` | mark bits, object list | mark from the roots, sweep | allocator; its sweep calls the allocator |
| Objects | `RT/value.c` | fields of classes, functions, modules, instances, strings | one constructor each, deallocation | allocator, two or three times per constructor |
| GC map | `RT/value.c` 207-344 | slots, size, capacity | add, get, remove, grow | VM, loader, interpreter, classes |
| GC array | `RT/value.c` 346-408 | cells, size, capacity | add, get, remove, grow | only tests so far |
| Interpreter | `RT/vm.c` 109-520 | operand stack, call frames, four locals that mirror the top frame | about 40 instructions | map lookups, instance constructor, foreign functions |
| Linking | `RT/vm.c` 365-500, `opcodes.h` | byte code and constants themselves | symbolic and direct calls, symbolic and direct instances | dispatch table, class table |
| Loader | `RT/objfile.c`, `vm.c` 53-87, `libs/utils/pack.c` | position in the file, module under construction | read header, constants, globals, classes, functions | tables, constructors, retain stack |
| Standard library | `libs/stdlib/stdlib.c` | none | registers foreign functions | dispatch table |

**What is hard.**
*Map*: tombstones, wrap-around and re-entrant growth.
*Heap*: collections at every allocator call, in constructors and in sweeps;
which objects nothing but a C local holds.
*Array*: stale cells past the end, unsigned sizes.
*Interpreter*: two arrays that move under sp, frames and locals; room tested
once per call.
*Linking*: constants shared by call sites, failed lookups, patches at a
distance from ip, functions registered again.
*Loader*: failure in any section, collections between entries, names that
replace each other, counters narrower than the counts.

**What makes each part correct.**
The map is a dictionary. The collector frees what is unreachable and nothing
else, and ends. The array is a list. The task is a stack of separate
activations. A call site reaches the function it names, and the interpreter
always stands at an instruction. A well-formed file loads entirely, a broken
one ends the load and leaves nothing callable that is half built.

### Compiler side

| Part | Source (under `libs/`) | State and operations | What makes it correct |
|---|---|---|---|
| Reference counts (ORC) | `utils/memory.c`, `memory.h` | count per object; retain, release, destructor at zero | no object in use is destroyed, every object is once |
| rcmap, rcarray | `csupport/rcmap.c`, `rcarray.c` | counted tables and arrays | dictionary and list; each holds one count per entry |
| String pool and buffer | `csupport/string.c` | interned strings, growing buffer | equal text, same string; the buffer holds what was appended |
| Source and lines | `csupport/source.c` | text, line starts | every position has one line and column |
| Tokens | `csupport/tokens.c` | operator tables | precedence and associativity are total |
| Lexer | `parser/parser_lexing.c`, `utils/utf8.c` | position, current character, lookahead | tokens cover the text in order; it ends |
| Parser | `parser/parser.c`, `recursive_descent.c` | current token, newline flag, recovery state | the tree follows the precedence table; errors do not loop |
| Syntax tree | `ast/alloc.c`, `builders.c`, `type.c`, `traversal.c` | counted nodes | traversal visits each node once; children are owned |
| Diagnostics | `ast/diag.c`, `diag_formatter.c` | bounded list | emitted in order, none lost within the bound |
| Semantic analysis | `sema/` | type table, symbol table | tables hold the declarations, each mistake is reported once |
| Mangling | `mangling/` | none | demangling undoes mangling |
| Packing, hashing | `utils/pack.c`, `hashing.c` | none | unpack undoes pack |

**How they interact.** `orbitc` parses (the parser asks the lexer for each token, the
lexer interns names in the string pool and files diagnostics), runs the passes of
the semantic analysis over the tree (they retain nodes in two tables and file diagnostics),
prints the diagnostics (which asks the line table for places), and releases
the tree.

**What is hard.** *Lexer*: nested comments, two-character operators, the flag
that marks the first token of a line. *Parser*: precedence, an error in the middle of
a production, recovery loops inside list loops. *Line table*: found out
as far as asked, reallocated while in use. *Ownership*: types shared by
declarations, function types and tables. *Mangling*: lists of types without
separators.

Not modelled: the tree printer and the text the console prints (pure
output), `utils/wcwidth.c` (third-party tables), the options of the two command line
programs, and the conversion of floating-point numbers in `pack.c`.

## 2. The modules

| Module | Models | Composed with |
|---|---|---|
| `Dictionary` | what a map promises: put, get, remove | implemented by `GCMap` |
| `GCMap` | the open-addressed hash map, implements `Dictionary` | `GCMapProofs`, `MCGCMap` |
| `GCHeap` | allocator, collector, retain stack, constructors | `GCHeapProofs`, `MCGCHeap` |
| `List` | what an array promises | implemented by `GCArray` |
| `GCArray` | the growable array | `GCArrayProofs`, `MCGCArray` |
| `Activations` | what a call stack promises: activations with slots of their own | implemented by `Task` |
| `Task` | operand stack, frames, interpreter loop | `TaskProofs`, `MCTask` |
| `Linking` | byte code and constants rewritten while they execute | `LinkingProofs`, `MCLinking` |
| `Loader` | reading a module file | `LoaderProofs`, `MCLoader` |
| `Tokens` | token kinds, operator tables | used by `Parser`, `Grammar` |
| `Parser` | recursive descent, recovery, building of trees | `ParserProofs`, `Parsing`, `MCParser` |
| `Grammar` | how a tree is spelled: the reference for the parser | `Parsing`, `MCParser` |
| `Parsing` | the properties of the parser | `MCParser` |
| `StringPool` | interning | `Lexer` |
| `Lexer` | the lexer and the diagnostics it files | composed in `Reporting` |
| `LineMap` | from places to lines and columns | composed in `Reporting` |
| `Reporting` | lexing, complaints of the parser, printing of the diagnostics | `ReportingProofs`, `MCReporting` |
| `Lexemes` | what a text should be read as: the reference for the lexer | used by `Reporting` |
| `RCMap` | the counted hash map | used by `Analysis`, `GCMapProofs` |
| `SyntaxTree` | counted nodes, lists, copying, visiting, releasing | used by `Mangling`, `Analysis` |
| `Mangling` | mangling and demangling | used by `Analysis` |
| `Analysis` | from the builders through the passes to the end of the compiler | `MCAnalysis` |

Operators whose comment starts with "Mistake:" are deliberate errors, plausible
bugs in that code. Nothing uses them; put in the place of the definition that
follows, each breaks the property named beside it in `PROJECT.json`. They show that the
properties are about the code.

### GCMap

`data`, `size`, `capacity` are the fields of the C struct; slots are indexed
from 0 as in the C array. A free slot is a nil key with a false value, a
tombstone a nil key with a true value. `FindSlot` is `orbit_gcMapFindSlot`: it
does not loop but names the slot the loop ends on, by the distance from the
home slot: the key or a free slot if there is one, else the first tombstone,
else `NULL`, which the callers do not test.

`orbit_gcMapGrow` calls `orbit_gcMapAdd` again for every old entry. Here a growth
is `Grow` (the new slots), one `Rehash` per old slot and `FinishAdd`, with the old slots
in `old` and the loop index in `cursor`; the properties hold at every point
between, not only when it is over. `MaskIsModulo` states the assumption behind
`hash & mask`.

Keys are compared by content. Two cases where the code's comparison is not an
equality of values are outside the model: 0.0 and -0.0 are equal and hash
differently, NaN is not equal to itself.

### GCHeap

The list of objects is a sequence, newest first, which is what `gcHead` and the
`next` links make. An object has the set of objects its mark function follows
(`refs`); which field holds which is abstracted. A constructor is its `Plan`: the
allocator calls it makes, each for an object to be linked or for an array; so
`Ask` (the allocator call, which may collect) alternates with
`MakeObject` or `StoreArray`.

`runs` is the stack of activations of `orbit_gcRun`. `Charge` is
`orbit_allocator` up to the point where memory is given: it either counts the
bytes or starts a collection (`StartRun`, marking in one step, since marking
allocates nothing). A sweep takes one step per object and one per DEALLOC, and
a DEALLOC is a `Charge` of 0 bytes, which may push a further activation. A request
that starts a collection is not counted afterwards, as in the code.

Two situations break the collector, each shown by a configuration of its own:

* a collection started **inside a sweep** (`MCGCHeapReentry.cfg`). Survivors not reached by the outer
  sweep still carry marks, so the inner one does not follow their pointers;
* a collection that meets an object **only a constructor holds**
  (run `heap_unrooted`). It frees the object and the constructor goes on writing to it.

The variable `tainted` records that one of them has happened. The other properties are
stated for executions without them (`~tainted => ...`): they say what the design keeps
wherever neither bug is met. `fault` means freed memory was used; nothing is
said after it.

### GCArray

The cells, the size and the capacity, the size as an unsigned number modulo `Wrap`.
No code but the tests asks for an index. `Careful` says which callers there are:
those that stay below the size, and those that rely on the documented refusal.
The code accepts the index equal to the size; with `Careful = FALSE` the
configuration `MCGCArrayRefuses.cfg` shows it.

### Task

Addresses are numbers: `stack` is where the operand stack is now, `sp` and
every `stackBase` are addresses into it, `mem` its contents by offset.
`frame, fn, ip, locals` are the C locals of `orbit_vmRun`. Instructions that
differ only in the value they compute are one action (`Combine` for the arithmetic and the
comparisons, `Load` for the constants, and so on); which instruction stands where
is left open, so every byte code is covered that keeps within its declared
stack effect (`HasRoom`, assumption `EffectsFit`: the contract of the compiler,
which nothing in the VM tests). `EnsureStack` and `EnsureFrames` may move their
array to any free place.

`Task` implements `Activations` under the mapping that reads, for each
frame, its slots from `mem` between its base and the next. So it is shown
that calls, returns and growth never disturb another activation or a return address.

### Linking

The byte code is kept byte by byte with the opcode numbers and argument sizes
of `opcodes.h`, because instructions are patched at `ip[-3]`. `dispatch` and
`classes` are the two tables; a function is registered under its signature.
`bindings` and `calls` are history variables, for the properties only. Jumps are
left out (they rewrite nothing); the operands are in `Task`.

Where the instructions of a function start (`Starts`) is the least set that holds its first
byte and, with an instruction, what follows its arguments (`Following`). `InStep` are the
functions whose instructions read as many argument bytes as `opcodes.h` gives them: all
but those with an `and`, `or` or `init_sym`, of which section 5 says what they
do. Functions out of step run beside them, share their constants and are called by them; the
properties speak of those in step. `CodeIsComplete` is the compiler's side: a function ends with
a return or a halt, and its calls name constants of the pool.

### Loader

A file is a sequence of bytes, read by the same byte and 16-bit readers as in
the code. Each entry of a section is one step: it is read whole, or the load
is abandoned (`Fail`). An entry that fails in its middle has changed nothing but
garbage, so failing at its start is the same. `Collect` is a collection from the
allocation of an entry. Class fields are two bytes nobody looks at, as in the code.

What a file ought to give is said without reading it. The constant `Layout` gives for each
file the places where its entries begin, section by section; `LayoutConstants` ties it to the
bytes: an entry can be read at each place and the next one is where it ends, up to the first
entry or count that is not as it should be. Every sequence of bytes has one layout and no other.
A file is `Whole` when the layout reaches the end of the functions; what it declares are the names at
its places. The actions know nothing of it: it is only in the properties and their proofs.

A load given up half-way leaves its module on the retain stack; when the stack is full the next load
aborts, whatever its file. `GoodFilesLoad` says both halves: a good file, once its load begins, is loaded; and a load is
refused only when the loads given up hold all places there are to give. `givenUp` counts those, a history
variable that no guard reads.

### Tokens, Parser, Grammar, Parsing

A text is a sequence of tokens; between them stands a mark where the next token
starts a line. Each `recX` of `parser.c` is an operator `RecX`: the list of
instructions its body executes (expect one of these kinds, take the token, if the
token is one of these then ... else ..., call another production, make a
node of so many parts). `todo` is what is left to
execute, the C call stack flattened, `vals` the C locals that hold nodes; one action
per instruction. So `expect` with its recovery (`ExpectStep`), `expectTerminator` and the climbing loop
of `recExpression` (`ClimbStep`) are actions whose guards are the conditions of the code. A token skipped
in recovery is one step.

Nodes are built by `Node`: a tree of nested tuples. A builder that
dereferences a part that is NULL stops the model with `status = "crashed"`, an overflow of the
diagnostics with `"aborted"`.

`Grammar` is written the other way round: it *spells* a tree, putting parentheses
where precedence and direction of grouping require them. `SentencesAreUnderstood`
says that parsing undoes spelling. `Grammar` calls itself over trees, so that nothing can be proved
about it; it is used in `Parsing` and not in `Parser`. `NothingIsDroppedSilently` compares the words of a
text with those of its tree. One construct is dropped without a word, and is accounted for: a second
`init` of a type takes the place of the first (section 5). The history variable
`overwritten` keeps what was replaced, and the words of text, tree and `overwritten` must come out even.
Two properties need no reference
and stand in `Parser`: `ReadsInsideText`, and `SilentEndsAreClean`, which is the first part of
`NothingIsDroppedSilently`. `ParserConstants` says what a text is: what `text`
in `orbit_parse` is once it is cut into tokens, with the end of the file as the last one.

### StringPool, Lexer, LineMap, Reporting, Lexemes

`Lexer` has one action per branch of `orbit_parserNextToken`; comments, strings,
words and numbers are read one character at a time (`mode`), since the flag
`isStartOfLine` and the nesting depth live between characters. Characters are
letters, digits, the operators and one `Bad` byte that does not decode; the
recognizers of `utf8.c` are their classes. `pos` is `currentPtr`, `tokenStart` the start of
the token. Diagnostics are filed with place and range, up to `MaxDiags`.

`StringPool` keeps the strings with their offsets in the block; a name is the
offset. `strayed` records that a string was written past the block. The next growth copies the block as
it was allocated, so what lies past it may arrive or not: `Moved` has both outcomes, in `Torn` the
characters behind the old end are `Unwritten`. What a search does when the end of a *header* was lost, and
with it the way to the next string, is not followed; no property speaks of a pool that strayed.

`LineMap` keeps the line starts found so far and the capacity. A scan for further
newlines finds those up to the first one at the place or behind it and appends their starts in
`Ascending` order; `Locate`
is `orbit_sourcePhysicalLoc`, with the insertion of further lines, the
reallocation and the search.

`Reporting` composes the three. While lexing, `LexStep` reads and `Complain` is a diagnostic the
parser files about the current token. `EndParse` is the return of the parser at the end of the text, `GiveUp` its return
with text left: the `expect` of the end of the file, or its recovery, meets something else
(`parser.c:44`). Then the analysis may complain of any token, and `StartReport` begins the printing: `Show` asks for
the places the title, the source line and the underlines need. `PlaceAsked` and
`CaretIsInside` are what the console asks and asserts. `Lexemes` says without loop or recursion
what the tokens of a text are: which pieces are words, numbers, strings, operators and comments, and
that the longest counts (`Takes`). A nested comment ends where as many delimiters have closed as opened
(`Deep` counts them). `TokensAreTheLexemes` compares the two. It leaves out texts in which two delimiters of a
comment share a character (`ClearComments`: the code's own reading of `**/` is reported in section 5) and texts with a
NUL character, which the code takes for the end.

### RCMap, SyntaxTree, Mangling, Analysis

`SyntaxTree` is the memory of nodes: kind, fields, `next`, the type found, the
`retainCount` of 16 bits and whether it has been freed. Its operators return the memory
as the builders, `orbit_astTypeCopy` and so on leave it. `Visited` is which nodes a traversal
goes to from a node, `Released` which references `orbit_astDestroy` gives up.

`Analysis` takes a program as a tree (the same trees `Parser` makes), turns it into the
builder calls in the order the parser makes them (`Code`), executes them, walks the tree once
per pass (`Traverse` with the filters of `typecheck.c`) and releases, one reference
per step: a node whose count reaches zero puts its own references first (`Release`). `RCMap` is the map of
`rcmap.c` as operators on a record; `Mangling` mangles a function of the tree
and demangles the result character by character.

### TypeOK

`GCHeap`, `GCArray`, `Task`, `Linking` and `Loader` define a `TypeOK` that says what their variables
hold. Of these the runs check only `GCMap`'s; all of them are
part of the inductive invariants of section 4, and so proved.

## 3. What the runs check

| Run | Instance | Shows |
|---|---|---|
| `map_table` | 4 keys, 3 of them on the last slot of a table of 2, which grows to 8 | types, `SearchNeverFails`, `EntriesAreFindable`, `SizeIsEntryCount`, `RehashFits`, `GrowthEnds`, and that the map implements `Dictionary` |
| `heap_safety` | 4 objects of two plain kinds, at most 2 pointers, one place to retain, first threshold 2 bytes | `ReachableIsAllocated`, `MarksCleared`, `SweepIsExact` |
| `heap_constructors` | 3 objects; strings, instances, maps of two allocations, classes of three with an argument | `CountIsExact`, `CollectionEnds` |
| `heap_unrooted` | as heap_constructors | fails: `NewObjectsAreInTheHeap` |
| `array_list` | 2 values, up to 5 of them, first memory 2 cells | `StaysInside`, and that the array implements `List` |
| `task_stack` | a stack of 2 cells and 2 frames that double up to 8 and 4, two places for each | `PointersAreNested`, `DeclaredRoomIsThere`, `RegistersFollowFrames`, and that the task implements `Activations` |
| `linking_calls` | 3 byte code and 2 foreign functions, 2 constants, depth 3 | `CalleesAreTheOnesNamed`, `SitesKeepTheirCallee`, `FramesStayInStep` |
| `loader_safe` | 3 good files and 6 that do not load, one of them with 256 classes; 2 module names, 3 places to retain | `GoodFilesLoad`, `LoadsAreComplete`, `RegisteredFunctionsAreReady`, `ModuleIsRetained`, `LoadEnds` |
| `parser` | all expressions and types two levels deep, ten programs of all constructs, each of these with any one token missing, replaced or added, and the same of a type with two initialisers | `SentencesAreUnderstood`, `NothingIsDroppedSilently`, `ParseEnds` |
| `reporting` | all texts of 3 to 5 characters over the alphabets of operators, words, comments, strings, lines; pairs of strings that make the pool grow, and three of which the second is written past it; full lists of diagnostics | `TokensAreTheLexemes`, `LineStartsAreMarked`, `StringsKeepTheirText`, `LocationsAreExact`, `ReportsEnd` |
| `reporting_print` | four texts that break off | fails: `EveryErrorCanBePrinted` |
| `analysis` | all programs of up to two of 13 declarations and statements, of three of 7 declarations, and one of 18 | `TreeIsKept`, `NothingInUseIsReleased`, `TablesHoldTheDeclarations`, `DemanglingGivesTheSignature`, `MistakesAreReported`, `EverythingIsFreed` |

**Why the bounds are enough.**

* *Map.* Capacities 2, 4 and 8 and four keys give empty, partly filled and
  three-quarters full tables, probe sequences that wrap, removals inside a
  sequence, tables with tombstones only, and two growths in succession. The
  values are TRUE and FALSE, the ones that also mark free slots and tombstones.
* *Heap.* Three objects make a chain with a middle, four make two chains; the
  threshold lies below the size of any two objects, so that collections come from every allocator call.
  Nested collections occur in both runs, a nested one that unlinks what an outer
  one points at needs four objects (`SweepDangling` fires in
  `heap_safety`). `FewPointers` bounds the pointers of the heap, and
  `TaintedRunsEnd` follows a tainted execution to the end of the collection it was
  tainted in, since no property speaks of it afterwards. `heap_constructors` has no
  constraint and no symmetry, as liveness requires. One place of the retain
  stack of two is used, since the code tests for `StackSize - 1`.
* *Array.* Five values make a memory of two cells grow twice; removals happen
  at the first, the last and a middle cell, with stale cells behind.
* *Task.* A stack of two cells has to grow at the first call, by one
  doubling or two; the frames at the second. One depth of call and return above
  a moved frame is what every saved pointer must survive. Values are copied only, so
  one value and the unwritten content are told apart.
* *Linking.* Two symbols, each with two functions competing for it, sites that
  share a constant and sites that do not, a recursive one, a function that
  makes an instance both ways.
* *Loader.* One file with two constants, one global, one class, two functions;
  one that overlaps with it; one with four empty sections; files cut in three
  sections, one with a foreign tag, one with an old version, and one of 256 classes, which the
  index of a byte never counts to its end. Every section is
  abandoned before, in and after its entries. With two places to give of the three, two loads given up fill the
  retain stack and the third aborts: the case `GoodFilesLoad` makes an exception for happens.

* *Parser.* Two levels of operators decide every question of precedence and
  grouping, which compares neighbours; a damage of one token makes every `expect` fail, in every state
  of the loops around it, and recovery run into the end of the file. Names are two, literals
  one; three diagnostics stand for 64, so that the list overflows.
* *Reporting.* No token but words, numbers and strings is longer than two characters;
  five characters hold a nested comment and what follows it (sequences of up to five comment delimiters nest
  further). The first line table has room for 3 starts and is reallocated at the third line; the
  pool of 8 bytes with a header of 3 doubles at the second string. A string behind one of four characters strays, and
  the growth for a third may lose its end (both outcomes occur).
* *Analysis.* Names are used before, after and without their declaration, declared
  twice, in two tables that grow from 8 slots at once (18 declarations), with
  hashes that collide and wrap. A type nested four deep and names with an escaped character,
  a digit and an underscore test the mangling.

**Fairness.** The program is sequential: a growth, a collection or a load, once
started, runs in the thread of its caller, who does nothing before it is over. So
weak fairness on its steps is what the C call stack guarantees:
`WF(Rehash \/ FinishAdd)`, `WF(Collector)`, `WF(Read)`, and for the parser and the lexer
with the printing `WF(Next)`, `WF(Work)`; a complaint of the parser is not obliged to come, nor is giving up. Nothing obliges a
program to call anything. `CollectionEnds`, `GrowthEnds` and `LoadEnds` are thus statements
about loops: no sweep revisits what it unlinked, no growth starts another, no
entry is read for ever; `ParseEnds` and `ReportsEnd` that no recovery or lexing loop stays where it is.

**Deadlock** is checked in the map, heap and array runs. A task may end, an
interpreter reach the bound on its depth and a VM abort, a parse and a report end, so that
`task_stack`, the linking, loader, parser and reporting runs do not check it. In `analysis` it is
checked: the only state without a step is the end, which `Terminated` lets stutter.

## 4. What is proved

The proofs hold for every value of the constants that satisfies the named assumptions of
the modules: any number of keys with any hash, any number of objects, kinds and constructors, any texts,
any bound. The assumptions and why the code justifies them:

| Assumption | Says |
|---|---|
| `MapConstants`, `MaskIsModulo` | capacities are powers of two, so that `hash & mask` is a remainder |
| `HeapConstants`, `ArrayConstants`, `PoolConstants` | sizes are positive numbers, plans and sizes are given for every kind |
| `TaskConstants` | arities and counts of locals are numbers, stack effects bytes, the entry point takes no argument, the arrays start with room |
| `EffectsFit` | byte code keeps within its declared stack effect (the compiler's contract, which nothing tests); that of the entry point fits a new task |
| `AddressesApart` | blocks the allocator gives for the stack do not overlap |
| `LinkingConstants` | byte code and constants are sequences of bytes and symbols; functions, classes, symbols and nil are different things |
| `CodeIsComplete` | functions end with a return or a halt, calls name constants (the compiler's contract) |
| `LoaderConstants` | files are sequences of bytes, the retain stack has a place |
| `LayoutConstants` | the layout of each file follows its bytes; what a whole file declares is what the layout shows (a description of the files, it excludes none) |
| `GoodIsWhole` (hypothesis of `GoodLoads` only) | a good file is whole and has 255 classes or less. With 256 the code fails, `MCLoaderClasses.cfg`. `MCLoader` assumes it of its three good files, so TLC evaluates it |
| `LexerConstants` | letters and digits are apart from each other and from what begins anything else, as the recognizers of `utf8.c` are |
| `ParserConstants` | texts begin with a token and end with the end of the file, which the lexer always gives; one diagnostic has room |
| `ReportingConstants` | texts are sequences of characters, the first line table has room for two lines or more |

### GCMapProofs

`EntriesAreFindable` is not inductive: to know that an entry stays findable when
another goes, one needs that no free slot lies between the home slot of an entry
and the entry. The invariant `IInv` has

* the types;
* `Unbroken`: every slot probed before an entry is neither free nor holds the same key;
* the count: `size` is the number of used slots, and it leaves a quarter free;
* during a growth, the relation of old and new slots: the keys not yet moved are not in the
  new table, and the entries moved and the entries left together fit.

`FindSlotCorrect` says what a search returns in an unbroken table;
`InsertKeepsTable` that an insertion keeps it so. Then each action
preserves `IInv`, and it implies `SearchNeverFails`, `EntriesAreFindable`, `SizeIsEntryCount`,
`RehashFits` and `TypeOK`. Tombstones do not need to be counted: a search that
finds no free slot falls back on one, and there is always one or the other.

`MapImplementsDictionary` is the refinement: under `DictInv` (that is `IInv`) a `Put` of the map is a
`Put` of the dictionary, a `Remove` a `Remove`, and the steps of a growth leave the
dictionary as it is, since what has been moved and what is still in the old slots never
overlap (`OldKeysDiffer`, `NotInBoth`).

The last part is about the map of the compiler (`RCMap`), which differs: it tests for growth before it
counts the new entry, takes the remainder of the hash by any capacity, and grows in one go, a
fold of `Store` over the old slots. For any names and hashes, `NewTablesAreEmpty` and
`InsertionsAreUpdates`: an insertion changes what is found under its own name and no other, a growth included, and leaves a
table (`IsTable`: searches are whole, the size is the number of entries, four times it is at most three times the
capacity and four more). From a capacity above four on, that leaves a free slot, so that a search ends
and the assertion of `rcmap.c:76` holds; 32 is the code's. A search visits each slot once (`ProbesVisitEachSlot`); that there is a
function the fold computes is shown by continuing it slot by slot (`FoldsExist`, by a least counterexample),
and `GrowthKeepsEntries` follows the larger table through it. Its size stays at most the old capacity, so that no insertion of a growth starts
another growth, which is why `Grow` may call `Store` where the code calls the insertion.

### GCHeapProofs

The invariant `HeapInv` speaks of executions that are not tainted: what the roots,
the retain stack, a constructor or its caller reach is linked; in a sweep, what lies
before the link is unmarked and reachable, what lies behind is marked exactly
if it is reachable; there is one activation at most; outside a sweep no object is
marked. Its core is `MarkPhase`: from a heap without marks,
marking makes marked and reachable the same, and the objects a constructor
holds are among them. Reachability is the least set closed under the pointers (`ReachIsClosed`,
`ReachIsLeast`), so no induction over paths is needed; `ReachWithoutGarbage`
says that unlinking garbage changes nothing for the rest. From it follow
`NothingInUseIsFreed`, `MarksAreCleared`, `SweepsAreExact`; the shape invariant
(`ShapeOK`) is proved without the restriction to untainted executions.

`CountInv` adds the bytes: outside a collection `allocated` is the sum of the bytes of what is linked,
inside one the sum over what is reachable, since the marking counted it anew, and objects the
sweep has yet to free are not counted. `CountsAreExact` follows, and with it that `allocated` and
`nextGC` are natural numbers (`TypeCorrect`). The sums are folds over finite sets; that such a sum
is a natural number and grows by what is added is an induction, carried out without an
induction rule (which the provers cannot instantiate) by a least counterexample: the strict subsets of a finite
set are well-founded, and the sum of a set is shown to be the number of cells
`<<object, byte>>` (`WeightIsSize`).

### GCArrayProofs

For callers that stay below the size, `ArrayInv` (types, the cells below the size are
written, nothing strayed) is inductive; and every step of the array is a
step of the list or leaves it as it is (`ArrayImplementsList`).

### TaskProofs

The pointers of a task, its frames and its capacities are related by `TaskInv`:

* `FramesLieInOrder`: the frames' bases ascend from the start of the block, and the parameters
  and locals of each end before the next begins;
* `RoomIsKept`: the room that was tested when a frame was pushed is there still, and the frames
  fit their array;
* `TopIsRunning`: the four C locals of `orbit_vmRun` are those of the top frame.

A call is the only step that disturbs all three: it tests the room, may move both arrays, and sets the
locals last. `EnoughIsEnough` says that doubling reaches the room asked for. From `TaskInv`
follow `PointersAreNested`, `DeclaredRoomIsThere` and `RegistersFollowFrames`: the
first says that no activation reaches into another one's slots, the others that the single
test at a call suffices for the callee and that no pointer into an old block is left.

`TaskImplementsActivations` is the refinement: a step that reads and writes
the top of the stack maps to a step on the slots of the last activation (`TopStep`), a call to an
activation with the arguments as first slots (`InvokeSlots`), a return to the caller's going on (`LeaveStep`),
and the growth of the arrays, which is part of a call, to nothing.

### LinkingProofs

The hard part is that `ip` stays at instructions while the byte code changes under it. `Starts` being a
least set, every start but the first follows another (`StartsHavePredecessors`); from a least
counterexample (`SmallestOf`) it follows that no start lies among the arguments of another
(`ArgumentsAreNoStarts`). So the patch of a call at `ip[-3]` of one function never
changes an argument, and `LinkInv` is inductive: constants are those of the pool or what was found under their names
(`ConstantsAreFound`), byte code is as loaded but for calls already linked (`CodeIsKept`),
a site that has called a function has that one in its constant (`SitesAreLinked`), frames stand at
starts. It implies `CalleesAreTheOnesNamed`, `SitesKeepTheirCallee` and
`FramesStayInStep`, for functions in step, whatever the others do meanwhile.

### LoaderProofs

`LoadInv` says for each section what has been read of the module when its loop stands at entry `i`:
in the constants as many are written as were counted so far, in the globals all constants are, in the
classes and functions the module is complete (`SectionsFollow`). The readers never leave the file
(`StringsEndInside`, `FunctionsEndInside`). So what is registered is complete
(`RegisteredFunctionsAreReady`), also when the load fails afterwards, and the module
is retained while it is built (`ModuleIsRetained`).

`CourseInv` says where a load stands in the layout of its file: at place `i` of its section, with the count
that the file has there (`PlaceFollows`), and that the classes and functions behind it are registered, each
signature with the function of this module and no other (`EntriesAreRegistered`). Over the classes the index is a
byte: with 256 of them or more the place is lost, and the invariant then only says that the loop goes
round (`i <= 255`, so `i >= count` never comes). `NextEntry` and `NextSection` read the layout forwards:
what can be read where the load stands is the next entry of the layout, and `WholeHasEntry` and
`WholeGoesOn` backwards: in a whole file it can be read. From the first pair follows
`LoadsAreComplete` for all files, broken ones included; from the second, for the files of
`GoodIsWhole`, the second half of `GoodFilesLoad`.

Its first half is about the retain stack: `PlacesAreKept` says that the places taken are those of
the loads given up and of the load going on, no more. So a load that finds none has `StackSize - 1` abandoned ones
before it, and with fewer every load begins.

### ReportingProofs

About any text, any order of complaints and any capacity.

**Lines.** `LinesBreakWhereMarked`: between two tokens the flag of the lexer is set exactly if a line has
broken since the end of the last token (`Marks`), read in any number of pieces (`PiecesJoin`): blanks, comments, the
characters of a token begun. Each action is one of three kinds, reading on (`ReadingKeeps`), making a token
(`MakingKeeps`) or staying (`StayingKeeps`).

**Places.** `LocationsAreAnswered`: the table of line starts is right as far as it goes (`Table`): it ascends,
every start but the first follows a newline, and every newline before the last start is known.
`LineIsCounted` says that this is enough: any line that starts at the place or before it, with the next one
behind it, has as many lines before it as there are newlines (a bijection between
the two), whether the search found it or the scan. `LinesAreAdded` is the scan: it keeps the
table right and answers such a line, since the new starts are taken in ascending order
(`AscendingOrders`: ranks are injective, and so take every value) and it goes as far as the first newline at the place or behind it. The answer read
from memory given back (`column = -1`, section 5) is excepted by the property.

**Names.** The pool's strings lie one behind the other (`Apart`: the offset of each is at least the end of
the one before), no text is there twice (`OneOfEach`), and as long as nothing strayed they lie
inside the block (`Fits`), which is why a move takes all of them along: `Moved` has one outcome only when they do.
`InternAppends` is the step. From it follow, until a string is written past the block, `NamesStandForTexts`
(two entries at the same offset are the same entry, so names are equal exactly if texts are)
and `NamesLast` (a name that was given out is found again and gives the same text, across every growth). Once
a string strayed (which lasts, `StrayingStays`) neither is claimed: the growth after it loses its end.
All parts of the compiler compare names by number and rest on this. `StringsStayWhole` adds the lexer: while a
literal is read, the buffer is what the text so far spells with its escapes resolved (`StringRead`), so that the
name of the finished token stands for the text between its quotes and for no other, as long as the pool keeps to
its block, which it does not always (section 5).

**Tokens.** `TokensAreRight`: if nothing was complained of, the tokens are the longest lexemes of
the text from left to right, with only blanks and comments between them; and a diagnostic is filed exactly
if there is a place from which no such reading goes on. `LexemesInv` says what the lexer knows in the middle of a piece,
mode by mode: the part of a word or number read so far is one, the place in a string is not
behind a backslash, the depth of a comment is the number of delimiters open and has not been zero
since it began (`InWord` to `InBlock`). Once a diagnostic is filed it says that the reading had to stop
(`Stopped`), which lasts (`StoppedStays`): tokens read right are never taken back. For every kind of
token there is a lemma that what the lexer took is the longest (`Takes`): a word stops before a character no word goes on with,
a number before a point without digit, an operator after its second character only if
the two are one. That a delimiter is counted once (`TurnIsCounted`, `DeepIsCounted`) uses `ClearComments`.

### ParserProofs

`ReadingStaysInside` (`ReadsInsideText`) and `SilenceIsClean` (`SilentEndsAreClean`): the parser looks at tokens of its text and at
nothing behind them; and without an error reported no builder is handed a missing node, and a parse that ends stands
at the end of the file with one module built. So the two crashes of section 5 happen only after
an error, and no construct is left half built without a word.

The argument is a typing. Each value on the stack is a node, a node that may be missing, a list under construction or a remembered
token; each instruction takes values of some types and puts others (`Plain`, `Call`, `Made`), the two arms of a
branch agree. Every recognizer of the parser is checked once to keep what it found and add a node
(`TypedTerm`, `TypedIfStatement`, ..., `TypedBody` for all of them); a loop extends the list it found. A call
is typed by what is promised of the recognizer, not by its body, and branches within branches by a set of typed
instructions closed under them (`Sound`), so the recursion of the recognizers through each other needs no
induction. The invariant (`ParserInvariance`) says that the values fit a typing under which what is left
to execute ends in one module, where a node may be missing only after an error; `StepOnCourse` is the step.

### Model-checked only

* Liveness (`GrowthEnds`, `CollectionEnds`, `LoadEnds`, `ParseEnds`, `ReportsEnd`): the provers have no rule
  for fairness.
* `SentencesAreUnderstood`, and of `NothingIsDroppedSilently` that the tree has the words of the text: `Grammar` spells trees by
  recursion, and what a recursive definition computes for every tree is an induction over data.
* Analysis but for its tables: the trees in memory are built, copied and mangled by recursive operators.

## 5. Where code and documentation part

The two failing runs are listed in `PROJECT.json` under "findings", each with the
line it contradicts: a constructor that loses its object in a collection (`heap_unrooted`), and
errors at the end of a text that cannot be printed (`reporting_print`). The following were met as well; the
configuration named with each shows it, outside the list of runs.

* `MCGCHeapReentry.cfg`: a collection started by a deallocation of a running sweep does not
  mark everything used, since survivors still carry marks (`gc.c:47`, against `gc.c:27`).
* `MCLinkingCalls.cfg` with the invariant `DirectCallsReachFunctions`: a lookup that fails is cached, the site is a direct call of nil
  from then on (`vm.c:389`, against `vm.c:395-397`).
* `MCLoaderSafe.cfg` with `SPECIFICATION Spec` and the invariant `RetainStackHasRoom`: every load that fails keeps its place of the retain stack; the
  stack fills up and a load aborts (`objfile.c:233`, against `vm.h:44`).
* `MCGCArrayRefuses.cfg`: `orbit_gcArrayGet` and `orbit_gcArrayRemove` accept the index equal to
  the size (`value.c:391`, against `value.h:289-290`); a removal from an empty
  array makes the size wrap.
* `MCLinkingCalls.cfg` with the invariant `SymbolsAreStrings`: two call sites sharing a constant; linking the first makes the
  second look up a function object and fail the assertion of `value.c:319`.
* `MCLinkingCalls.cfg` with the invariant `IpIsAtInstruction`: `init_sym` reads one of its two argument bytes
  (`vm.c:484`, against `opcodes.h:69`) and patches a byte of the instruction before;
  the rest of the function is executed out of step. It does not test that the class was found.
* `MCLoaderSafe.cfg` with `Files <- MCGood` and the invariant `CollectionsReadWritten`: a collection during a load marks constants and globals that are counted but
  not yet written (`objfile.c:160`).
* `MCLoaderFormat.cfg`: files laid out as `objfile.h` documents them are refused: the
  code reads a version of two bytes (`:26` says one), no constant index in a
  variable (`:48`), a stack effect of one byte (`:63` says two).
* `MCLoaderClasses.cfg`: 256 classes or more never load: the loop index is a byte (`objfile.c:204`).
* `MCParserGrammar.cfg`: the grammar file has a unary operator apply to a name with its suffixes and
  an `init` be a term; in the parser the operator binds tighter, and `init` is not
  accepted as statement, argument or returned value (`specs/orbit.ebnf:51-52`,
  against `parser.c:309-342` and `recursive_descent.c:57-65`).
* `MCReportingBytes.cfg`: a byte that is not UTF-8 inside a comment is never passed: the lexer spins.

Seen while reading, without a model:

* `jump_if` and `rjump_if` pop their condition, `opcodes.h:49,51` says they keep it;
  the documented operand order of `store_field` is the reverse of the code's.
* `orbit_gcTaskNew` allocates its frames with the size of a task.
* The mark function of a module adds no bytes for its constants.
* The key of the module table is a string nothing holds while the load
  allocates (`vm.c:57`), the situation of `heap_unrooted`.
* `pack754` does not end on an infinity.
* `and`, `or` have no implementation and leave their arguments to be executed
  (`vm.c:309`, against `opcodes.h:44`).

Of the parser, all in the model:

* A unary operator with no operand (`-;`) and a `:` with no type after it crash in a builder
  that is handed NULL (`builders.c:144`, `:247`).
* A second `init` in a type replaces the first without a word (`parser.c:88`): `overwritten`.
* Assignments group to the left. A line that begins with `(`, `[` or `-` continues the
  expression of the line before. `Nil` starts a type that is then refused.
* `continue` has no entry in the token table (`tokens.c:77-78`).

Of lexer and printing, in the model:

* Errors at the end of the file are filed at place 0.
* A new line inside a string is accepted (`orbit.ebnf:132` excludes it) and marks the string as the start of a line.
* In a comment `*` and `/` take the next character along: `**/` does not end a comment.
* The pool tests for the text without the header and may write past its block (`string.c:58`, `:65`): `strayed`. Its
  next growth reallocates the block at its old size and may lose what was written past it: `Torn`.
* The line table's column is computed from the table before it moved (`source.c:140`); `column = -1` stands for it.

Of analysis and mangling, in the model:

* Lost memory (`Leaks`): what is below a lambda (`alloc.c`), the arguments of `init`, which are
  released but never retained (`builders.c:195`), the type of a function declared again
  (`rcmap.c:124` overwrites without releasing).
* Unknown types are noticed at the top of an annotation only; a parameter with one is
  missing from the type of its function.
* The optional mark of a type is not mangled. Scalars 128-255 are counted as one byte and written
  as two, and lengths of four digits are cut (`mangle.c:23`, `:33`): neither occurs in the names tried.

Seen while reading the compiler: the slots of a table are never freed, neither the old ones in a growth
(`rcmap.c:85`) nor the last ones with the table (`rcmap.c:23-29`); opening and closing of scopes, `sema_lookupSymbolP`, removal from a map, the
counted array and `orbit_astTypeEquals` have no callers.

## 6. What is left out

* Memory exhaustion: the allocator asserts. The bounds `MaxStack`, `MaxFrames`
  and the size of `Ref` stand for it; a constructor begins with room for its objects.
* The contents of values: arithmetic, string comparison.
* The wording of diagnostics, source ranges of nodes other than tokens, the printed tree.
* The scoped analysis of function bodies, which the repository leaves empty (`typecheck.c:113-125`).
* Numbers in `pack.c`: the conversions of 64-bit floating point are beyond what can be enumerated.
* Map and collector together: a collection that falls into the growth of a map marks
  it with its new capacity and its old slots (`value.c:229`).
* Task and collector together: the collector marks every slot below `sp`, the
  locals no one has written yet included (`vm.c:424`).
* `orbit_vmDealloc` is the `Collect` that follows clearing the roots.

## 7. Plan

Done: the modules of section 2, in the order map, heap, task, linking, loader, array, parser,
string pool, lexer, line table and printing, analysis.

Next, by weight of the behaviour:

1. Proofs: the counts of Analysis, for which the copying of types would have to be cut into steps, so that
   no recursive operator is left in its actions.
2. A composition of the task's slots with the marking of the collector, and of the growth of
   a map with a collection.
3. The comparison of keys by kind (0.0 and -0.0, NaN) in the map.

## 8. Running it

    tlc -workers 2 -config MCGCMap.cfg MCGCMap
    tlapm GCMapProofs.tla

and so for the other configurations (named after their modules) and proof
modules. No run takes longer than four minutes; the proofs of the heap take the
longest.

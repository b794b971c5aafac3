------------------------------- MODULE Loader -------------------------------
(***************************************************************************)
(* Loading a module file into the VM (vm.c, orbit_vmLoadModule; objfile.c, *)
(* orbit_unpackModule): the four sections are read one entry at a time;    *)
(* classes and functions are registered with the VM as soon as they are    *)
(* read.  A read fails at the end of the file or on an unexpected tag; the *)
(* load is then abandoned where it stands.  Any entry that allocates may   *)
(* start a collection, which marks the module being built.                 *)
(*                                                                         *)
(* A file is its bytes.  Names are the bytes of the string; the fields of  *)
(* a class and the byte code of a function are not looked at.              *)
(***************************************************************************)
EXTENDS Integers, Sequences, SequencesExt

CONSTANTS
    Names,        \* the module names used
    Files,        \* the files there can be
    Bytes,        \* the contents of each: a sequence of bytes
    Good,         \* those that follow the format, and for each of them the
    Declares,     \*   names of its classes and signatures of its functions
    Layout,       \* for each file, the places where its entries begin
    NoFile,       \* fopen found none
    StackSize     \* ORBIT_GCSTACK_SIZE

ASSUME LoaderConstants ==
    /\ NoFile \notin Files
    /\ Files \subseteq DOMAIN Bytes /\ \A f \in Files : Bytes[f] \in Seq(0 .. 255)
    /\ Good \subseteq Files /\ Good \subseteq DOMAIN Declares
    /\ StackSize \in Nat \ {0}
    /\ Names # {}

VARIABLES
    phase,        \* what is being read, or idle
    name,         \* the module being loaded
    file, pos,    \* the file and the offset of the next byte
    count,        \* how many entries the section has
    i,            \* the loop index
    module,       \* the counts of the module and what is written of them
    retained,     \* vm->gcStackSize
    modules,      \* vm->modules: the names loaded
    functions,    \* vm->dispatchTable: signature and module of each function
    classes,      \* vm->classes: the names
    wild,         \* a collection read memory nobody had written
    givenUp       \* history: how many loads were given up half-way

table == <<modules, functions, classes>>
vars == <<phase, name, file, pos, count, i, module, retained, table, wild, givenUp>>
-----------------------------------------------------------------------------
OMF_VARIABLE == 1
OMF_CLASS == 2
OMF_FUNCTION == 3
OMF_STRING == 4
OMF_NUM == 5
Signature == <<79, 77, 70, 70>>

Empty == [constants |-> 0, globals |-> 0, written |-> 0, named |-> 0]
Loading == phase \notin {"idle", "aborted"}

(* Reading at offset p: what there is to read, and the numbers there.      *)
Has(f, p, n) == p + n <= Len(Bytes[f])
Unpack8(f, p) == Bytes[f][p + 1]
Unpack16(f, p) == 256 * Bytes[f][p + 1] + Bytes[f][p + 2]
Tagged(f, p, tag) == Has(f, p, 1) /\ Unpack8(f, p) = tag

(* A string at p, its length first; where it ends; what it says.           *)
IsString(f, p) == Has(f, p, 2) /\ Has(f, p, 2 + Unpack16(f, p))
StringEnd(f, p) == p + 2 + Unpack16(f, p)
StringAt(f, p) == SubSeq(Bytes[f], p + 3, StringEnd(f, p))

HasHeader(f) == Has(f, 0, 8) /\ SubSeq(Bytes[f], 1, 4) = Signature /\ Unpack16(f, 4) = 1

(* Entries of the sections: whether one can be read, and where it ends.    *)
IsNumberConst(f, p) == Tagged(f, p, OMF_NUM) /\ Has(f, p, 9)
IsStringConst(f, p) == Tagged(f, p, OMF_STRING) /\ IsString(f, p + 1)
IsGlobal(f, p) ==
    Tagged(f, p, OMF_VARIABLE) /\ Tagged(f, p + 1, OMF_STRING) /\ IsString(f, p + 2)
IsClass(f, p) ==
    /\ Tagged(f, p, OMF_CLASS) /\ Tagged(f, p + 1, OMF_STRING) /\ IsString(f, p + 2)
    /\ Has(f, StringEnd(f, p + 2), 2)

(* After the signature come arity, local count and stack effect, a byte    *)
(* each, the length of the byte code and the byte code.                    *)
IsFunction(f, p) ==
    /\ Tagged(f, p, OMF_FUNCTION) /\ Tagged(f, p + 1, OMF_STRING) /\ IsString(f, p + 2)
    /\ LET q == StringEnd(f, p + 2)
       IN  Has(f, q, 5) /\ Has(f, q, 5 + Unpack16(f, q + 3))
FunctionEnd(f, p) == LET q == StringEnd(f, p + 2) IN q + 5 + Unpack16(f, q + 3)
-----------------------------------------------------------------------------
Init ==
    /\ phase = "idle"
    /\ name = CHOOSE n \in Names : TRUE
    /\ file \in Files
    /\ pos = 0 /\ count = 0 /\ i = 0
    /\ module = Empty
    /\ retained = 0
    /\ modules = {} /\ functions = {} /\ classes = {}
    /\ wild = FALSE
    /\ givenUp = 0

(* Back to the caller: the locals of orbit_unpackModule are gone.          *)
Leave ==
    /\ phase' = "idle"
    /\ pos' = 0 /\ count' = 0 /\ i' = 0 /\ module' = Empty
    /\ UNCHANGED <<name, file>>

(* fail: everything registered stays, and the module is not released: its  *)
(* place on the retain stack is not given back.                            *)
Fail ==
    /\ Leave
    /\ givenUp' = givenUp + 1
    /\ UNCHANGED <<retained, table, wild>>

(* orbit_vmLoadModule and the beginning of orbit_unpackModule.  A module   *)
(* already loaded, or without a file, changes nothing.                     *)
LoadModule(n, f) ==
    /\ phase = "idle"
    /\ n \notin modules /\ f # NoFile
    /\ name' = n /\ file' = f
    /\ pos' = 0 /\ count' = 0 /\ i' = 0 /\ module' = Empty
    /\ IF retained < StackSize - 1
       THEN phase' = "header" /\ retained' = retained + 1
       ELSE phase' = "aborted" /\ UNCHANGED retained
    /\ UNCHANGED <<table, wild, givenUp>>

(* The count that starts the next section.                                 *)
Section(next) ==
    /\ phase' = next
    /\ count' = Unpack16(file, pos)
    /\ pos' = pos + 2
    /\ i' = 0
    /\ UNCHANGED <<name, file, retained, givenUp, table, wild>>

ReadHeader ==
    /\ phase = "header"
    /\ IF HasHeader(file)
       THEN /\ phase' = "constants"
            /\ count' = Unpack16(file, 6)
            /\ pos' = 8 /\ i' = 0
            /\ module' = [module EXCEPT !.constants = Unpack16(file, 6)]
            /\ UNCHANGED <<name, file, retained, givenUp, table, wild>>
       ELSE Fail

(* Mistake: a constant that cannot be read is tried again.                 *)
ReadConstantAgain ==
    /\ phase = "constants" /\ i < count
    /\ IF IsStringConst(file, pos) \/ IsNumberConst(file, pos)
       THEN /\ pos' = IF IsNumberConst(file, pos) THEN pos + 9 ELSE StringEnd(file, pos + 1)
            /\ i' = i + 1
            /\ module' = [module EXCEPT !.written = @ + 1]
            /\ UNCHANGED <<phase, name, file, count, retained, givenUp, table, wild>>
       ELSE UNCHANGED vars

ReadConstant ==
    /\ phase = "constants" /\ i < count
    /\ IF IsStringConst(file, pos) \/ IsNumberConst(file, pos)
       THEN /\ pos' = IF IsNumberConst(file, pos) THEN pos + 9 ELSE StringEnd(file, pos + 1)
            /\ i' = i + 1
            /\ module' = [module EXCEPT !.written = @ + 1]
            /\ UNCHANGED <<phase, name, file, count, retained, givenUp, table, wild>>
       ELSE Fail

StartGlobals ==
    /\ phase = "constants" /\ i >= count
    /\ IF Has(file, pos, 2)
       THEN /\ Section("globals")
            /\ module' = [module EXCEPT !.globals = Unpack16(file, pos)]
       ELSE Fail

(* Mistake: the name is read past, but not stored in the module.           *)
ReadGlobalForgets ==
    /\ phase = "globals" /\ i < count
    /\ IF IsGlobal(file, pos)
       THEN /\ pos' = StringEnd(file, pos + 2)
            /\ i' = i + 1
            /\ UNCHANGED <<phase, name, file, count, module, retained, givenUp, table, wild>>
       ELSE Fail

ReadGlobal ==
    /\ phase = "globals" /\ i < count
    /\ IF IsGlobal(file, pos)
       THEN /\ pos' = StringEnd(file, pos + 2)
            /\ i' = i + 1
            /\ module' = [module EXCEPT !.named = @ + 1]
            /\ UNCHANGED <<phase, name, file, count, retained, givenUp, table, wild>>
       ELSE Fail

(* Mistake: the module is released when its constants and globals are      *)
(* there, and again at the end.                                            *)
StartClassesReleases ==
    /\ phase = "globals" /\ i >= count
    /\ IF Has(file, pos, 2)
       THEN /\ phase' = "classes" /\ count' = Unpack16(file, pos) /\ pos' = pos + 2 /\ i' = 0
            /\ retained' = retained - 1
            /\ UNCHANGED <<name, file, module, table, wild, givenUp>>
       ELSE Fail

StartClasses ==
    /\ phase = "globals" /\ i >= count
    /\ IF Has(file, pos, 2) THEN Section("classes") /\ UNCHANGED module ELSE Fail

(* The index of this loop is a byte.                                       *)
ReadClass ==
    /\ phase = "classes" /\ i < count
    /\ IF IsClass(file, pos)
       THEN /\ pos' = StringEnd(file, pos + 2) + 2
            /\ i' = (i + 1) % 256
            /\ classes' = classes \cup {StringAt(file, pos + 2)}
            /\ UNCHANGED <<phase, name, file, count, module, retained, givenUp,
                           modules, functions, wild>>
       ELSE Fail

StartFunctions ==
    /\ phase = "classes" /\ i >= count
    /\ IF Has(file, pos, 2) THEN Section("functions") /\ UNCHANGED module ELSE Fail

(* Mistake: the first function of a signature stays.                       *)
ReadFunctionKeepsFirst ==
    /\ phase = "functions" /\ i < count
    /\ IF IsFunction(file, pos)
       THEN /\ pos' = FunctionEnd(file, pos)
            /\ i' = i + 1
            /\ LET sig == StringAt(file, pos + 2)
               IN  functions' = functions \cup
                     (IF \E f \in functions : f.sig = sig THEN {}
                      ELSE {[sig |-> sig, owner |-> name, ready |-> module]})
            /\ UNCHANGED <<phase, name, file, count, module, retained, givenUp,
                           modules, classes, wild>>
       ELSE Fail

(* The function gets its module and replaces one of the same signature.    *)
ReadFunction ==
    /\ phase = "functions" /\ i < count
    /\ IF IsFunction(file, pos)
       THEN /\ pos' = FunctionEnd(file, pos)
            /\ i' = i + 1
            /\ LET sig == StringAt(file, pos + 2)
               IN  functions' = {f \in functions : f.sig # sig}
                                   \cup {[sig |-> sig, owner |-> name, ready |-> module]}
            /\ UNCHANGED <<phase, name, file, count, module, retained, givenUp,
                           modules, classes, wild>>
       ELSE Fail

(* Mistake: the module is not released, here either.                       *)
FinishKeepsPlace ==
    /\ phase = "functions" /\ i >= count
    /\ modules' = modules \cup {name}
    /\ Leave
    /\ UNCHANGED <<retained, functions, classes, wild, givenUp>>

Finish ==
    /\ phase = "functions" /\ i >= count
    /\ retained' = retained - 1
    /\ modules' = modules \cup {name}
    /\ Leave
    /\ UNCHANGED <<functions, classes, wild, givenUp>>

(* An entry with a string is about to be read: its memory is allocated     *)
(* before anything of it is stored.  The collection marks the constants    *)
(* and globals of the module, as many as the counts say.                   *)
Collect ==
    /\ Loading /\ phase # "header" /\ i < count
    /\ wild' = (wild \/ module.written < module.constants \/ module.named < module.globals)
    /\ UNCHANGED <<phase, name, file, pos, count, i, module, retained, givenUp, table>>

Read ==
    \/ ReadHeader
    \/ ReadConstant \/ StartGlobals
    \/ ReadGlobal   \/ StartClasses
    \/ ReadClass    \/ StartFunctions
    \/ ReadFunction \/ Finish

Next ==
    \/ \E n \in Names, f \in Files \cup {NoFile} : LoadModule(n, f)
    \/ Read
    \/ Collect

Spec == Init /\ [][Next]_vars

(* A load runs in the thread of its caller.                                *)
FairSpec == Spec /\ WF_vars(Read)
-----------------------------------------------------------------------------
Short == 0 .. 65535

TypeOK ==
    /\ phase \in {"idle", "header", "constants", "globals", "classes", "functions", "aborted"}
    /\ name \in Names /\ file \in Files
    /\ pos \in 0 .. Len(Bytes[file])
    /\ count \in Short /\ i \in 0 .. count
    /\ module \in [constants : Short, globals : Short, written : Nat, named : Nat]
    /\ module.written <= module.constants /\ module.named <= module.globals
    /\ retained \in 0 .. StackSize - 1
    /\ modules \subseteq Names
    /\ \A f \in functions : f.owner \in Names
    /\ wild \in BOOLEAN
    /\ givenUp \in Nat

-----------------------------------------------------------------------------
(* The format of a file, without reading it: the sections it has, in each  *)
(* the places where entries begin and where the last one ends.  Every file *)
(* has a layout, and one only; it stops at the first entry or count that   *)
(* is not as it should be.                                                 *)
Sections == <<"constants", "globals", "classes", "functions">>

IsEntry(f, s, p) ==
    CASE s = "constants" -> IsStringConst(f, p) \/ IsNumberConst(f, p)
      [] s = "globals"   -> IsGlobal(f, p)
      [] s = "classes"   -> IsClass(f, p)
      [] s = "functions" -> IsFunction(f, p)

EntryEnd(f, s, p) ==
    CASE s = "constants" -> IF IsNumberConst(f, p) THEN p + 9 ELSE StringEnd(f, p + 1)
      [] s = "globals"   -> StringEnd(f, p + 2)
      [] s = "classes"   -> StringEnd(f, p + 2) + 2
      [] s = "functions" -> FunctionEnd(f, p)

Entries(f, j) == Len(Layout[f][j]) - 1
End(f, j)     == Layout[f][j][Len(Layout[f][j])]
Count(f, j)   == Unpack16(f, Layout[f][j][1] - 2)
NamesIn(f, j) == {StringAt(f, Layout[f][j][k] + 2) : k \in 1 .. Entries(f, j)}

(* All the entries that were announced can be read. *)
Complete(f, j) == Entries(f, j) = Count(f, j)
Whole(f)       == Len(Layout[f]) = 4 /\ Complete(f, 4)

IsLayout(f) ==
    /\ Layout[f] \in Seq(Seq(Nat) \ {<<>>}) /\ Len(Layout[f]) <= 4
    /\ Layout[f] # <<>> <=> HasHeader(f)
    /\ \A j \in 1 .. Len(Layout[f]) :
          /\ Layout[f][j][1] = IF j = 1 THEN 8 ELSE End(f, j - 1) + 2
          /\ Has(f, Layout[f][j][1], 0)
          /\ Entries(f, j) <= Count(f, j)
          /\ \A k \in 1 .. Entries(f, j) :
                /\ IsEntry(f, Sections[j], Layout[f][j][k])
                /\ Layout[f][j][k + 1] = EntryEnd(f, Sections[j], Layout[f][j][k])
          /\ j < Len(Layout[f]) => Complete(f, j)
          /\ ~Complete(f, j) => ~IsEntry(f, Sections[j], End(f, j))
          /\ j = Len(Layout[f]) /\ Complete(f, j) => j = 4 \/ ~Has(f, End(f, j), 2)

ASSUME LayoutConstants ==
    \A f \in Files :
        /\ IsLayout(f)
        /\ Whole(f) => Declares[f] = [classes   |-> NamesIn(f, 3),
                                      functions |-> NamesIn(f, 4)]

(* The format as the code has it, with no more classes than its index can  *)
(* count.                                                                  *)
GoodIsWhole == \A f \in Good : Whole(f) /\ Entries(f, 3) <= 255

-----------------------------------------------------------------------------
(* A file that follows the format is loaded, whatever was loaded before    *)
(* it.  Loads given up half-way stand in its way only by the place on the  *)
(* retain stack that each of them keeps: a load is refused when those      *)
(* places are all that there are, and no sooner.                           *)
GoodFilesLoad ==
    [][/\ phase = "idle" /\ phase' = "aborted" => givenUp >= StackSize - 1
       /\ Loading /\ phase' = "idle" /\ file \in Good => name \in modules']_vars

(* A loaded module has registered all its classes and functions, and its   *)
(* functions are the ones their signatures now call.                       *)
LoadsAreComplete ==
    [][modules' # modules =>
          /\ Declares[file].classes \subseteq classes'
          /\ \A s \in Declares[file].functions :
                \E f \in functions' : f.sig = s /\ f.owner = name
                                        /\ \A g \in functions' : g.sig = s => g = f]_vars

(* A function that can be called has a module whose constants and globals  *)
(* are all there, also when the load that brought it was given up.         *)
RegisteredFunctionsAreReady ==
    \A f \in functions : /\ f.ready.written = f.ready.constants
                         /\ f.ready.named = f.ready.globals

(* From the first entry to the last, the module is on the retain stack: no *)
(* collection takes it from under the load.                                *)
ModuleIsRetained == Loading => retained > 0

(* Every load ends, whatever the file holds.                               *)
LoadEnds == Loading ~> ~Loading

(* vm.h asserts that there is room to retain: "stack overflow".            *)
RetainStackHasRoom == phase # "aborted"

(* objfile.c retains the module since "the GC kicks in while we're         *)
(* creating it": a collection then must find it fit to be marked.          *)
CollectionsReadWritten == ~wild
=============================================================================

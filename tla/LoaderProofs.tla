---------------------------- MODULE LoaderProofs ----------------------------
(***************************************************************************)
(* For every set of files, well formed or not, and every order of loads,   *)
(* failures and collections: what a caller can reach of a module is        *)
(* complete, the module is on the retain stack while it is built, a file   *)
(* in the format is loaded unless earlier loads, given up, have filled     *)
(* that stack, and a loaded module is all there.                           *)
(***************************************************************************)
EXTENDS Loader, SequenceTheorems, TLAPS

(* What has been read of a module, by section.                             *)
HeaderIsNext == phase = "header" => module = Empty

ConstantsFollow ==
    phase = "constants" =>
        /\ module.constants = count /\ module.written = i
        /\ module.globals = 0 /\ module.named = 0

GlobalsFollow ==
    phase = "globals" =>
        /\ module.written = module.constants
        /\ module.globals = count /\ module.named = i

ModuleIsComplete ==
    phase \in {"classes", "functions"} =>
        module.written = module.constants /\ module.named = module.globals

SectionsFollow ==
    HeaderIsNext /\ ConstantsFollow /\ GlobalsFollow /\ ModuleIsComplete

LoadInv ==
    /\ TypeOK
    /\ SectionsFollow
    /\ RegisteredFunctionsAreReady
    /\ ModuleIsRetained
-----------------------------------------------------------------------------
(* What the readers return lies within the file.                           *)
LEMMA FileIsBytes ==
    ASSUME file \in Files
    PROVE  /\ Len(Bytes[file]) \in Nat
           /\ \A p \in 1 .. Len(Bytes[file]) : Bytes[file][p] \in 0 .. 255
BY LoaderConstants, LenProperties, ElementOfSeq

LEMMA ShortIsNatural == Short \subseteq Nat /\ 0 \in Short
BY DEF Short

LEMMA TwoBytes ==
    ASSUME NEW a \in 0 .. 255, NEW b \in 0 .. 255
    PROVE  256 * a + b \in Short
BY DEF Short

LEMMA NumbersAreShort ==
    ASSUME file \in Files, NEW p \in Nat, Has(file, p, 2)
    PROVE  Unpack16(file, p) \in Short /\ Unpack16(file, p) \in Nat
<1>1. Bytes[file][p + 1] \in 0 .. 255 /\ Bytes[file][p + 2] \in 0 .. 255
  BY FileIsBytes DEF Has
<1>2. Unpack16(file, p) \in Short  BY <1>1, TwoBytes DEF Unpack16
<1> QED  BY <1>2, ShortIsNatural

LEMMA StringsEndInside ==
    ASSUME file \in Files, NEW p \in Nat, IsString(file, p)
    PROVE  StringEnd(file, p) \in Nat /\ StringEnd(file, p) <= Len(Bytes[file])
<1>1. Has(file, p, 2) /\ Has(file, p, 2 + Unpack16(file, p))  BY Zenon DEF IsString
<1>2. Unpack16(file, p) \in Nat  BY <1>1, NumbersAreShort
<1> QED  BY <1>1, <1>2, FileIsBytes DEF Has, StringEnd

LEMMA FunctionsEndInside ==
    ASSUME file \in Files, NEW p \in Nat, IsFunction(file, p)
    PROVE  FunctionEnd(file, p) \in Nat /\ FunctionEnd(file, p) <= Len(Bytes[file])
<1> DEFINE q == StringEnd(file, p + 2)
<1>1. q \in Nat  BY StringsEndInside DEF IsFunction
<1>2. Has(file, q, 5) /\ Has(file, q, 5 + Unpack16(file, q + 3)) /\ FunctionEnd(file, p) = q + 5 + Unpack16(file, q + 3)
  BY DEF IsFunction, FunctionEnd
<1> HIDE DEF q
<1>3. Has(file, q + 3, 2)  BY <1>1, <1>2, FileIsBytes DEF Has
<1>4. q + 3 \in Nat  BY <1>1
<1>5. Unpack16(file, q + 3) \in Nat  BY <1>3, <1>4, NumbersAreShort
<1> QED  BY <1>1, <1>2, <1>5, FileIsBytes DEF Has
-----------------------------------------------------------------------------
(* A load given up or ended leaves nothing behind but what it registered.  *)
LEMMA LeaveKeeps ==
    ASSUME LoadInv, Leave, UNCHANGED <<functions, classes, wild>>,
           retained' \in 0 .. StackSize - 1, modules' \subseteq Names, givenUp' \in Nat
    PROVE  LoadInv'
<1>1. /\ phase' = "idle" /\ pos' = 0 /\ count' = 0 /\ i' = 0 /\ module' = Empty
      /\ UNCHANGED <<name, file, functions, wild>>
  BY DEF Leave
<1>2. TypeOK'
  <2>1. wild' \in BOOLEAN  BY <1>1, Zenon DEF LoadInv, TypeOK
  <2>2. file \in Files /\ name \in Names /\ Len(Bytes[file]) \in Nat
        /\ \A f \in functions : f.owner \in Names
    BY FileIsBytes DEF LoadInv, TypeOK
  <2>3. pos' \in 0 .. Len(Bytes[file']) /\ count' \in Short /\ i' \in 0 .. count'
    BY <1>1, <2>2, ShortIsNatural
  <2>4. /\ module' \in [constants : Short, globals : Short, written : Nat, named : Nat]
        /\ module'.written <= module'.constants /\ module'.named <= module'.globals
    BY <1>1, ShortIsNatural DEF Empty
  <2> QED  BY <1>1, <2>1, <2>2, <2>3, <2>4 DEF TypeOK
<1>3. SectionsFollow' /\ ModuleIsRetained'
  BY <1>1
    DEF SectionsFollow, HeaderIsNext, ConstantsFollow, GlobalsFollow, ModuleIsComplete,
        ModuleIsRetained, Loading
<1>4. RegisteredFunctionsAreReady'  BY <1>1 DEF LoadInv, RegisteredFunctionsAreReady
<1> QED  BY <1>2, <1>3, <1>4 DEF LoadInv

LEMMA FailKeeps ==
    ASSUME LoadInv, Fail
    PROVE  LoadInv'
<1>1. Leave /\ UNCHANGED <<functions, classes, wild>> /\ retained' = retained
      /\ modules' = modules /\ givenUp' = givenUp + 1
  BY DEF Fail, table
<1>2. givenUp' \in Nat  BY <1>1 DEF LoadInv, TypeOK
<1> QED  BY <1>1, <1>2, LeaveKeeps DEF LoadInv, TypeOK

(* A step that reads on: the position, the section and the functions it    *)
(* leaves are those of the invariant.                                      *)
LEMMA ReadsOn ==
    ASSUME LoadInv, Loading, UNCHANGED <<name, file, retained, givenUp, modules, wild>>,
           phase' \in {"constants", "globals", "classes", "functions"},
           pos' \in 0 .. Len(Bytes[file]), count' \in Short, i' \in 0 .. count',
           module' \in [constants : Short, globals : Short,
                        written : Nat, named : Nat],
           module'.written <= module'.constants, module'.named <= module'.globals,
           SectionsFollow', RegisteredFunctionsAreReady',
           \A f \in functions' : f.owner \in Names
    PROVE  LoadInv'
<1>1. TypeOK'  BY DEF LoadInv, TypeOK
<1>2. ModuleIsRetained'  BY DEF LoadInv, ModuleIsRetained
<1> QED  BY <1>1, <1>2 DEF LoadInv

LEMMA LoadKeeps ==
    ASSUME LoadInv, NEW n \in Names, NEW f \in Files \cup {NoFile}, LoadModule(n, f)
    PROVE  LoadInv'
<1>1. /\ name' = n /\ file' = f /\ f \in Files
      /\ pos' = 0 /\ count' = 0 /\ i' = 0 /\ module' = Empty
      /\ UNCHANGED <<givenUp, modules, functions, classes, wild>>
      /\ \/ phase' = "header" /\ retained < StackSize - 1 /\ retained' = retained + 1
         \/ phase' = "aborted" /\ retained' = retained
  BY DEF LoadModule, table
<1>2. TypeOK'
  <2>1. wild' \in BOOLEAN  BY <1>1, Zenon DEF LoadInv, TypeOK
  <2>2. retained \in 0 .. StackSize - 1 /\ StackSize \in Nat
    BY LoaderConstants DEF LoadInv, TypeOK
  <2>3. retained' \in 0 .. StackSize - 1  BY <1>1, <2>2
  <2>4. Len(Bytes[f]) \in Nat  BY <1>1, LoaderConstants, LenProperties
  <2>5. pos' \in 0 .. Len(Bytes[file']) /\ count' \in Short /\ i' \in 0 .. count'
    BY <1>1, <2>4, ShortIsNatural
  <2>6. /\ module' \in [constants : Short, globals : Short, written : Nat, named : Nat]
        /\ module'.written <= module'.constants /\ module'.named <= module'.globals
    BY <1>1, ShortIsNatural DEF Empty
  <2>7. modules' \subseteq Names /\ givenUp' \in Nat /\ \A g \in functions' : g.owner \in Names
    BY <1>1 DEF LoadInv, TypeOK
  <2>8. phase' \in {"header", "aborted"}  BY <1>1
  <2> QED  BY <1>1, <2>1, <2>3, <2>5, <2>6, <2>7, <2>8 DEF TypeOK
<1>3. SectionsFollow'
  BY <1>1 DEF SectionsFollow, HeaderIsNext, ConstantsFollow, GlobalsFollow, ModuleIsComplete
<1>4. ModuleIsRetained'
  BY <1>1, LoaderConstants DEF LoadInv, TypeOK, ModuleIsRetained, Loading
<1>5. RegisteredFunctionsAreReady'  BY <1>1 DEF LoadInv, RegisteredFunctionsAreReady
<1> QED  BY <1>2, <1>3, <1>4, <1>5 DEF LoadInv
-----------------------------------------------------------------------------
(* What the invariant says of the numbers at hand.                         *)
LEMMA Numbers ==
    ASSUME LoadInv
    PROVE  /\ file \in Files /\ pos \in Nat /\ pos <= Len(Bytes[file])
           /\ Len(Bytes[file]) \in Nat
           /\ count \in Short /\ count \in Nat /\ i \in Nat /\ i <= count
           /\ module \in [constants : Short, globals : Short, written : Nat, named : Nat]
           /\ module.constants \in Nat /\ module.globals \in Nat
           /\ module.written <= module.constants /\ module.named <= module.globals
           /\ \A f \in functions : f.owner \in Names
<1>1. /\ file \in Files /\ pos \in 0 .. Len(Bytes[file])
      /\ count \in Short /\ i \in 0 .. count
      /\ module \in [constants : Short, globals : Short, written : Nat, named : Nat]
      /\ module.written <= module.constants /\ module.named <= module.globals
      /\ \A f \in functions : f.owner \in Names
  BY DEF LoadInv, TypeOK
<1>2. module.constants \in Short /\ module.globals \in Short
      /\ Len(Bytes[file]) \in Nat /\ count \in Nat
  BY <1>1, FileIsBytes, ShortIsNatural
<1>3. pos \in Nat /\ pos <= Len(Bytes[file]) /\ i \in Nat /\ i <= count
  BY <1>1, <1>2
<1> QED  BY <1>1, <1>2, <1>3, ShortIsNatural

LEMMA SectionReads ==
    ASSUME LoadInv, Loading, Has(file, pos, 2), NEW next, Section(next)
    PROVE  /\ phase' = next /\ UNCHANGED <<name, file, retained, givenUp, modules, functions, classes, wild>>
           /\ Unpack16(file, pos) \in Short
           /\ pos' \in 0 .. Len(Bytes[file]) /\ count' = Unpack16(file, pos)
           /\ i' = 0 /\ i' \in 0 .. count'
<1>1. phase' = next /\ count' = Unpack16(file, pos) /\ pos' = pos + 2 /\ i' = 0
      /\ UNCHANGED <<name, file, retained, givenUp, modules, functions, classes, wild>>
  BY DEF Section, table
<1>2. Unpack16(file, pos) \in Short /\ Unpack16(file, pos) \in Nat  BY Numbers, NumbersAreShort
<1>3. pos' \in 0 .. Len(Bytes[file])  BY <1>1, Numbers DEF Has
<1> QED  BY <1>1, <1>2, <1>3

LEMMA HeaderKeeps ==
    ASSUME LoadInv, ReadHeader
    PROVE  LoadInv'
<1>1. CASE ~ HasHeader(file)
  BY <1>1, FailKeeps DEF ReadHeader
<1>2. CASE HasHeader(file)
  <2>1. /\ phase = "header" /\ phase' = "constants" /\ count' = Unpack16(file, 6) /\ pos' = 8 /\ i' = 0
        /\ module' = [module EXCEPT !.constants = Unpack16(file, 6)]
        /\ UNCHANGED <<name, file, retained, givenUp, modules, functions, classes, wild>>
    BY <1>2 DEF ReadHeader, table
  <2>2. Has(file, 6, 2)  BY <1>2, Numbers DEF Has, HasHeader
  <2>3. Unpack16(file, 6) \in Short /\ Unpack16(file, 6) \in Nat  BY <2>2, Numbers, NumbersAreShort
  <2>4. pos' \in 0 .. Len(Bytes[file])  BY <1>2, <2>1, Numbers DEF Has, HasHeader
  <2>5. module = Empty  BY <2>1 DEF LoadInv, SectionsFollow, HeaderIsNext
  <2> DEFINE n == Unpack16(file, 6)
  <2> HIDE DEF n
  <2>6. module' = [constants |-> n, globals |-> 0, written |-> 0, named |-> 0]
    BY <2>1, <2>5 DEF Empty, n
  <2>7. /\ module' \in [constants : Short, globals : Short, written : Nat, named : Nat]
        /\ module'.written <= module'.constants /\ module'.named <= module'.globals
    BY <2>3, <2>6, ShortIsNatural DEF n
  <2>8. SectionsFollow'
    BY <2>1, <2>6
      DEF SectionsFollow, HeaderIsNext, ConstantsFollow, GlobalsFollow, ModuleIsComplete, n
  <2>9. RegisteredFunctionsAreReady' /\ \A f \in functions' : f.owner \in Names
    BY <2>1, Numbers DEF LoadInv, RegisteredFunctionsAreReady
  <2>10. count' \in Short /\ i' \in 0 .. count'  BY <2>1, <2>3
  <2> QED
    BY <2>1, <2>4, <2>7, <2>8, <2>9, <2>10, ReadsOn DEF Loading
<1> QED  BY <1>1, <1>2
-----------------------------------------------------------------------------
(* The entries of the sections and the steps from one section to the next. *)
LEMMA ConstantKeeps ==
    ASSUME LoadInv, ReadConstant
    PROVE  LoadInv'
<1>1. CASE ~ (IsStringConst(file, pos) \/ IsNumberConst(file, pos))
  BY <1>1, FailKeeps DEF ReadConstant
<1>2. CASE IsStringConst(file, pos) \/ IsNumberConst(file, pos)
  <2>1. /\ phase = "constants" /\ phase' = "constants" /\ i < count /\ count' = count
        /\ pos' = IF IsNumberConst(file, pos) THEN pos + 9 ELSE StringEnd(file, pos + 1)
        /\ i' = i + 1 /\ module' = [module EXCEPT !.written = module.written + 1]
        /\ UNCHANGED <<name, file, retained, givenUp, modules, functions, classes, wild>>
    BY <1>2 DEF ReadConstant, table
  <2>2. pos' \in 0 .. Len(Bytes[file])
    <3>1. CASE IsNumberConst(file, pos)  BY <2>1, <3>1, Numbers DEF IsNumberConst, Has
    <3>2. CASE ~ IsNumberConst(file, pos)
      <4>1. pos + 1 \in Nat /\ IsString(file, pos + 1)  BY <1>2, <3>2, Numbers DEF IsStringConst
      <4> QED  BY <2>1, <3>2, <4>1, Numbers, StringsEndInside
    <3> QED  BY <3>1, <3>2
  <2>3. /\ module.constants = count /\ module.written = i
        /\ module.globals = 0 /\ module.named = 0
    BY <2>1 DEF LoadInv, SectionsFollow, ConstantsFollow
  <2>4. /\ module' \in [constants : Short, globals : Short, written : Nat, named : Nat]
        /\ module'.constants = count /\ module'.written = i + 1
        /\ module'.globals = 0 /\ module'.named = 0
    BY <2>1, <2>3, Numbers
  <2>5. SectionsFollow'
    BY <2>1, <2>4 DEF SectionsFollow, HeaderIsNext, ConstantsFollow, GlobalsFollow, ModuleIsComplete
  <2>6. RegisteredFunctionsAreReady' /\ \A f \in functions' : f.owner \in Names
    BY <2>1, Numbers DEF LoadInv, RegisteredFunctionsAreReady
  <2>7. /\ count' \in Short /\ i' \in 0 .. count'
        /\ module'.written <= module'.constants /\ module'.named <= module'.globals
    BY <2>1, <2>4, Numbers
  <2> QED
    BY <2>1, <2>2, <2>4, <2>5, <2>6, <2>7, ReadsOn DEF Loading
<1> QED  BY <1>1, <1>2

LEMMA StartGlobalsKeeps ==
    ASSUME LoadInv, StartGlobals
    PROVE  LoadInv'
<1>1. CASE ~ Has(file, pos, 2)  BY <1>1, FailKeeps DEF StartGlobals
<1>2. CASE Has(file, pos, 2)
  <2>1. /\ phase = "constants" /\ i >= count /\ Section("globals")
        /\ module' = [module EXCEPT !.globals = Unpack16(file, pos)] /\ Loading
    BY <1>2 DEF StartGlobals, Loading
  <2>2. /\ phase' = "globals" /\ i' = 0 /\ i' \in 0 .. count' /\ count' = Unpack16(file, pos)
        /\ Unpack16(file, pos) \in Short /\ pos' \in 0 .. Len(Bytes[file])
        /\ UNCHANGED <<name, file, retained, givenUp, modules, functions, classes, wild>>
    BY <1>2, <2>1, SectionReads
  <2> DEFINE n == Unpack16(file, pos)
  <2>3. n \in Short /\ n \in Nat  BY <2>2, ShortIsNatural
  <2> HIDE DEF n
  <2>4. module.written = module.constants /\ module.named = 0
    BY <2>1, Numbers DEF LoadInv, SectionsFollow, ConstantsFollow
  <2>5. /\ module' \in [constants : Short, globals : Short, written : Nat, named : Nat]
        /\ module'.constants = module.constants /\ module'.written = module.written
        /\ module'.globals = n /\ module'.named = 0
    BY <2>1, <2>3, <2>4, Numbers DEF n
  <2>6. module'.written <= module'.constants /\ module'.named <= module'.globals
    BY <2>3, <2>4, <2>5, Numbers
  <2>7. SectionsFollow'
    BY <2>2, <2>4, <2>5
      DEF SectionsFollow, HeaderIsNext, ConstantsFollow, GlobalsFollow, ModuleIsComplete, n
  <2>8. RegisteredFunctionsAreReady' /\ \A f \in functions' : f.owner \in Names
    BY <2>2, Numbers DEF LoadInv, RegisteredFunctionsAreReady
  <2>9. count' \in Short  BY <2>2
  <2> QED
    BY <2>1, <2>2, <2>5, <2>6, <2>7, <2>8, <2>9, ReadsOn DEF Loading
<1> QED  BY <1>1, <1>2

LEMMA GlobalKeeps ==
    ASSUME LoadInv, ReadGlobal
    PROVE  LoadInv'
<1>1. CASE ~ IsGlobal(file, pos)  BY <1>1, FailKeeps DEF ReadGlobal
<1>2. CASE IsGlobal(file, pos)
  <2>1. /\ phase = "globals" /\ phase' = "globals" /\ i < count /\ count' = count
        /\ pos' = StringEnd(file, pos + 2) /\ i' = i + 1
        /\ module' = [module EXCEPT !.named = module.named + 1]
        /\ UNCHANGED <<name, file, retained, givenUp, modules, functions, classes, wild>>
    BY <1>2 DEF ReadGlobal, table
  <2>2. pos' \in 0 .. Len(Bytes[file])
    <3>1. pos + 2 \in Nat /\ IsString(file, pos + 2)  BY <1>2, Numbers DEF IsGlobal
    <3> QED  BY <2>1, <3>1, Numbers, StringsEndInside
  <2>3. /\ module.written = module.constants
        /\ module.globals = count /\ module.named = i
    BY <2>1 DEF LoadInv, SectionsFollow, GlobalsFollow
  <2>4. /\ module' \in [constants : Short, globals : Short, written : Nat, named : Nat]
        /\ module'.constants = module.constants /\ module'.written = module.constants
        /\ module'.globals = count /\ module'.named = i + 1
    BY <2>1, <2>3, Numbers
  <2>5. SectionsFollow'
    BY <2>1, <2>4 DEF SectionsFollow, HeaderIsNext, ConstantsFollow, GlobalsFollow, ModuleIsComplete
  <2>6. RegisteredFunctionsAreReady' /\ \A f \in functions' : f.owner \in Names
    BY <2>1, Numbers DEF LoadInv, RegisteredFunctionsAreReady
  <2>7. /\ count' \in Short /\ i' \in 0 .. count'
        /\ module'.written <= module'.constants /\ module'.named <= module'.globals
    BY <2>1, <2>4, Numbers
  <2> QED
    BY <2>1, <2>2, <2>4, <2>5, <2>6, <2>7, ReadsOn DEF Loading
<1> QED  BY <1>1, <1>2

(* Once its globals are named the module does not change any more.         *)
LEMMA CompleteStays ==
    ASSUME LoadInv, Loading, UNCHANGED <<name, file, retained, givenUp, modules, wild, module>>,
           phase' \in {"classes", "functions"},
           pos' \in 0 .. Len(Bytes[file]), count' \in Short, i' \in 0 .. count',
           module.written = module.constants, module.named = module.globals,
           \A f \in functions' :
              f \in functions \/ (f.owner = name /\ f.ready = module)
    PROVE  LoadInv'
<1>1. SectionsFollow'
  BY DEF SectionsFollow, HeaderIsNext, ConstantsFollow, GlobalsFollow, ModuleIsComplete
<1>2. RegisteredFunctionsAreReady'  BY DEF LoadInv, RegisteredFunctionsAreReady
<1>3. \A f \in functions' : f.owner \in Names  BY DEF LoadInv, TypeOK
<1> QED  BY <1>1, <1>2, <1>3, Numbers, ReadsOn

LEMMA StartClassesKeeps ==
    ASSUME LoadInv, StartClasses
    PROVE  LoadInv'
<1>1. CASE ~ Has(file, pos, 2)  BY <1>1, FailKeeps DEF StartClasses
<1>2. CASE Has(file, pos, 2)
  <2>1. phase = "globals" /\ i >= count /\ Section("classes") /\ UNCHANGED module /\ Loading
    BY <1>2 DEF StartClasses, Loading
  <2>2. module.written = module.constants /\ module.named = module.globals
    BY <2>1, Numbers DEF LoadInv, SectionsFollow, GlobalsFollow
  <2> QED  BY <1>2, <2>1, <2>2, SectionReads, CompleteStays
<1> QED  BY <1>1, <1>2

LEMMA StartFunctionsKeeps ==
    ASSUME LoadInv, StartFunctions
    PROVE  LoadInv'
<1>1. CASE ~ Has(file, pos, 2)  BY <1>1, FailKeeps DEF StartFunctions
<1>2. CASE Has(file, pos, 2)
  <2>1. phase = "classes" /\ Section("functions") /\ UNCHANGED module /\ Loading
    BY <1>2 DEF StartFunctions, Loading
  <2>2. module.written = module.constants /\ module.named = module.globals
    BY <2>1 DEF LoadInv, SectionsFollow, ModuleIsComplete
  <2> QED  BY <1>2, <2>1, <2>2, SectionReads, CompleteStays
<1> QED  BY <1>1, <1>2

(* The index is cut to a byte, and so never grows past the count.          *)
LEMMA ClassKeeps ==
    ASSUME LoadInv, ReadClass
    PROVE  LoadInv'
<1>1. CASE ~ IsClass(file, pos)  BY <1>1, FailKeeps DEF ReadClass
<1>2. CASE IsClass(file, pos)
  <2>1. /\ phase = "classes" /\ phase' = "classes" /\ i < count /\ count' = count
        /\ pos' = StringEnd(file, pos + 2) + 2 /\ i' = (i + 1) % 256 /\ Loading
        /\ UNCHANGED <<name, file, module, retained, givenUp, modules, functions, wild>>
    BY <1>2 DEF ReadClass, Loading
  <2>2. pos' \in 0 .. Len(Bytes[file])
    <3>1. /\ pos + 2 \in Nat /\ IsString(file, pos + 2) /\ Has(file, StringEnd(file, pos + 2), 2)
      BY <1>2, Numbers DEF IsClass
    <3>2. StringEnd(file, pos + 2) \in Nat  BY <3>1, Numbers, StringsEndInside
    <3> QED  BY <2>1, <3>1, <3>2, Numbers DEF Has
  <2>3. i' \in 0 .. count'
    <3>1. \A n \in Nat : n % 256 \in 0 .. n  OBVIOUS
    <3> QED  BY <2>1, <3>1, Numbers
  <2>4. module.written = module.constants /\ module.named = module.globals
    BY <2>1 DEF LoadInv, SectionsFollow, ModuleIsComplete
  <2> QED  BY <2>1, <2>2, <2>3, <2>4, Numbers, CompleteStays
<1> QED  BY <1>1, <1>2

LEMMA FunctionKeeps ==
    ASSUME LoadInv, ReadFunction
    PROVE  LoadInv'
<1>1. CASE ~ IsFunction(file, pos)  BY <1>1, FailKeeps DEF ReadFunction
<1>2. CASE IsFunction(file, pos)
  <2> DEFINE sig == StringAt(file, pos + 2)
  <2>1. /\ phase = "functions" /\ phase' = "functions" /\ i < count /\ count' = count
        /\ pos' = FunctionEnd(file, pos) /\ i' = i + 1 /\ Loading
        /\ functions' = {f \in functions : f.sig # sig}
                           \cup {[sig |-> sig, owner |-> name, ready |-> module]}
        /\ UNCHANGED <<name, file, module, retained, givenUp, modules, wild>>
    BY <1>2 DEF ReadFunction, Loading
  <2> HIDE DEF sig
  <2>2. pos' \in 0 .. Len(Bytes[file])  BY <1>2, <2>1, Numbers, FunctionsEndInside
  <2>3. i' \in 0 .. count'  BY <2>1, Numbers
  <2>4. module.written = module.constants /\ module.named = module.globals
    BY <2>1 DEF LoadInv, SectionsFollow, ModuleIsComplete
  <2>5. \A f \in functions' : f \in functions \/ (f.owner = name /\ f.ready = module)
    BY <2>1
  <2> QED  BY <2>1, <2>2, <2>3, <2>4, <2>5, Numbers, CompleteStays
<1> QED  BY <1>1, <1>2

LEMMA FinishKeeps ==
    ASSUME LoadInv, Finish
    PROVE  LoadInv'
<1>1. /\ phase = "functions" /\ retained' = retained - 1 /\ modules' = modules \cup {name}
      /\ Leave /\ UNCHANGED <<functions, classes, wild, givenUp>>
  BY DEF Finish
<1>2. retained > 0  BY <1>1 DEF LoadInv, ModuleIsRetained, Loading
<1>3. retained \in 0 .. StackSize - 1 /\ StackSize \in Nat /\ modules \subseteq Names /\ name \in Names
  BY LoaderConstants DEF LoadInv, TypeOK
<1>4. retained' \in 0 .. StackSize - 1 /\ modules' \subseteq Names /\ givenUp' \in Nat
  BY <1>1, <1>2, <1>3 DEF LoadInv, TypeOK
<1> QED  BY <1>1, <1>4, LeaveKeeps

LEMMA CollectKeeps ==
    ASSUME LoadInv, Collect
    PROVE  LoadInv'
<1>1. /\ wild' = (wild \/ module.written < module.constants \/ module.named < module.globals)
      /\ UNCHANGED <<phase, name, file, pos, count, i, module, retained, givenUp, modules, functions>>
  BY DEF Collect, table
<1>2. wild' \in BOOLEAN  BY <1>1, Zenon
<1>3. TypeOK'  BY <1>1, <1>2 DEF LoadInv, TypeOK
<1>4. SectionsFollow' /\ ModuleIsRetained'
  BY <1>1
    DEF LoadInv, SectionsFollow, HeaderIsNext, ConstantsFollow, GlobalsFollow, ModuleIsComplete,
        ModuleIsRetained, Loading
<1>5. RegisteredFunctionsAreReady'  BY <1>1 DEF LoadInv, RegisteredFunctionsAreReady
<1> QED  BY <1>3, <1>4, <1>5 DEF LoadInv
-----------------------------------------------------------------------------
LEMMA LoadInvInit == Init => LoadInv
<1> SUFFICES ASSUME Init PROVE LoadInv
  OBVIOUS
<1>1. /\ phase = "idle" /\ file \in Files /\ pos = 0 /\ count = 0 /\ i = 0 /\ module = Empty
      /\ retained = 0 /\ modules = {} /\ functions = {} /\ wild = FALSE
      /\ givenUp = 0
  BY DEF Init
<1>2. name \in Names  BY LoaderConstants, Zenon DEF Init
<1>3. wild \in BOOLEAN  BY <1>1, Zenon
<1>4. pos \in 0 .. Len(Bytes[file]) /\ retained \in 0 .. StackSize - 1
      /\ count \in Short /\ i \in 0 .. count
  BY <1>1, FileIsBytes, LoaderConstants, ShortIsNatural
<1>5. /\ module \in [constants : Short, globals : Short, written : Nat, named : Nat]
      /\ module.written <= module.constants /\ module.named <= module.globals
  BY <1>1, ShortIsNatural DEF Empty
<1>6. TypeOK  BY <1>1, <1>2, <1>3, <1>4, <1>5 DEF TypeOK
<1>7. SectionsFollow /\ RegisteredFunctionsAreReady /\ ModuleIsRetained
  BY <1>1
    DEF SectionsFollow, HeaderIsNext, ConstantsFollow, GlobalsFollow, ModuleIsComplete,
        RegisteredFunctionsAreReady, ModuleIsRetained, Loading
<1> QED  BY <1>6, <1>7 DEF LoadInv

LEMMA LoadInvStep == LoadInv /\ [Next]_vars => LoadInv'
<1> SUFFICES ASSUME LoadInv, [Next]_vars PROVE LoadInv'
  OBVIOUS
<1>1. CASE \E n \in Names, f \in Files \cup {NoFile} : LoadModule(n, f)
  BY <1>1, LoadKeeps
<1>2. CASE ReadHeader  BY <1>2, HeaderKeeps
<1>3. CASE ReadConstant  BY <1>3, ConstantKeeps
<1>4. CASE StartGlobals  BY <1>4, StartGlobalsKeeps
<1>5. CASE ReadGlobal  BY <1>5, GlobalKeeps
<1>6. CASE StartClasses  BY <1>6, StartClassesKeeps
<1>7. CASE ReadClass  BY <1>7, ClassKeeps
<1>8. CASE StartFunctions  BY <1>8, StartFunctionsKeeps
<1>9. CASE ReadFunction  BY <1>9, FunctionKeeps
<1>10. CASE Finish  BY <1>10, FinishKeeps
<1>11. CASE Collect  BY <1>11, CollectKeeps
<1>12. CASE UNCHANGED vars
  <2>1. UNCHANGED <<phase, name, file, pos, count, i, module, retained, givenUp, modules, functions>>
        /\ wild' = wild
    BY <1>12 DEF vars, table
  <2>2. wild' \in BOOLEAN  BY <2>1, Zenon DEF LoadInv, TypeOK
  <2>3. TypeOK'  BY <2>1, <2>2 DEF LoadInv, TypeOK
  <2>4. SectionsFollow' /\ ModuleIsRetained' /\ RegisteredFunctionsAreReady'
    BY <2>1
      DEF LoadInv, SectionsFollow, HeaderIsNext, ConstantsFollow, GlobalsFollow, ModuleIsComplete,
          ModuleIsRetained, Loading, RegisteredFunctionsAreReady
  <2> QED  BY <2>3, <2>4 DEF LoadInv
<1> QED
  BY <1>1, <1>2, <1>3, <1>4, <1>5, <1>6, <1>7, <1>8, <1>9, <1>10, <1>11, <1>12 DEF Next, Read

(* A load keeps this with every entry it reads, every failure and every    *)
(* collection on the way: positions within the file, counts in step with   *)
(* the section, a retained module.                                         *)
THEOREM LoadInvariance == Spec => []LoadInv
BY LoadInvInit, LoadInvStep, PTL DEF Spec

(* Whatever function the dispatch table holds, the constants and globals   *)
(* of its module are all there; a load given up later takes none away.     *)
THEOREM CallableIsReady == Spec => []RegisteredFunctionsAreReady
<1>1. LoadInv => RegisteredFunctionsAreReady  BY DEF LoadInv
<1> QED  BY <1>1, LoadInvariance, PTL

(* While a module is read it is on the retain stack, however many loads    *)
(* before it were given up.                                                *)
THEOREM BuiltIsRetained == Spec => []ModuleIsRetained
<1>1. LoadInv => ModuleIsRetained  BY DEF LoadInv
<1> QED  BY <1>1, LoadInvariance, PTL
-----------------------------------------------------------------------------
(* What is on the retain stack: a place for each load given up half-way,   *)
(* and one for the module being built.                                     *)
PlacesAreKept == retained = givenUp + (IF Loading THEN 1 ELSE 0)

LEMMA PlacesInit == Init => PlacesAreKept
BY DEF Init, PlacesAreKept, Loading

(* A load given up leaves its place behind; one read to its end does not.  *)
LEMMA FailLeavesPlace ==
    ASSUME LoadInv, PlacesAreKept, Loading, Fail
    PROVE  PlacesAreKept'
<1>1. phase' = "idle" /\ retained' = retained /\ givenUp' = givenUp + 1  BY DEF Fail, Leave
<1>2. retained = givenUp + 1  BY DEF PlacesAreKept
<1> QED  BY <1>1, <1>2 DEF PlacesAreKept, Loading

LEMMA PlacesStep == LoadInv /\ PlacesAreKept /\ [Next]_vars => PlacesAreKept'
<1> SUFFICES ASSUME LoadInv, PlacesAreKept, [Next]_vars PROVE PlacesAreKept'
  OBVIOUS
<1>1. CASE \E n \in Names, f \in Files \cup {NoFile} : LoadModule(n, f)
  <2>1. /\ phase = "idle" /\ givenUp' = givenUp
        /\ \/ phase' = "header" /\ retained' = retained + 1
           \/ phase' = "aborted" /\ retained' = retained
    BY <1>1 DEF LoadModule
  <2>2. retained = givenUp + 0  BY <2>1 DEF PlacesAreKept, Loading
  <2>3. givenUp \in Nat  BY DEF LoadInv, TypeOK
  <2> QED  BY <2>1, <2>2, <2>3 DEF PlacesAreKept, Loading
<1>2. CASE Read /\ Fail
  <2>1. Loading
    BY <1>2
      DEF Loading, Read, ReadHeader, ReadConstant, StartGlobals, ReadGlobal, StartClasses,
          ReadClass, StartFunctions, ReadFunction, Finish
  <2> QED  BY <1>2, <2>1, FailLeavesPlace
<1>3. CASE Finish
  <2>1. /\ phase = "functions" /\ phase' = "idle"
        /\ retained' = retained - 1 /\ givenUp' = givenUp
    BY <1>3 DEF Finish, Leave
  <2>2. retained = givenUp + 1  BY <2>1 DEF PlacesAreKept, Loading
  <2>3. givenUp \in Nat  BY DEF LoadInv, TypeOK
  <2> QED  BY <2>1, <2>2, <2>3 DEF PlacesAreKept, Loading
<1>4. CASE Read /\ ~Fail /\ ~Finish
  <2>1. Loading /\ Loading' /\ UNCHANGED <<retained, givenUp>>
    BY <1>4
      DEF Loading, Read, ReadHeader, ReadConstant, StartGlobals, ReadGlobal, StartClasses,
          ReadClass, StartFunctions, ReadFunction, Section
  <2> QED  BY <2>1 DEF PlacesAreKept
<1>5. CASE Collect \/ UNCHANGED vars
  <2>1. UNCHANGED <<phase, retained, givenUp>>  BY <1>5 DEF Collect, vars
  <2> QED  BY <2>1 DEF PlacesAreKept, Loading
<1> QED  BY <1>1, <1>2, <1>3, <1>4, <1>5 DEF Next, Read

-----------------------------------------------------------------------------
(* Where a load stands in the layout of its file.  The index of the loop   *)
(* over the classes is a byte: with more of them the position is lost, but *)
(* then the loop does not end.                                             *)
Within(j) == j <= Len(Layout[file]) /\ count = Count(file, j)
Placed(j) == i <= Entries(file, j) /\ pos = Layout[file][j][i + 1]

PlaceFollows ==
    /\ phase = "constants" => Within(1) /\ Placed(1)
    /\ phase = "globals"   => Within(2) /\ Placed(2)
    /\ phase = "classes"   => Within(3) /\ i <= 255 /\ (count <= 255 => Placed(3))
    /\ phase = "functions" => Within(4) /\ Placed(4)

(* The name of entry k of a section; a function the load has put in place. *)
NameOf(j, k) == StringAt(file, Layout[file][j][k] + 2)
Called(fs, n, s) == \E f \in fs : /\ f.sig = s /\ f.owner = n
                                  /\ \A g \in fs : g.sig = s => g = f

EntriesAreRegistered ==
    /\ phase = "classes" /\ count <= 255 => \A k \in 1 .. i : NameOf(3, k) \in classes
    /\ phase = "functions" => NamesIn(file, 3) \subseteq classes
    /\ phase = "functions" => \A k \in 1 .. i : Called(functions, name, NameOf(4, k))

CourseInv == PlaceFollows /\ EntriesAreRegistered

-----------------------------------------------------------------------------
LEMMA SectionNames ==
    /\ Sections[1] = "constants" /\ Sections[2] = "globals"
    /\ Sections[3] = "classes" /\ Sections[4] = "functions"
BY DEF Sections

LEMMA LayoutIsShort ==
    ASSUME file \in Files
    PROVE  /\ Len(Layout[file]) \in Nat /\ Len(Layout[file]) <= 4
           /\ HasHeader(file) <=> Len(Layout[file]) >= 1
<1>1. IsLayout(file)  BY LayoutConstants
<1> DEFINE S == Seq(Nat) \ {<<>>}
<1>2. Layout[file] \in Seq(S) /\ Len(Layout[file]) <= 4 /\ (Layout[file] # <<>> <=> HasHeader(file))
  BY <1>1 DEF IsLayout
<1> HIDE DEF S
<1>3. Len(Layout[file]) \in Nat /\ (Layout[file] = <<>> <=> Len(Layout[file]) = 0)
  BY <1>2, LenProperties, EmptySeq
<1> QED  BY <1>2, <1>3

(* What the layout says of one section.                                    *)
LEMMA SectionPlaces ==
    ASSUME file \in Files, NEW j \in 1 .. 4, j <= Len(Layout[file])
    PROVE  /\ Entries(file, j) \in Nat /\ End(file, j) = Layout[file][j][Entries(file, j) + 1]
           /\ \A k \in 0 .. Entries(file, j) : Layout[file][j][k + 1] \in Nat
<1>1. Layout[file] \in Seq(Seq(Nat) \ {<<>>})  BY LayoutConstants DEF IsLayout
<1>2. Layout[file][j] \in Seq(Nat) \ {<<>>}  BY <1>1, LayoutIsShort, ElementOfSeq
<1>3. Len(Layout[file][j]) \in Nat /\ Len(Layout[file][j]) # 0  BY <1>2, LenProperties, EmptySeq
<1>4. \A k \in 1 .. Len(Layout[file][j]) : Layout[file][j][k] \in Nat  BY <1>2, ElementOfSeq
<1> QED  BY <1>3, <1>4 DEF Entries, End

LEMMA SectionFacts ==
    ASSUME file \in Files, NEW j \in 1 .. 4, j <= Len(Layout[file])
    PROVE  /\ Layout[file][j][1] = IF j = 1 THEN 8 ELSE End(file, j - 1) + 2
           /\ Has(file, Layout[file][j][1], 0)
           /\ Entries(file, j) <= Count(file, j)
           /\ \A k \in 1 .. Entries(file, j) :
                 /\ IsEntry(file, Sections[j], Layout[file][j][k])
                 /\ Layout[file][j][k + 1] = EntryEnd(file, Sections[j], Layout[file][j][k])
           /\ j < Len(Layout[file]) => Entries(file, j) = Count(file, j)
           /\ Entries(file, j) # Count(file, j) => ~IsEntry(file, Sections[j], End(file, j))
           /\ j = Len(Layout[file]) /\ Entries(file, j) = Count(file, j)
                => j = 4 \/ ~Has(file, End(file, j), 2)
<1>1. IsLayout(file)  BY LayoutConstants
<1>2. j \in 1 .. Len(Layout[file])  BY LayoutIsShort
<1> QED  BY <1>1, <1>2 DEF IsLayout, Complete

LEMMA CountIsNatural ==
    ASSUME file \in Files, NEW j \in 1 .. 4, j <= Len(Layout[file])
    PROVE  Count(file, j) \in Nat
<1> DEFINE p == Layout[file][j][1] - 2
<1>1. p \in Nat /\ p + 2 = Layout[file][j][1]
  <2>1. CASE j = 1  BY <2>1, SectionFacts
  <2>2. CASE j # 1
    <3>1. j - 1 \in 1 .. 4 /\ j - 1 <= Len(Layout[file])  BY <2>2, LayoutIsShort
    <3>2. Entries(file, j - 1) \in Nat  BY <3>1, SectionPlaces
    <3>3. End(file, j - 1) \in Nat
      <4> DEFINE m == j - 1
      <4>1. m \in 1 .. 4 /\ m <= Len(Layout[file]) /\ Entries(file, m) \in 0 .. Entries(file, m)
        BY <3>1, <3>2
      <4> HIDE DEF m
      <4>2. End(file, m) \in Nat  BY <4>1, SectionPlaces
      <4> QED  BY <4>2 DEF m
    <3>4. Layout[file][j][1] = End(file, j - 1) + 2  BY <2>2, SectionFacts
    <3> QED  BY <3>3, <3>4
  <2> QED  BY <2>1, <2>2
<1>2. Has(file, p + 2, 0)  BY <1>1, SectionFacts
<1>3. Count(file, j) = Unpack16(file, p)  BY DEF Count
<1> HIDE DEF p
<1>4. Has(file, p, 2)  BY <1>1, <1>2, FileIsBytes DEF Has
<1> QED  BY <1>1, <1>3, <1>4, NumbersAreShort

-----------------------------------------------------------------------------
(* An entry that can be read where the load stands is in the layout, and   *)
(* the next one begins where it ends.                                      *)
LEMMA NextEntry ==
    ASSUME LoadInv, NEW j \in 1 .. 4, Within(j), Placed(j), i < count,
           IsEntry(file, Sections[j], pos)
    PROVE  /\ i + 1 <= Entries(file, j)
           /\ Layout[file][j][i + 1] = pos
           /\ Layout[file][j][(i + 1) + 1] = EntryEnd(file, Sections[j], pos)
<1>1. /\ j <= Len(Layout[file]) /\ count = Count(file, j) /\ i <= Entries(file, j)
      /\ pos = Layout[file][j][i + 1]
  BY DEF Within, Placed
<1>2. file \in Files /\ i \in Nat /\ Entries(file, j) \in Nat  BY <1>1, Numbers, SectionPlaces
<1>3. i # Entries(file, j)
  <2>1. SUFFICES ASSUME i = Entries(file, j) PROVE FALSE
    OBVIOUS
  <2>2. pos = End(file, j)  BY <1>1, <1>2, <2>1, SectionPlaces
  <2>3. Entries(file, j) # Count(file, j)  BY <1>1, <1>2, <2>1
  <2> QED  BY <1>1, <1>2, <2>2, <2>3, SectionFacts
<1>4. i + 1 \in 1 .. Entries(file, j)  BY <1>1, <1>2, <1>3
<1> QED  BY <1>1, <1>2, <1>4, SectionFacts

(* Where the next section begins, when there is one.                       *)
LEMMA NextSection ==
    ASSUME LoadInv, NEW j \in 1 .. 3, Within(j), Placed(j), i >= count, Has(file, pos, 2)
    PROVE  /\ i = Entries(file, j)
           /\ j + 1 <= Len(Layout[file])
           /\ Layout[file][j + 1][1] = pos + 2
           /\ Count(file, j + 1) = Unpack16(file, pos)
           /\ Entries(file, j + 1) \in Nat
<1>1. /\ j <= Len(Layout[file]) /\ count = Count(file, j) /\ i <= Entries(file, j)
      /\ pos = Layout[file][j][i + 1] /\ j \in 1 .. 4
  BY DEF Within, Placed
<1>2. /\ file \in Files /\ i \in Nat /\ count \in Nat /\ pos \in Nat
      /\ Entries(file, j) \in Nat /\ Len(Layout[file]) \in Nat
  BY <1>1, Numbers, SectionPlaces, LayoutIsShort
<1>3. Entries(file, j) <= Count(file, j)  BY <1>1, <1>2, SectionFacts
<1>4. i = Entries(file, j) /\ Entries(file, j) = Count(file, j)  BY <1>1, <1>2, <1>3
<1>5. pos = End(file, j)  BY <1>1, <1>2, <1>4, SectionPlaces
<1>6. j # Len(Layout[file])
  <2>1. SUFFICES ASSUME j = Len(Layout[file]) PROVE FALSE
    OBVIOUS
  <2>2. j = 4 \/ ~Has(file, pos, 2)  BY <1>1, <1>2, <1>4, <1>5, <2>1, SectionFacts
  <2> QED  BY <2>2
<1>7. j + 1 <= Len(Layout[file]) /\ j + 1 \in 1 .. 4 /\ j + 1 # 1 /\ (j + 1) - 1 = j
  BY <1>1, <1>2, <1>6
<1>8. Layout[file][j + 1][1] = pos + 2  BY <1>2, <1>5, <1>7, SectionFacts
<1>9. Count(file, j + 1) = Unpack16(file, pos)
  <2>1. (pos + 2) - 2 = pos  BY <1>2
  <2> QED  BY <1>8, <2>1 DEF Count
<1> QED  BY <1>2, <1>4, <1>7, <1>8, <1>9, SectionPlaces
-----------------------------------------------------------------------------
(* Outside the sections there is no place to keep.                         *)
LEMMA OutsideSections ==
    ASSUME phase' \in {"idle", "header", "aborted"}
    PROVE  CourseInv'
BY DEF CourseInv, PlaceFollows, EntriesAreRegistered

LEMMA FailLeavesSections ==
    ASSUME Fail
    PROVE  CourseInv'
<1>1. phase' = "idle"  BY DEF Fail, Leave
<1> QED  BY <1>1, OutsideSections

LEMMA HeaderFollows ==
    ASSUME LoadInv, ReadHeader
    PROVE  CourseInv'
<1>1. CASE ~HasHeader(file)  BY <1>1, FailLeavesSections DEF ReadHeader
<1>2. CASE HasHeader(file)
  <2>1. /\ phase' = "constants" /\ count' = Unpack16(file, 6) /\ pos' = 8 /\ i' = 0
        /\ file' = file
    BY <1>2 DEF ReadHeader
  <2>2. file \in Files /\ 1 <= Len(Layout[file])  BY <1>2, Numbers, LayoutIsShort
  <2>3. Layout[file][1][1] = 8 /\ Entries(file, 1) \in Nat
    BY <2>2, SectionFacts, SectionPlaces
  <2>4. Count(file, 1) = Unpack16(file, 6)
    <3>1. 8 - 2 = 6  OBVIOUS
    <3> QED  BY <2>3, <3>1 DEF Count
  <2>5. Within(1)'  BY <2>1, <2>2, <2>4 DEF Within, Count
  <2>6. Placed(1)'
    <3>1. i' + 1 = 1 /\ i' <= Entries(file, 1)  BY <2>1, <2>3
    <3> QED  BY <2>1, <2>3, <3>1 DEF Placed, Entries
  <2> QED  BY <2>1, <2>5, <2>6 DEF CourseInv, PlaceFollows, EntriesAreRegistered
<1> QED  BY <1>1, <1>2

(* Reading an entry, and going on to the next section, keep the place.     *)
LEMMA EntryFollows ==
    ASSUME LoadInv, NEW j \in 1 .. 4, Within(j), Placed(j), i < count,
           IsEntry(file, Sections[j], pos), pos' = EntryEnd(file, Sections[j], pos),
           i' = i + 1, UNCHANGED <<file, count>>
    PROVE  Within(j)' /\ Placed(j)'
<1>1. i + 1 <= Entries(file, j) /\ Layout[file][j][(i + 1) + 1] = EntryEnd(file, Sections[j], pos)
  BY NextEntry
<1>2. Within(j)'  BY DEF Within, Count
<1>3. Placed(j)'  BY <1>1 DEF Placed, Entries
<1> QED  BY <1>2, <1>3

LEMMA SectionFollows ==
    ASSUME LoadInv, Loading, NEW j \in 1 .. 3, Within(j), Placed(j), i >= count,
           Has(file, pos, 2), NEW next, Section(next)
    PROVE  Within(j + 1)' /\ Placed(j + 1)'
<1>1. count' = Unpack16(file, pos) /\ pos' = pos + 2 /\ i' = 0 /\ file' = file
  BY DEF Section
<1>2. /\ j + 1 <= Len(Layout[file]) /\ Layout[file][j + 1][1] = pos + 2
      /\ Count(file, j + 1) = Unpack16(file, pos) /\ Entries(file, j + 1) \in Nat
  BY NextSection
<1>3. Within(j + 1)'  BY <1>1, <1>2 DEF Within, Count
<1>4. Placed(j + 1)'
  <2>1. i' + 1 = 1 /\ i' <= Entries(file, j + 1)  BY <1>1, <1>2
  <2> QED  BY <1>1, <1>2, <2>1 DEF Placed, Entries
<1> QED  BY <1>3, <1>4

LEMMA ConstantFollows ==
    ASSUME LoadInv, CourseInv, ReadConstant
    PROVE  CourseInv'
<1>1. CASE ~ (IsStringConst(file, pos) \/ IsNumberConst(file, pos))
  BY <1>1, FailLeavesSections DEF ReadConstant
<1>2. CASE IsStringConst(file, pos) \/ IsNumberConst(file, pos)
  <2>1. /\ phase = "constants" /\ phase' = "constants" /\ i < count
        /\ pos' = IF IsNumberConst(file, pos) THEN pos + 9 ELSE StringEnd(file, pos + 1)
        /\ i' = i + 1 /\ UNCHANGED <<file, count>>
    BY <1>2 DEF ReadConstant
  <2>2. IsEntry(file, Sections[1], pos) /\ pos' = EntryEnd(file, Sections[1], pos)
    BY <1>2, <2>1, SectionNames DEF IsEntry, EntryEnd
  <2>3. Within(1) /\ Placed(1)  BY <2>1 DEF CourseInv, PlaceFollows
  <2>4. Within(1)' /\ Placed(1)'  BY <2>1, <2>2, <2>3, EntryFollows
  <2> QED  BY <2>1, <2>4 DEF CourseInv, PlaceFollows, EntriesAreRegistered
<1> QED  BY <1>1, <1>2

LEMMA GlobalFollows ==
    ASSUME LoadInv, CourseInv, ReadGlobal
    PROVE  CourseInv'
<1>1. CASE ~IsGlobal(file, pos)  BY <1>1, FailLeavesSections DEF ReadGlobal
<1>2. CASE IsGlobal(file, pos)
  <2>1. /\ phase = "globals" /\ phase' = "globals" /\ i < count
        /\ pos' = StringEnd(file, pos + 2) /\ i' = i + 1 /\ UNCHANGED <<file, count>>
    BY <1>2 DEF ReadGlobal
  <2>2. IsEntry(file, Sections[2], pos) /\ pos' = EntryEnd(file, Sections[2], pos)
    BY <1>2, <2>1, SectionNames DEF IsEntry, EntryEnd
  <2>3. Within(2) /\ Placed(2)  BY <2>1 DEF CourseInv, PlaceFollows
  <2>4. Within(2)' /\ Placed(2)'  BY <2>1, <2>2, <2>3, EntryFollows
  <2> QED  BY <2>1, <2>4 DEF CourseInv, PlaceFollows, EntriesAreRegistered
<1> QED  BY <1>1, <1>2

LEMMA StartGlobalsFollows ==
    ASSUME LoadInv, CourseInv, StartGlobals
    PROVE  CourseInv'
<1>1. CASE ~Has(file, pos, 2)  BY <1>1, FailLeavesSections DEF StartGlobals
<1>2. CASE Has(file, pos, 2)
  <2>1. phase = "constants" /\ i >= count /\ Section("globals") /\ Loading
    BY <1>2 DEF StartGlobals, Loading
  <2>2. Within(1) /\ Placed(1)  BY <2>1 DEF CourseInv, PlaceFollows
  <2>3. Within(1 + 1)' /\ Placed(1 + 1)'  BY <1>2, <2>1, <2>2, SectionFollows
  <2>4. Within(2)' /\ Placed(2)' /\ phase' = "globals"
    <3>1. 1 + 1 = 2  OBVIOUS
    <3> QED  BY <2>1, <2>3, <3>1 DEF Section
  <2> QED  BY <2>4 DEF CourseInv, PlaceFollows, EntriesAreRegistered
<1> QED  BY <1>1, <1>2

LEMMA StartClassesFollows ==
    ASSUME LoadInv, CourseInv, StartClasses
    PROVE  CourseInv'
<1>1. CASE ~Has(file, pos, 2)  BY <1>1, FailLeavesSections DEF StartClasses
<1>2. CASE Has(file, pos, 2)
  <2>1. phase = "globals" /\ i >= count /\ Section("classes") /\ Loading
    BY <1>2 DEF StartClasses, Loading
  <2>2. Within(2) /\ Placed(2)  BY <2>1 DEF CourseInv, PlaceFollows
  <2>3. Within(2 + 1)' /\ Placed(2 + 1)'  BY <1>2, <2>1, <2>2, SectionFollows
  <2>4. Within(3)' /\ Placed(3)' /\ phase' = "classes" /\ i' = 0
    <3>1. 2 + 1 = 3  OBVIOUS
    <3> QED  BY <2>1, <2>3, <3>1 DEF Section
  <2> QED  BY <2>4 DEF CourseInv, PlaceFollows, EntriesAreRegistered
<1> QED  BY <1>1, <1>2

(* The index goes round when there are more than 255 classes: the loop is  *)
(* then still in this section.                                             *)
LEMMA ClassFollows ==
    ASSUME LoadInv, CourseInv, ReadClass
    PROVE  CourseInv'
<1>1. CASE ~IsClass(file, pos)  BY <1>1, FailLeavesSections DEF ReadClass
<1>2. CASE IsClass(file, pos)
  <2>1. /\ phase = "classes" /\ phase' = "classes" /\ i < count /\ count' = count
        /\ pos' = StringEnd(file, pos + 2) + 2 /\ i' = (i + 1) % 256 /\ file' = file
        /\ classes' = classes \cup {StringAt(file, pos + 2)}
    BY <1>2 DEF ReadClass
  <2>2. IsEntry(file, Sections[3], pos) /\ pos' = EntryEnd(file, Sections[3], pos)
    BY <1>2, <2>1, SectionNames DEF IsEntry, EntryEnd
  <2>3. Within(3) /\ i <= 255 /\ (count <= 255 => Placed(3))
    BY <2>1 DEF CourseInv, PlaceFollows
  <2>4. i' <= 255 /\ (count <= 255 => i' = i + 1)  BY <2>1, Numbers
  <2>5. Within(3)'  BY <2>1, <2>3 DEF Within, Count
  <2>6. ASSUME count <= 255
        PROVE  Placed(3)' /\ \A k \in 1 .. i' : NameOf(3, k)' \in classes'
    <3>1. Placed(3)'  BY <2>1, <2>2, <2>3, <2>4, <2>6, EntryFollows
    <3>2. \A k \in 1 .. i : NameOf(3, k) \in classes
      BY <2>1, <2>6 DEF CourseInv, EntriesAreRegistered
    <3>3. NameOf(3, i + 1) \in classes'  BY <2>1, <2>3, <2>6 DEF Placed, NameOf
    <3>4. ASSUME NEW k \in 1 .. i' PROVE NameOf(3, k)' \in classes'
      <4>1. NameOf(3, k)' = NameOf(3, k)  BY <2>1 DEF NameOf
      <4>2. k \in 1 .. i \/ k = i + 1  BY <2>4, <2>6, <3>4, Numbers
      <4> QED  BY <2>1, <3>2, <3>3, <4>1, <4>2
    <3> QED  BY <3>1, <3>4
  <2> QED  BY <2>1, <2>4, <2>5, <2>6 DEF CourseInv, PlaceFollows, EntriesAreRegistered
<1> QED  BY <1>1, <1>2

(* All classes have been read when the functions start.                    *)
LEMMA StartFunctionsFollows ==
    ASSUME LoadInv, CourseInv, StartFunctions
    PROVE  CourseInv'
<1>1. CASE ~Has(file, pos, 2)  BY <1>1, FailLeavesSections DEF StartFunctions
<1>2. CASE Has(file, pos, 2)
  <2>1. phase = "classes" /\ i >= count /\ Section("functions") /\ Loading
    BY <1>2 DEF StartFunctions, Loading
  <2>2. count <= 255  BY <2>1, Numbers DEF CourseInv, PlaceFollows
  <2>3. Within(3) /\ Placed(3)  BY <2>1, <2>2 DEF CourseInv, PlaceFollows
  <2>4. Within(3 + 1)' /\ Placed(3 + 1)'  BY <1>2, <2>1, <2>3, SectionFollows
  <2>5. /\ Within(4)' /\ Placed(4)' /\ phase' = "functions" /\ i' = 0
        /\ file' = file /\ classes' = classes
    <3>1. 3 + 1 = 4  OBVIOUS
    <3> QED  BY <2>1, <2>4, <3>1 DEF Section, table
  <2>6. i = Entries(file, 3)  BY <1>2, <2>1, <2>3, NextSection
  <2>7. NamesIn(file, 3) \subseteq classes
    BY <2>1, <2>2, <2>6 DEF NamesIn, NameOf, CourseInv, EntriesAreRegistered
  <2>8. (NamesIn(file, 3) \subseteq classes)'  BY <2>5, <2>7 DEF NamesIn, Entries
  <2> QED  BY <2>5, <2>8 DEF CourseInv, PlaceFollows, EntriesAreRegistered
<1> QED  BY <1>1, <1>2

LEMMA FunctionFollows ==
    ASSUME LoadInv, CourseInv, ReadFunction
    PROVE  CourseInv'
<1>1. CASE ~IsFunction(file, pos)  BY <1>1, FailLeavesSections DEF ReadFunction
<1>2. CASE IsFunction(file, pos)
  <2> DEFINE sig == StringAt(file, pos + 2)
  <2> DEFINE fn == [sig |-> sig, owner |-> name, ready |-> module]
  <2>1. /\ phase = "functions" /\ phase' = "functions" /\ i < count /\ i' = i + 1
        /\ pos' = FunctionEnd(file, pos) /\ UNCHANGED <<name, file, count, classes>>
        /\ functions' = {f \in functions : f.sig # sig} \cup {fn}
    BY <1>2 DEF ReadFunction
  <2>2. IsEntry(file, Sections[4], pos) /\ pos' = EntryEnd(file, Sections[4], pos)
    BY <1>2, <2>1, SectionNames DEF IsEntry, EntryEnd
  <2>3. Within(4) /\ Placed(4)  BY <2>1 DEF CourseInv, PlaceFollows
  <2>4. Within(4)' /\ Placed(4)'  BY <2>1, <2>2, <2>3, EntryFollows
  <2>5. NameOf(4, i + 1) = sig  BY <2>3 DEF Placed, NameOf
  <2>6. fn.sig = sig /\ fn.owner = name  OBVIOUS
  <2> HIDE DEF sig, fn
  <2>7. Called(functions', name, sig)
    <3>1. fn \in functions' /\ \A g \in functions' : g.sig = sig => g = fn  BY <2>1
    <3> QED  BY <2>6, <3>1 DEF Called
  <2>8. ASSUME NEW s, Called(functions, name, s), s # sig PROVE Called(functions', name, s)
    <3>1. PICK f \in functions : f.sig = s /\ f.owner = name /\ \A g \in functions : g.sig = s => g = f
      BY <2>8 DEF Called
    <3>2. f \in functions' /\ \A g \in functions' : g.sig = s => g \in functions
      BY <2>1, <2>6, <2>8, <3>1
    <3>3. \A g \in functions' : g.sig = s => g = f  BY <3>1, <3>2
    <3> QED  BY <3>1, <3>2, <3>3 DEF Called
  <2>9. ASSUME NEW k \in 1 .. i' PROVE Called(functions, name, NameOf(4, k))'
    <3>1. NameOf(4, k)' = NameOf(4, k)  BY <2>1 DEF NameOf
    <3>2. k \in 1 .. i \/ k = i + 1  BY <2>1, <2>9, Numbers
    <3>3. Called(functions, name, NameOf(4, k)) \/ NameOf(4, k) = sig
      BY <2>1, <2>5, <3>2 DEF CourseInv, EntriesAreRegistered
    <3>4. Called(functions', name, NameOf(4, k))  BY <2>7, <2>8, <3>3
    <3> QED  BY <2>1, <3>1, <3>4
  <2>10. (NamesIn(file, 3) \subseteq classes)'
    BY <2>1 DEF CourseInv, EntriesAreRegistered, NamesIn, Entries
  <2> QED  BY <2>1, <2>4, <2>9, <2>10 DEF CourseInv, PlaceFollows, EntriesAreRegistered
<1> QED  BY <1>1, <1>2

LEMMA CourseInvInit == Init => CourseInv
BY DEF Init, CourseInv, PlaceFollows, EntriesAreRegistered

LEMMA CourseInvStep == LoadInv /\ CourseInv /\ [Next]_vars => CourseInv'
<1> SUFFICES ASSUME LoadInv, CourseInv, [Next]_vars PROVE CourseInv'
  OBVIOUS
<1>1. CASE \E n \in Names, f \in Files \cup {NoFile} : LoadModule(n, f)
  <2>1. phase' \in {"header", "aborted"}  BY <1>1 DEF LoadModule
  <2> QED  BY <2>1, OutsideSections
<1>2. CASE ReadHeader  BY <1>2, HeaderFollows
<1>3. CASE ReadConstant  BY <1>3, ConstantFollows
<1>4. CASE StartGlobals  BY <1>4, StartGlobalsFollows
<1>5. CASE ReadGlobal  BY <1>5, GlobalFollows
<1>6. CASE StartClasses  BY <1>6, StartClassesFollows
<1>7. CASE ReadClass  BY <1>7, ClassFollows
<1>8. CASE StartFunctions  BY <1>8, StartFunctionsFollows
<1>9. CASE ReadFunction  BY <1>9, FunctionFollows
<1>10. CASE Finish
  <2>1. phase' = "idle"  BY <1>10 DEF Finish, Leave
  <2> QED  BY <2>1, OutsideSections
<1>11. CASE UNCHANGED <<phase, name, file, pos, count, i, functions, classes>>
  BY <1>11
    DEF CourseInv, PlaceFollows, Within, Placed, Count, Entries, EntriesAreRegistered,
        NameOf, NamesIn, Called
<1>12. CASE Collect \/ UNCHANGED vars
  BY <1>11, <1>12 DEF Collect, vars, table
<1> QED
  BY <1>1, <1>2, <1>3, <1>4, <1>5, <1>6, <1>7, <1>8, <1>9, <1>10, <1>12 DEF Next, Read

(* Whatever the file holds, a load stands at an entry of its layout, or    *)
(* counts classes round; what it has passed is registered.                 *)
THEOREM CourseInvariance == Spec => []CourseInv
<1>1. Init => LoadInv /\ CourseInv  BY LoadInvInit, CourseInvInit
<1>2. LoadInv /\ CourseInv /\ [Next]_vars => (LoadInv /\ CourseInv)'
  BY LoadInvStep, CourseInvStep
<1> QED  BY <1>1, <1>2, PTL DEF Spec
-----------------------------------------------------------------------------
(* In a whole file, what comes next can always be read.                    *)
LEMMA WholeFacts ==
    ASSUME file \in Files, Whole(file)
    PROVE  /\ Len(Layout[file]) = 4 /\ HasHeader(file)
           /\ \A j \in 1 .. 4 : Entries(file, j) \in Nat /\ Entries(file, j) = Count(file, j)
<1>1. Len(Layout[file]) = 4 /\ Entries(file, 4) = Count(file, 4)  BY DEF Whole, Complete
<1>2. ASSUME NEW j \in 1 .. 4
      PROVE  Entries(file, j) \in Nat /\ Entries(file, j) = Count(file, j)
  <2>1. j <= Len(Layout[file]) /\ (j = 4 \/ j < Len(Layout[file]))  BY <1>1
  <2> QED  BY <1>1, <2>1, SectionPlaces, SectionFacts
<1> QED  BY <1>1, <1>2, LayoutIsShort

LEMMA WholeHasEntry ==
    ASSUME LoadInv, Whole(file), NEW j \in 1 .. 4, Within(j), Placed(j), i < count
    PROVE  IsEntry(file, Sections[j], pos)
<1>1. i + 1 \in 1 .. Entries(file, j) /\ j <= Len(Layout[file]) /\ file \in Files
  BY Numbers, WholeFacts DEF Within
<1> QED  BY <1>1, SectionFacts DEF Placed

LEMMA WholeGoesOn ==
    ASSUME LoadInv, Whole(file), NEW j \in 1 .. 3, Within(j), Placed(j), i >= count
    PROVE  Has(file, pos, 2)
<1>1. /\ file \in Files /\ pos \in Nat /\ i \in Nat /\ j \in 1 .. 4 /\ j + 1 \in 1 .. 4
      /\ Entries(file, j) \in Nat /\ count = Entries(file, j) /\ Len(Layout[file]) = 4
  BY Numbers, WholeFacts DEF Within
<1>2. pos = End(file, j)
  <2>1. i = Entries(file, j)  BY <1>1 DEF Placed
  <2> QED  BY <1>1, <2>1, SectionPlaces DEF Placed
<1>3. Has(file, pos + 2, 0)
  <2>1. j + 1 # 1 /\ (j + 1) - 1 = j /\ j + 1 <= Len(Layout[file])  BY <1>1
  <2>2. Layout[file][j + 1][1] = pos + 2  BY <1>1, <1>2, <2>1, SectionFacts
  <2>3. Has(file, Layout[file][j + 1][1], 0)  BY <1>1, <2>1, SectionFacts
  <2> QED  BY <2>2, <2>3
<1> QED  BY <1>1, <1>3, FileIsBytes DEF Has

(* No step of the load gives such a file up.                               *)
LEMMA WholeIsNotGivenUp ==
    ASSUME LoadInv, CourseInv, Whole(file), Entries(file, 3) <= 255, Loading, Read,
           phase' = "idle"
    PROVE  Finish
<1>0. file \in Files /\ HasHeader(file)  BY Numbers, WholeFacts
<1>1. CASE ReadHeader  BY <1>0, <1>1 DEF ReadHeader
<1>2. CASE ReadConstant
  <2>1. phase = "constants" /\ i < count  BY <1>2 DEF ReadConstant
  <2>2. Within(1) /\ Placed(1)  BY <2>1 DEF CourseInv, PlaceFollows
  <2>3. IsEntry(file, Sections[1], pos)  BY <2>1, <2>2, WholeHasEntry
  <2>4. phase' = "constants"
    BY <1>2, <2>1, <2>3, SectionNames DEF ReadConstant, IsEntry
  <2> QED  BY <2>4
<1>3. CASE StartGlobals
  <2>1. phase = "constants" /\ i >= count  BY <1>3 DEF StartGlobals
  <2>2. Within(1) /\ Placed(1)  BY <2>1 DEF CourseInv, PlaceFollows
  <2>3. Has(file, pos, 2)  BY <2>1, <2>2, WholeGoesOn
  <2> QED  BY <1>3, <2>3 DEF StartGlobals, Section
<1>4. CASE ReadGlobal
  <2>1. phase = "globals" /\ i < count  BY <1>4 DEF ReadGlobal
  <2>2. Within(2) /\ Placed(2)  BY <2>1 DEF CourseInv, PlaceFollows
  <2>3. IsEntry(file, Sections[2], pos)  BY <2>1, <2>2, WholeHasEntry
  <2>4. phase' = "globals"
    BY <1>4, <2>1, <2>3, SectionNames DEF ReadGlobal, IsEntry
  <2> QED  BY <2>4
<1>5. CASE StartClasses
  <2>1. phase = "globals" /\ i >= count  BY <1>5 DEF StartClasses
  <2>2. Within(2) /\ Placed(2)  BY <2>1 DEF CourseInv, PlaceFollows
  <2>3. Has(file, pos, 2)  BY <2>1, <2>2, WholeGoesOn
  <2> QED  BY <1>5, <2>3 DEF StartClasses, Section
<1>6. CASE ReadClass
  <2>1. phase = "classes" /\ i < count  BY <1>6 DEF ReadClass
  <2>2. Within(3) /\ Placed(3)  BY <1>0, <2>1, WholeFacts DEF CourseInv, PlaceFollows, Within
  <2>3. IsEntry(file, Sections[3], pos)  BY <2>1, <2>2, WholeHasEntry
  <2>4. phase' = "classes"
    BY <1>6, <2>1, <2>3, SectionNames DEF ReadClass, IsEntry
  <2> QED  BY <2>4
<1>7. CASE StartFunctions
  <2>1. phase = "classes" /\ i >= count  BY <1>7 DEF StartFunctions
  <2>2. Within(3) /\ Placed(3)  BY <1>0, <2>1, WholeFacts DEF CourseInv, PlaceFollows, Within
  <2>3. Has(file, pos, 2)  BY <2>1, <2>2, WholeGoesOn
  <2> QED  BY <1>7, <2>3 DEF StartFunctions, Section
<1>8. CASE ReadFunction
  <2>1. phase = "functions" /\ i < count  BY <1>8 DEF ReadFunction
  <2>2. Within(4) /\ Placed(4)  BY <2>1 DEF CourseInv, PlaceFollows
  <2>3. IsEntry(file, Sections[4], pos)  BY <2>1, <2>2, WholeHasEntry
  <2>4. phase' = "functions"
    BY <1>8, <2>1, <2>3, SectionNames DEF ReadFunction, IsEntry
  <2> QED  BY <2>4
<1>9. CASE Finish  BY <1>9
<1> QED  BY <1>1, <1>2, <1>3, <1>4, <1>5, <1>6, <1>7, <1>8, <1>9 DEF Read

(* A file in the format the code reads, with no more classes than the      *)
(* index of their loop can count, is loaded, with collections at any entry *)
(* and whatever was loaded before.  Loads given up before can only have    *)
(* it refused, and only when there were as many as the retain stack has    *)
(* places.                                                                 *)
THEOREM GoodLoads ==
    ASSUME GoodIsWhole
    PROVE  Spec => GoodFilesLoad
<1> DEFINE Room == phase = "idle" /\ phase' = "aborted" => givenUp >= StackSize - 1
<1> DEFINE Step == Loading /\ phase' = "idle" /\ file \in Good => name \in modules'
<1>1. LoadInv /\ PlacesAreKept /\ [Next]_vars => [Room]_vars
  <2> SUFFICES ASSUME LoadInv, PlacesAreKept, Next, phase = "idle", phase' = "aborted"
               PROVE  givenUp >= StackSize - 1
    BY DEF vars
  <2>1. ~Read
    BY DEF Read, ReadHeader, ReadConstant, StartGlobals, ReadGlobal, StartClasses, ReadClass,
           StartFunctions, ReadFunction, Finish
  <2>2. PICK n \in Names, f \in Files \cup {NoFile} : LoadModule(n, f)
    BY <2>1 DEF Next, Collect, Loading
  <2>3. ~(retained < StackSize - 1)  BY <2>2 DEF LoadModule
  <2>4. retained = givenUp + 0  BY DEF PlacesAreKept, Loading
  <2>5. givenUp \in Nat /\ StackSize \in Nat  BY LoaderConstants DEF LoadInv, TypeOK
  <2> QED  BY <2>3, <2>4, <2>5
<1>2. LoadInv /\ CourseInv /\ [Next]_vars => [Step]_vars
  <2> SUFFICES ASSUME LoadInv, CourseInv, Next, Loading, phase' = "idle", file \in Good
               PROVE  name \in modules'
    BY DEF vars
  <2>1. Whole(file) /\ Entries(file, 3) <= 255  BY GoodIsWhole DEF GoodIsWhole
  <2>2. Read
    <3>1. ~\E n \in Names, f \in Files \cup {NoFile} : LoadModule(n, f)
      BY DEF LoadModule, Loading
    <3>2. ~Collect  BY DEF Collect, Loading
    <3> QED  BY <3>1, <3>2 DEF Next
  <2>3. Finish  BY <2>1, <2>2, WholeIsNotGivenUp
  <2> QED  BY <2>3 DEF Finish
<1>3. Init => PlacesAreKept  BY PlacesInit
<1>4. LoadInv /\ PlacesAreKept /\ [Next]_vars => PlacesAreKept'  BY PlacesStep
<1>5. Spec => [](LoadInv /\ PlacesAreKept /\ CourseInv)
  BY <1>3, <1>4, LoadInvariance, CourseInvariance, PTL DEF Spec
<1>6. LoadInv /\ PlacesAreKept /\ CourseInv /\ [Next]_vars => [Room /\ Step]_vars
  BY <1>1, <1>2
<1> QED  BY <1>5, <1>6, PTL DEF Spec, GoodFilesLoad

(* Only a load that has read all its file announces makes a module known;  *)
(* its classes are then registered, and each of its signatures calls the   *)
(* function of this module and no other.                                   *)
THEOREM LoadedIsComplete == Spec => LoadsAreComplete
<1>1. ASSUME LoadInv, CourseInv, Next, modules' # modules
      PROVE  /\ Declares[file].classes \subseteq classes'
             /\ \A s \in Declares[file].functions :
                   \E f \in functions' : f.sig = s /\ f.owner = name
                                           /\ \A g \in functions' : g.sig = s => g = f
  <2>1. Finish
    <3>1. \/ \E n \in Names, f \in Files \cup {NoFile} : LoadModule(n, f)
          \/ Read \/ Collect
      BY <1>1 DEF Next
    <3>2. CASE \E n \in Names, f \in Files \cup {NoFile} : LoadModule(n, f)
      BY <1>1, <3>2 DEF LoadModule, table
    <3>3. CASE Collect  BY <1>1, <3>3 DEF Collect, table
    <3>4. CASE Read
      BY <1>1, <3>4
        DEF Read, ReadHeader, ReadConstant, StartGlobals, ReadGlobal, StartClasses, ReadClass,
            StartFunctions, ReadFunction, Section, Fail, table
    <3> QED  BY <3>1, <3>2, <3>3, <3>4
  <2>2. phase = "functions" /\ i >= count /\ UNCHANGED <<functions, classes>>
    BY <2>1 DEF Finish
  <2>3. Within(4) /\ Placed(4)  BY <1>1, <2>2 DEF CourseInv, PlaceFollows
  <2>4. file \in Files /\ i \in Nat /\ count \in Nat  BY <1>1, Numbers
  <2>5. /\ 4 <= Len(Layout[file]) /\ Len(Layout[file]) \in Nat /\ Len(Layout[file]) <= 4
        /\ Entries(file, 4) \in Nat /\ Entries(file, 4) <= Count(file, 4)
    BY <2>3, <2>4, LayoutIsShort, SectionPlaces, SectionFacts DEF Within
  <2>6. i = Entries(file, 4) /\ Entries(file, 4) = Count(file, 4) /\ Len(Layout[file]) = 4
    <3>1. i <= Entries(file, 4) /\ count = Count(file, 4)  BY <2>3 DEF Within, Placed
    <3>2. i >= count  BY <2>2
    <3>3. i = Entries(file, 4) /\ Entries(file, 4) = Count(file, 4)
      BY <2>4, <2>5, <3>1, <3>2
    <3>4. Len(Layout[file]) = 4
      <4> DEFINE n == Len(Layout[file])
      <4>1. n \in Nat /\ 4 <= n /\ n <= 4  BY <2>5
      <4> HIDE DEF n
      <4>2. n = 4  BY <4>1
      <4> QED  BY <4>2 DEF n
    <3> QED  BY <3>3, <3>4
  <2>7. Whole(file)  BY <2>6 DEF Whole, Complete
  <2>8. Declares[file] = [classes |-> NamesIn(file, 3), functions |-> NamesIn(file, 4)]
    BY <2>4, <2>7, LayoutConstants
  <2>9. NamesIn(file, 3) \subseteq classes
    BY <1>1, <2>2 DEF CourseInv, EntriesAreRegistered
  <2>10. \A s \in NamesIn(file, 4) : Called(functions, name, s)
    BY <1>1, <2>2, <2>6 DEF CourseInv, EntriesAreRegistered, NamesIn, NameOf
  <2> QED  BY <2>2, <2>8, <2>9, <2>10 DEF Called
<1> DEFINE Step ==
      modules' # modules =>
          /\ Declares[file].classes \subseteq classes'
          /\ \A s \in Declares[file].functions :
                \E f \in functions' : f.sig = s /\ f.owner = name
                                        /\ \A g \in functions' : g.sig = s => g = f
<1>2. LoadInv /\ CourseInv /\ [Next]_vars => [Step]_vars
  BY <1>1 DEF vars
<1> QED  BY <1>2, LoadInvariance, CourseInvariance, PTL DEF Spec, LoadsAreComplete
=============================================================================

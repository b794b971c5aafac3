------------------------------ MODULE Analysis ------------------------------
(***************************************************************************)
(* From a parsed program to the end of the compiler: the parser's builders *)
(* make the tree, the passes of the semantic analysis walk it one after    *)
(* the other, and what the analysis and then the context hold is released. *)
(* A program is a tree as Parser builds it.  One step builds one node,     *)
(* visits one node or releases one reference.                              *)
(*                                                                         *)
(* Left out: source ranges, the calls of a traversal that find NULL, and   *)
(* the last pass, which calls a function without a body.                   *)
(***************************************************************************)
EXTENDS Mangling

CONSTANTS Programs,    \* the programs tried
          Hash,        \* of each name
          Capacity,    \* of a new table
          Strings      \* literals that are strings, the others are numbers

ASSUME AnalysisConstants ==
    /\ Capacity \in Nat /\ Capacity > 4      \* a smaller table can be full
    /\ \A name \in DOMAIN Hash : Hash[name] \in Nat

VARIABLES program,     \* the program compiled
          nodes,       \* the nodes allocated so far
          phase,       \* what the compiler is doing
          todo,        \* instructions, nodes to visit or references to release
          stack,       \* nodes and lists the parser has built and not yet used
          root,        \* the root of the context
          types,       \* type table: structures by name
          symbols,     \* symbol table of the global scope: function types by name
          reported     \* names in the errors filed

vars == <<program, nodes, phase, todo, stack, root, types, symbols, reported>>

Table == INSTANCE RCMap

Null == <<"null">>

-----------------------------------------------------------------------------
(* The builders' calls for a program, in postfix order. *)

List(trees) == <<"list", trees>>

Part(kind, name, below) == [kind |-> kind, name |-> name, below |-> below]

(* The node of a tree: its kind, its name and what is below it, in the     *)
(* order of the fields of the node.                                        *)
Parts(tree) ==
    LET kind == tree[1] IN
    CASE kind \in {"module", "block"} -> Part(kind, NoName, <<List(tree[2])>>)
      [] kind = "fun"       -> Part(kind, tree[2], <<tree[4], List(tree[3]), tree[5]>>)
      [] kind = "var"       -> Part(kind, tree[2], <<tree[3]>>)
      [] kind = "type"      -> Part(kind, tree[2], <<tree[3], Null, List(tree[4])>>)
      [] kind = "for"       -> Part(kind, tree[2], <<tree[3], tree[4]>>)
      [] kind \in {"call", "init"} -> Part(kind, NoName, <<tree[2], List(tree[3])>>)
      [] kind = "lambda"    -> Part(kind, NoName, <<List(tree[2]), tree[3]>>)
      [] kind = "unary"     -> Part(kind, tree[2], <<tree[3]>>)
      [] kind = "primitive" -> Part(tree[2], NoName, <<>>)
      [] kind = "functype"  -> Part(kind, NoName, <<tree[3], List(tree[2])>>)
      [] kind \in {"user", "name", "constant"} -> Part(kind, tree[2], <<>>)
      [] OTHER              -> Part(kind, NoName, Tail(tree))

RECURSIVE Code(_)
CodeOf(trees) == FlattenSeq([i \in DOMAIN trees |-> Code(trees[i])])

Code(tree) ==
    CASE tree = Null -> <<[do |-> "null"]>>
      [] tree[1] = "list" ->
            <<[do |-> "list"]>>
            \o FlattenSeq([i \in DOMAIN tree[2] |-> Code(tree[2][i]) \o <<[do |-> "add"]>>])
            \o <<[do |-> "close"]>>
      [] tree[1] = "maybe" -> Code(tree[2]) \o <<[do |-> "maybe"]>>
      [] OTHER -> CodeOf(Parts(tree).below)
                  \o <<[do |-> "make", kind |-> Parts(tree).kind, name |-> Parts(tree).name,
                        below |-> Len(Parts(tree).below)]>>

-----------------------------------------------------------------------------
(* Building the tree.  An entry of the stack is a list; a node is a list   *)
(* of one, NULL the empty list.                                            *)

Building(instruction) == /\ phase = "build" /\ todo # <<>>
                         /\ Head(todo).do = instruction
                         /\ todo' = Tail(todo)
                         /\ UNCHANGED <<program, phase, root, types, symbols, reported>>

Top     == stack[Len(stack)]
Rest(n) == SubSeq(stack, 1, Len(stack) - n)
Lone(id) == [head |-> id, last |-> id]

PushEmpty == /\ Building("null") \/ Building("list")
             /\ stack' = Append(stack, EmptyList)
             /\ UNCHANGED nodes

AddToList == /\ Building("add")
             /\ LET added == ListAdd(nodes, stack[Len(stack) - 1], Top.head)
                IN nodes' = added.nodes /\ stack' = Append(Rest(2), added.list)

CloseList == /\ Building("close")
             /\ nodes' = ListClose(nodes, Top)
             /\ UNCHANGED stack

MakeOptional == /\ Building("maybe")
                /\ nodes' = [nodes EXCEPT ![Top.head].optional = TRUE]
                /\ UNCHANGED stack

MakeNode ==
    /\ Building("make")
    /\ LET below == SubSeq(stack, Len(stack) - Head(todo).below + 1, Len(stack))
           made  == Make(nodes, Head(todo).kind, Head(todo).name,
                         [i \in DOMAIN below |-> below[i].head])
       IN /\ nodes' = made
          /\ stack' = Append(Rest(Len(below)), Lone(Len(made)))

FinishParse ==
    /\ phase = "build" /\ todo = <<>>
    /\ nodes' = Retain(nodes, Top.head)
    /\ root' = Top.head /\ stack' = <<>>
    /\ phase' = "structs" /\ todo' = <<Top.head>>
    /\ UNCHANGED <<program, types, symbols, reported>>

-----------------------------------------------------------------------------
(* The passes, each a traversal of the whole tree from its root. *)

Following == [structs |-> "literals", literals |-> "annotations",
              annotations |-> "functions", functions |-> "deinit"]

(* The kind of node each pass calls its visitor for.                       *)
Filter == [structs |-> "type", literals |-> "constant", annotations |-> "var", functions |-> "fun"]

Here == Head(todo)

Visiting(pass) == /\ phase = pass /\ todo # <<>>
                  /\ nodes[Here].kind = Filter[pass]

(* From the node as the visitor has left it, down and then along its list. *)
Traverse == /\ todo' = Visited(nodes'[Here]) \o Tail(todo)
            /\ UNCHANGED <<program, phase, stack, root>>

Error(name) == reported' = Append(reported, name)

Declared(table, name) == Table!Get(table, name) # NoNode

InstallUserType ==
    /\ Visiting("structs")
    /\ LET name == nodes[Here].name IN
       \/ /\ Declared(types, name)
          /\ Error(name)
          /\ UNCHANGED <<nodes, types>>
       \/ /\ ~Declared(types, name)
          /\ types' = Table!Insert(types, name, Here)
          /\ nodes' = Retain(nodes, Here)
          /\ UNCHANGED reported
    /\ UNCHANGED symbols
    /\ Traverse

ExtractLiteralType ==
    /\ Visiting("literals")
    /\ LET kind == IF nodes[Here].name \in Strings THEN "String" ELSE "Number"
           made == Make(nodes, kind, NoName, <<>>)
       IN nodes' = [Retain(made, Len(made)) EXCEPT ![Here].type = Len(made)]
    /\ UNCHANGED <<types, symbols, reported>>
    /\ Traverse

(* A user type must be declared; the types inside another type need not.   *)
IsUnknown(annotation) ==
    nodes[annotation].kind = "user" /\ ~Declared(types, nodes[annotation].name)

ExtractTypeAnnotation ==
    /\ Visiting("annotations")
    /\ LET annotation == nodes[Here].fields[1] IN
       \/ /\ annotation = NoNode
          /\ UNCHANGED <<nodes, reported>>
       \/ /\ annotation # NoNode /\ IsUnknown(annotation)
          /\ Error(nodes[annotation].name)
          /\ UNCHANGED nodes
       \/ /\ annotation # NoNode /\ ~IsUnknown(annotation)
          /\ nodes' = [Retain(nodes, annotation) EXCEPT ![Here].type = annotation]
          /\ UNCHANGED reported
    /\ UNCHANGED <<types, symbols>>
    /\ Traverse

(* Copies of the types of the parameters; one without a type is passed over. *)
ParamTypes(memory, params) ==
    LET built == FoldLeft(LAMBDA done, param:
                              LET copy == TypeCopy(done.nodes, done.nodes[param].type)
                              IN ListAdd(copy.nodes, done.list, copy.id),
                          [nodes |-> memory, list |-> EmptyList], ListFrom(memory, params))
    IN [nodes |-> ListClose(built.nodes, built.list), head |-> built.list.head]

(* The declared type is shared with the function type, Void is made for    *)
(* the function type.                                                      *)
ReturnType(func) ==
    IF func.fields[1] # NoNode THEN [nodes |-> nodes, id |-> func.fields[1]]
    ELSE [nodes |-> Make(nodes, "Void", NoName, <<>>), id |-> Len(nodes) + 1]

(* Mistake: the type is in the table without being retained for it.        *)
FunctionTypedOnce(made, id) == [Retain(made, Len(made)) EXCEPT ![id].type = Len(made)]

(* The new function type is retained for the function and for the table.   *)
FunctionTyped(made, id) ==
    [Retain(Retain(made, Len(made)), Len(made)) EXCEPT ![id].type = Len(made)]

ExtractFuncType ==
    /\ Visiting("functions")
    /\ LET func   == nodes[Here]
           return == ReturnType(func)
           params == ParamTypes(return.nodes, func.fields[2])
           made   == Make(params.nodes, "functype", NoName, <<return.id, params.head>>)
           typed  == FunctionTyped(made, Here)
       IN /\ nodes' = [typed EXCEPT ![Here].mangled = MangleFuncName(typed, Here)]
          /\ symbols' = Table!Insert(symbols, func.name, Len(made))
    /\ UNCHANGED <<types, reported>>
    /\ Traverse

PassBy ==
    /\ phase \in DOMAIN Filter /\ todo # <<>>
    /\ nodes[Here].kind # Filter[phase]
    /\ UNCHANGED <<nodes, types, symbols, reported>>
    /\ Traverse

NextPass ==
    /\ phase \in DOMAIN Filter /\ todo = <<>>
    /\ phase' = Following[phase]
    /\ todo' = IF phase' = "deinit" THEN Table!Values(types) \o Table!Values(symbols)
               ELSE <<root>>
    /\ UNCHANGED <<program, nodes, stack, root, types, symbols, reported>>

-----------------------------------------------------------------------------
(* Releasing: the two tables of the analysis, then the root of the context. *)

Release ==
    /\ phase \in {"deinit", "release"} /\ todo # <<>>
    /\ nodes[Here].live
    /\ LET left == (nodes[Here].count - 1) % CountLimit IN
       /\ nodes' = [nodes EXCEPT ![Here].count = left, ![Here].live = left # 0]
       /\ todo' = (IF left = 0 THEN Released(nodes[Here]) ELSE <<>>) \o Tail(todo)
    /\ UNCHANGED <<program, phase, stack, root, types, symbols, reported>>

ReleaseRoot ==
    /\ phase = "deinit" /\ todo = <<>>
    /\ phase' = "release"
    /\ todo' = <<root>>
    /\ UNCHANGED <<program, nodes, stack, root, types, symbols, reported>>

Finish ==
    /\ phase = "release" /\ todo = <<>>
    /\ phase' = "done"
    /\ UNCHANGED <<program, nodes, todo, stack, root, types, symbols, reported>>

(* The one state in which there is nothing left to do.                     *)
Terminated == phase = "done" /\ UNCHANGED vars

Init ==
    /\ program \in Programs
    /\ nodes = <<>>
    /\ phase = "build"
    /\ todo = Code(program)
    /\ stack = <<>>
    /\ root = NoNode
    /\ types = Table!RCMapInit(Capacity)
    /\ symbols = Table!RCMapInit(Capacity)
    /\ reported = <<>>

Next == \/ PushEmpty \/ AddToList \/ CloseList \/ MakeOptional \/ MakeNode \/ FinishParse
        \/ InstallUserType \/ ExtractLiteralType \/ ExtractTypeAnnotation \/ ExtractFuncType
        \/ PassBy \/ NextPass \/ Release \/ ReleaseRoot \/ Finish \/ Terminated

Spec == Init /\ [][Next]_vars

-----------------------------------------------------------------------------
(* What a tree in memory and a program say, to be compared. *)

RECURSIVE Shape(_)
Shapes(head) == LET ids == ListFrom(nodes, head) IN [i \in DOMAIN ids |-> Shape(ids[i])]

Shape(id) ==
    LET node == nodes[id]
    IN [kind |-> node.kind, name |-> node.name, optional |-> node.optional,
        below |-> [f \in DOMAIN node.fields |-> Shapes(node.fields[f])]]

Stripped(tree) == IF tree[1] = "maybe" THEN tree[2] ELSE tree

RECURSIVE ShapesOf(_)
ShapesOf(tree) ==
    CASE tree = Null       -> <<>>
      [] tree[1] = "list"  -> FlattenSeq([i \in DOMAIN tree[2] |-> ShapesOf(tree[2][i])])
      [] OTHER ->
            LET parts == Parts(Stripped(tree))
            IN <<[kind |-> parts.kind, name |-> parts.name, optional |-> tree[1] = "maybe",
                  below |-> [i \in DOMAIN parts.below |-> ShapesOf(parts.below[i])]]>>

RECURSIVE Preorder(_)
Preorder(tree) ==
    LET all(trees) == FlattenSeq([i \in DOMAIN trees |-> Preorder(trees[i])]) IN
    CASE tree = Null      -> <<>>
      [] tree[1] = "list" -> all(tree[2])
      [] OTHER            -> <<Stripped(tree)>> \o all(Parts(Stripped(tree)).below)

Declarations(kind) == SelectSeq(Preorder(program), LAMBDA tree: tree[1] = kind)
Named(kind, name)  == SelectSeq(Declarations(kind), LAMBDA tree: tree[2] = name)

Unknown(annotation) ==
    /\ annotation # Null
    /\ Stripped(annotation)[1] = "user"
    /\ Named("type", Stripped(annotation)[2]) = <<>>

TypedParams(func) ==
    SelectSeq(func[3], LAMBDA param: param[3] # Null /\ ~Unknown(param[3]))

FuncTypeOf(func) ==
    LET params == TypedParams(func)
    IN <<"functype", [i \in DOMAIN params |-> params[i][3]],
         IF func[4] = Null THEN <<"primitive", "Void">> ELSE func[4]>>

RECURSIVE WordsOf(_)
Joined(args) == FlattenSeq([i \in DOMAIN args |->
                                (IF i > 1 THEN <<", ">> ELSE <<>>) \o WordsOf(args[i])])
WordsOf(annotation) ==
    LET type == Stripped(annotation) IN
    CASE type[1] = "primitive" -> <<type[2]>>
      [] type[1] = "user"      -> Spelling[type[2]]
      [] type[1] = "array"     -> <<"Array[">> \o WordsOf(type[2]) \o <<"]">>
      [] type[1] = "map"       -> <<"Map[">> \o Joined(Tail(type)) \o <<"]">>
      [] type[1] = "functype"  -> <<"(">> \o Joined(type[2]) \o <<") -> ">> \o WordsOf(type[3])

(* What orbitc is known to lose: what is below a lambda, the arguments of  *)
(* an init expression, the type of a function whose name is declared again. *)
Leaks ==
    \/ Declarations("lambda") # <<>>
    \/ \E init \in Range(Declarations("init")) : init[3] # <<>>
    \/ \E func \in Range(Declarations("fun")) : Len(Named("fun", func[2])) > 1

Analysed == phase = "functions" /\ todo = <<>>

-----------------------------------------------------------------------------
(* The analysis takes copies of types and shares others, links them into   *)
(* lists of its own and releases them: the tree is still the program when  *)
(* it is through, for what comes next to print or to compile.              *)
TreeIsKept ==
    phase \in DOMAIN Filter \union {"deinit"} => Shapes(root) = ShapesOf(program)

(* No reference anybody still has, a node in memory, a table, the context, *)
(* the parser or a release under way, is to a node already freed: a node   *)
(* is owned from several sides, and each of them retains it.               *)
NothingInUseIsReleased ==
    LET held(id) == Range(Released(nodes[id]))
        tables   == Range(Table!Values(types)) \union Range(Table!Values(symbols))
        alive(ids) == \A id \in ids \ {NoNode} : nodes[id].live
    IN /\ \A id \in DOMAIN nodes : nodes[id].live => alive(held(id))
       /\ alive({stack[i].head : i \in DOMAIN stack})
       /\ phase \in DOMAIN Filter => alive(tables \union Range(todo) \union {root})
       /\ phase = "deinit" => alive(Range(todo) \union {root})
       /\ phase = "release" => alive(Range(todo))

(* The type table has, under each name, the first structure declared with  *)
(* it, and the symbol table the type of the last function: whatever the    *)
(* order of declarations and uses, and however often the tables have grown. *)
TablesHoldTheDeclarations ==
    Analysed => \A name \in DOMAIN Hash :
        LET structs == Named("type", name)
            funcs   == Named("fun", name)
            found(table) == IF Declared(table, name) THEN <<Shape(Table!Get(table, name))>>
                            ELSE <<>>
        IN /\ found(types) = IF structs = <<>> THEN <<>> ELSE ShapesOf(structs[1])
           /\ found(symbols) =
                  IF funcs = <<>> THEN <<>> ELSE ShapesOf(FuncTypeOf(Last(funcs)))

(* The mangled name of a function, demangled, is its signature: names and  *)
(* types of any depth are told apart without a separator between them.     *)
DemanglingGivesTheSignature ==
    Analysed => \A func \in Range(Declarations("fun")) :
        LET signature == Spelling[func[2]] \o WordsOf(FuncTypeOf(func))
        IN \E id \in DOMAIN nodes :
               /\ nodes[id].kind = "fun" /\ <<Shape(id)>> = ShapesOf(func)
               /\ Demangle(nodes[id].mangled).out = signature
               /\ ~Demangle(nodes[id].mangled).failed

(* One error for each structure declared before and one for each           *)
(* annotation that names no structure, in the order of the text, and no    *)
(* other: a structure may be used above its declaration.                   *)
MistakesAreReported ==
    LET structs  == Declarations("type")
        repeated == SelectSeq([i \in DOMAIN structs |->
                                  [name |-> structs[i][2],
                                   again |-> \E j \in 1..(i - 1) : structs[j][2] = structs[i][2]]],
                              LAMBDA struct: struct.again)
        unknown  == SelectSeq(Declarations("var"), LAMBDA var: Unknown(var[3]))
    IN Analysed => reported = [i \in DOMAIN repeated |-> repeated[i].name]
                              \o [i \in DOMAIN unknown |-> Stripped(unknown[i][3])[2]]

(* When the compiler is through no node is left, of the tree or made by    *)
(* the passes, for a program without the constructs known to lose some.    *)
(* Nodes only: the slots of the tables are never freed.                    *)
EverythingIsFreed ==
    (phase = "done" /\ ~Leaks) => \A id \in DOMAIN nodes : ~nodes[id].live
=============================================================================

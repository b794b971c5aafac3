------------------------------- MODULE Parser -------------------------------
(***************************************************************************)
(* The recursive-descent parser.  The C recognizers call each other; what  *)
(* is left to do in all the calls under way is here one sequence, todo, of *)
(* small instructions, and what they have built so far is the stack vals.  *)
(* A recognizer is the sequence of instructions its body stands for, and a *)
(* step executes the first instruction of todo.                            *)
(*                                                                         *)
(* Nodes of the syntax tree are tuples <<kind, child, ...>>, a list of     *)
(* nodes is a sequence (the empty one is also the NULL list), and Null is  *)
(* the node that is missing; a list being built or a token remembered is   *)
(* tagged as such on the stack.  Source ranges and interned names are left *)
(* out.                                                                    *)
(***************************************************************************)
EXTENDS Tokens, Sequences

CONSTANTS Sources,     \* the texts tried: records [text, tree, typo]
          MaxDiags     \* room of the diagnostics manager

(* A text begins and ends with a token, the last one is the end of file.   *)
ASSUME ParserConstants ==
    /\ MaxDiags \in Nat \ {0}
    /\ \A s \in Sources :
          /\ Len(s.text) \in Nat \ {0} /\ DOMAIN s.text = 1..Len(s.text)
          /\ s.text[1] # "\n"
          /\ s.text[Len(s.text)] # "\n" /\ Kind(s.text[Len(s.text)]) = "eof"

VARIABLES source,      \* the text being parsed, tokens and line starts
          pos,         \* index in the text of the current token
          recovering,  \* an expected token was missing, resynchronising
          todo,        \* instructions left to execute
          vals,        \* nodes and symbols built and not yet used
          diags,       \* errors reported so far
          status,      \* "running", "done", "crashed" or "aborted"
          overwritten  \* history: the initialisers that a later one replaced

control == <<pos, todo, status>>      \* every step changes one of these
vars    == <<source, recovering, vals, diags, overwritten, control>>

Null    == <<"null">>
NewLine == "\n"        \* in a text: the next token starts a line

-----------------------------------------------------------------------------
(* Classes of tokens the recognizers look for. *)

Conditionals == {"if", "for", "while"}
Terms        == UnaryOps \union {"\\", "(", "identifier", "literal"}
Primitives   == {"Number", "Bool", "String", "Void", "Any"}
PrimitiveStarts == Primitives \union {"Nil"}
TypeStarts   == PrimitiveStarts \union {"maybe", "(", "Array", "Map", "identifier"}
Statements   == Terms \union Conditionals \union {"return", "break", "continue", "{"}

-----------------------------------------------------------------------------
(* Instructions, each a sequence of one so that bodies are concatenations. *)

ExpectAny(kinds) == <<[do |-> "expect", kinds |-> kinds]>>
Expect(kind)     == ExpectAny({kind})
Terminator       == <<[do |-> "terminator"]>>
Symbol           == <<[do |-> "symbol"]>>           \* remember the current token
Take             == <<[do |-> "take"]>>             \* go past it, whatever it is
Push(value)      == <<[do |-> "push", value |-> value]>>
Add              == <<[do |-> "add"]>>              \* top node to the list below
SetInit          == <<[do |-> "init"]>>
Make(kind, n)    == <<[do |-> "make", kind |-> kind, children |-> n]>>
Report           == <<[do |-> "report"]>>           \* and go on without the node
Rec(name)        == <<[do |-> "call", name |-> name]>>
Climb(prec)      == <<[do |-> "climb", prec |-> prec]>>
When(kinds, then, else) ==
    <<[do |-> "when", kinds |-> kinds, then |-> then, else |-> else]>>

NewList == Push(<<"list", <<>>>>)
More(item, name) == When({","}, Take \o item \o Add \o Rec(name), <<>>)
Then(name, loop) == Rec(name) \o Add \o Terminator \o Rec(loop)

-----------------------------------------------------------------------------
(* Recognizers: types. *)

RecType == When({"maybe"}, Take \o Rec("Typename") \o Make("maybe", 1),
                Rec("Typename") \o Make("required", 1))

RecPrimitive == When(Primitives, Symbol \o ExpectAny(Primitives) \o Make("primitive", 1),
                     Report)

RecFuncType == Expect("(") \o NewList
               \o When(TypeStarts, RecType \o Add \o Rec("MoreTypes"), <<>>)
               \o Expect(")") \o Expect("->") \o RecType \o Make("functype", 2)

RecArrayType == Expect("Array") \o Expect("[") \o RecType \o Expect("]") \o Make("array", 1)

RecMapType == Expect("Map") \o Expect("[") \o Rec("Primitive") \o Expect(":")
              \o RecType \o Expect("]") \o Make("map", 2)

RecTypename ==
    When(PrimitiveStarts, Rec("Primitive"),
    When({"("}, Rec("FuncType"),
    When({"Array"}, Rec("ArrayType"),
    When({"Map"}, Rec("MapType"),
    When({"identifier"}, Symbol \o Expect("identifier") \o Make("user", 1),
         Report)))))

-----------------------------------------------------------------------------
(* Recognizers: expressions. *)

RecExpression(minPrec) == Rec("Term") \o Climb(minPrec)

RecName == Symbol \o Expect("identifier") \o Make("name", 1)

RecExprList == NewList \o RecExpression(0) \o Add \o Rec("MoreExpressions")

RecFuncCall == When(Terms, RecExprList, NewList) \o Expect(")")

RecFieldAccess == Symbol \o Expect("identifier") \o Make("name", 1)

RecSubscript == RecExpression(0) \o Expect("]")

RecInitExpr == Expect("init") \o Rec("Typename")
               \o When({"("}, Take \o RecExprList \o Expect(")"), NewList)
               \o Make("init", 2)

RecLambda == Expect("\\") \o NewList \o RecName \o Add \o Rec("MoreNames")
             \o Expect("->") \o RecExpression(0) \o Make("lambda", 2)

RecOperand ==
    When({"("}, Take \o RecExpression(0) \o Expect(")"),
    When({"\\"}, RecLambda,
    When({"init"}, RecInitExpr,
    When({"identifier"}, RecName,
    When({"literal"}, Symbol \o Take \o Make("constant", 1),
         Report)))))

RecTerm == When(UnaryOps, Symbol \o Take \o RecOperand \o Make("unary", 2), RecOperand)

(* One turn of the precedence climbing loop, at a binary operator.  A then *)
(* operator makes a call of what follows it, with what it follows.         *)
Operation(op) ==
    LET next == IF RightAssoc(op) THEN Precedence(op) ELSE Precedence(op) + 1 IN
    CASE op = "("  -> RecFuncCall \o Make("call", 2)
      [] op = "["  -> RecSubscript \o Make("index", 2)
      [] op = "."  -> RecFieldAccess \o Make(".", 2)
      [] op = "=>" -> RecExpression(next) \o Make("apply", 2)
      [] OTHER     -> RecExpression(next) \o Make(op, 2)

-----------------------------------------------------------------------------
(* Recognizers: statements. *)

RecBlock == NewList \o Expect("{") \o Rec("BlockItems") \o Expect("}") \o Make("block", 1)

BlockItems == When({"var"}, Then("VarDecl", "BlockItems"),
              When({"fun"}, Then("FuncDecl", "BlockItems"),
              When(Statements, Then("Statement", "BlockItems"), <<>>)))

RecIfStatement ==
    Expect("if") \o RecExpression(0) \o Rec("Block")
    \o When({"else"}, Take \o When({"{"}, Rec("Block"),
                              When({"if"}, Rec("IfStatement"), Report)),
            Push(Null))
    \o Make("if", 3)

RecWhileLoop == Expect("while") \o RecExpression(0) \o Rec("Block") \o Make("while", 2)

RecForLoop == Expect("for") \o Symbol \o Expect("identifier") \o Expect("in")
              \o RecExpression(0) \o Rec("Block") \o Make("for", 3)

RecConditional == When({"if"}, Rec("IfStatement"),
                  When({"while"}, RecWhileLoop,
                  When({"for"}, RecForLoop, Report)))

RecFlowStatement == When({"break"}, Take \o Make("break", 0),
                    When({"continue"}, Take \o Make("continue", 0), Report))

RecReturnStatement == Expect("return")
                      \o When(Terms, RecExpression(0), Push(Null)) \o Make("return", 1)

RecStatement == When(Conditionals, RecConditional,
                When(Terms, RecExpression(0),
                When({"return"}, RecReturnStatement,
                When({"break", "continue"}, RecFlowStatement,
                When({"{"}, Rec("Block"), Report)))))

-----------------------------------------------------------------------------
(* Recognizers: declarations. *)

RecVarDecl == Expect("var") \o Symbol \o Expect("identifier")
              \o When({":"}, Take \o RecType, Push(Null)) \o Make("var", 2)
              \o When({"="}, Take \o RecExpression(0) \o Make("=", 2), <<>>)

Parameter == Symbol \o Expect("identifier") \o Expect(":") \o RecType \o Make("var", 2)
RecParameters == Parameter \o Add \o When({","}, Take \o Rec("Parameters"), <<>>)

RecFuncLiteral ==
    When({"("}, Take \o NewList \o When({"identifier"}, Rec("Parameters"), <<>>) \o Expect(")"),
         NewList)
    \o When({"->"}, Take \o RecType, Push(Null)) \o Rec("Block") \o Make("fun", 4)

RecFuncDecl == Expect("fun") \o Symbol \o Expect("identifier") \o Expect("=")
               \o RecFuncLiteral

RecTypeInitDecl == Expect("init") \o Rec("Block")

(* A do-while loop: the first turn is taken whatever the token is.         *)
TypeMembers == When({"var"}, Rec("VarDecl") \o Add,
               When({"init"}, RecTypeInitDecl \o SetInit, <<>>))
               \o Terminator
               \o When({"var", "init"}, Rec("TypeMembers"), <<>>)

RecTypeDecl == Expect("type") \o Symbol \o Expect("identifier") \o Push(Null) \o NewList
               \o Expect("{") \o Rec("TypeMembers") \o Expect("}") \o Make("type", 3)

ProgramItems == When({"var"}, Then("VarDecl", "ProgramItems"),
                When({"type"}, Then("TypeDecl", "ProgramItems"),
                When({"fun"}, Then("FuncDecl", "ProgramItems"),
                When(Statements, Then("Statement", "ProgramItems"), <<>>))))

RecProgram == NewList \o Rec("ProgramItems") \o Expect("eof") \o Make("module", 1)

(* The recognizers that call themselves, directly or through others, go by name. *)
Body(name) ==
    CASE name = "Program"         -> RecProgram
      [] name = "ProgramItems"    -> ProgramItems
      [] name = "TypeDecl"        -> RecTypeDecl
      [] name = "TypeMembers"     -> TypeMembers
      [] name = "VarDecl"         -> RecVarDecl
      [] name = "FuncDecl"        -> RecFuncDecl
      [] name = "Parameters"      -> RecParameters
      [] name = "Block"           -> RecBlock
      [] name = "BlockItems"      -> BlockItems
      [] name = "Statement"       -> RecStatement
      [] name = "IfStatement"     -> RecIfStatement
      [] name = "Term"            -> RecTerm
      [] name = "MoreExpressions" -> More(RecExpression(0), name)
      [] name = "MoreNames"       -> More(RecName, name)
      [] name = "Typename"        -> RecTypename
      [] name = "Primitive"       -> RecPrimitive
      [] name = "FuncType"        -> RecFuncType
      [] name = "ArrayType"       -> RecArrayType
      [] name = "MapType"         -> RecMapType
      [] name = "MoreTypes"       -> More(RecType, name)

-----------------------------------------------------------------------------
(* Nodes. *)

(* The children the builder of a node reads without asking if they exist.  *)
Dereferenced(kind) == CASE kind \in {"maybe", "required", "call"} -> {1}
                        [] kind \in {"unary", "apply"}            -> {2}
                        [] kind = "index"                         -> {1, 2}
                        [] OTHER                                  -> {}

Node(kind, children) ==
    CASE kind = "required" -> children[1]
      [] kind = "apply"    -> <<"call", children[2],
                                IF children[1] = Null THEN <<>> ELSE <<children[1]>>>>
      [] OTHER             -> <<kind>> \o children

(* Mistake: the builder's next pointer stays at the head.                  *)
ListReplace(list, item) == IF item = Null THEN list ELSE <<"list", <<item>>>>

ListAdd(list, item) == IF item = Null THEN list ELSE <<"list", Append(list[2], item)>>

(* What a node keeps of a value: the token, the first item of the list.    *)
Stored(value) == IF value[1] \in {"symbol", "list"} THEN value[2] ELSE value

-----------------------------------------------------------------------------
Text    == source.text
Current == Kind(Text[pos])

IsStartOfLine      == pos = 1 \/ Text[pos - 1] = NewLine
ImplicitTerminator == IsStartOfLine \/ Current \in {"eof", "}"}

(* The lexer answers the end of the file for ever once it is there.        *)
NextPos == IF Current = "eof" THEN pos
           ELSE CHOOSE p \in (pos + 1)..Len(Text) :
                    Text[p] # NewLine /\ \A q \in (pos + 1)..(p - 1) : Text[q] = NewLine

NextToken == pos' = NextPos

Doing(instruction) == /\ status = "running"
                      /\ todo # <<>>
                      /\ Head(todo).do = instruction

Continue(items) == todo' = items \o Tail(todo)

(* diagNew asserts that the diagnostics manager has room.                  *)
FileError == IF diags < MaxDiags THEN diags' = diags + 1 /\ UNCHANGED status
                                 ELSE status' = "aborted" /\ UNCHANGED diags

-----------------------------------------------------------------------------
(* Mistake: skipping without looking for the end of the file.              *)
SkippingPastTheEnd(kinds) == recovering /\ Current \notin kinds

(* A recovering parser skips to the token it wants, or to the end.         *)
Skipping(kinds) == recovering /\ Current \notin kinds /\ Current # "eof"

ExpectStep ==
    /\ Doing("expect")
    /\ UNCHANGED <<source, overwritten, vals>>
    /\ LET found == Current \in Head(todo).kinds IN
       \/ /\ Skipping(Head(todo).kinds)
          /\ NextToken
          /\ UNCHANGED <<recovering, todo, diags, status>>
       \/ /\ recovering /\ Current = "eof" /\ ~Skipping(Head(todo).kinds)
          /\ Continue(<<>>)
          /\ UNCHANGED <<pos, recovering, diags, status>>
       \/ /\ found /\ (recovering => Current # "eof")
          /\ NextToken
          /\ recovering' = FALSE
          /\ Continue(<<>>)
          /\ UNCHANGED <<diags, status>>
       \/ /\ ~recovering /\ ~found
          /\ FileError
          /\ recovering' = TRUE
          /\ Continue(<<>>)
          /\ UNCHANGED pos

ExpectTerminator ==
    /\ Doing("terminator")
    /\ UNCHANGED <<source, overwritten, vals>>
    /\ LET found == Current = ";" \/ ImplicitTerminator IN
       \/ /\ recovering /\ ~found
          /\ NextToken
          /\ UNCHANGED <<recovering, todo, diags, status>>
       \/ /\ recovering /\ Current = "eof"
          /\ Continue(<<>>)
          /\ UNCHANGED <<pos, recovering, diags, status>>
       \/ /\ found /\ (recovering => Current # "eof")
          /\ pos' = IF Current = ";" THEN NextPos ELSE pos
          /\ recovering' = FALSE
          /\ Continue(<<>>)
          /\ UNCHANGED <<diags, status>>
       \/ /\ ~recovering /\ ~found
          /\ FileError
          /\ Continue(<<>>)
          /\ UNCHANGED <<pos, recovering>>

TakeStep ==
    /\ Doing("take")
    /\ NextToken
    /\ Continue(<<>>)
    /\ UNCHANGED <<source, overwritten, recovering, vals, diags, status>>

WhenStep ==
    /\ Doing("when")
    /\ Continue(IF Current \in Head(todo).kinds THEN Head(todo).then ELSE Head(todo).else)
    /\ UNCHANGED <<source, overwritten, pos, recovering, vals, diags, status>>

CallStep ==
    /\ Doing("call")
    /\ Continue(Body(Head(todo).name))
    /\ UNCHANGED <<source, overwritten, pos, recovering, vals, diags, status>>

(* Mistake: an operator of the very level asked for ends the loop.         *)
ClimbsAbove(minPrec) == Current \in BinaryOps /\ Precedence(Current) > minPrec

Climbs(minPrec) == Current \in BinaryOps /\ Precedence(Current) >= minPrec

ClimbStep ==
    /\ Doing("climb")
    /\ \/ /\ Climbs(Head(todo).prec)
          /\ NextToken
          /\ todo' = Operation(Current) \o todo
       \/ /\ ~Climbs(Head(todo).prec)
          /\ Continue(<<>>)
          /\ UNCHANGED pos
    /\ UNCHANGED <<source, overwritten, recovering, vals, diags, status>>

ReportStep ==
    /\ Doing("report")
    /\ FileError
    /\ vals' = Append(vals, Null)
    /\ Continue(<<>>)
    /\ UNCHANGED <<source, overwritten, pos, recovering>>

(* Steps that only move values.  A second initialiser of a type takes the  *)
(* place of the first, and nothing is reported.                            *)
ValueStep ==
    /\ \/ /\ Doing("push")
          /\ vals' = Append(vals, Head(todo).value)
          /\ UNCHANGED overwritten
       \/ /\ Doing("symbol")
          /\ vals' = Append(vals, <<"symbol", Text[pos]>>)
          /\ UNCHANGED overwritten
       \/ /\ Doing("add")
          /\ LET n == Len(vals) IN
             vals' = SubSeq(vals, 1, n - 2) \o <<ListAdd(vals[n - 1], vals[n])>>
          /\ UNCHANGED overwritten
       \/ /\ Doing("init")
          /\ LET n == Len(vals) IN
             /\ vals' = SubSeq(vals, 1, n - 3) \o <<vals[n], vals[n - 1]>>
             /\ overwritten' = IF vals[n - 2] = Null THEN overwritten
                                                     ELSE Append(overwritten, vals[n - 2])
    /\ Continue(<<>>)
    /\ UNCHANGED <<source, pos, recovering, diags, status>>

MakeStep ==
    /\ Doing("make")
    /\ LET kept     == Len(vals) - Head(todo).children
           kind     == Head(todo).kind
           children == [i \in 1..Head(todo).children |-> Stored(vals[kept + i])]
       IN IF \E i \in Dereferenced(kind) : children[i] = Null
          THEN /\ status' = "crashed"
               /\ UNCHANGED <<todo, vals>>
          ELSE /\ Continue(<<>>)
               /\ vals' = SubSeq(vals, 1, kept) \o <<Node(kind, children)>>
               /\ UNCHANGED status
    /\ UNCHANGED <<source, overwritten, pos, recovering, diags>>

Finish ==
    /\ status = "running" /\ todo = <<>>
    /\ status' = "done"
    /\ UNCHANGED <<source, overwritten, pos, recovering, todo, vals, diags>>

Init ==
    /\ source \in Sources
    /\ pos = 1
    /\ recovering = FALSE
    /\ todo = Rec("Program")
    /\ vals = <<>>
    /\ diags = 0
    /\ status = "running"
    /\ overwritten = <<>>

Next == \/ ExpectStep \/ ExpectTerminator \/ TakeStep \/ WhenStep \/ CallStep
        \/ ClimbStep \/ ReportStep \/ ValueStep \/ MakeStep \/ Finish

(* The parser is a function that runs until it returns.                    *)
Spec == Init /\ [][Next]_vars /\ WF_control(Next)

Root == vals[1]

-----------------------------------------------------------------------------
(* The parser looks at tokens of its text and at nothing behind them,      *)
(* however far a recovery skips.                                           *)
ReadsInsideText == pos \in DOMAIN Text /\ Text[pos] # NewLine

(* Without an error reported, no builder is given a missing node, and a    *)
(* parse that ends has read its text to the end and built one module.      *)
SilentEndsAreClean ==
    diags = 0 => /\ status # "crashed"
                 /\ status = "done" => /\ ~recovering /\ Current = "eof"
                                      /\ Len(vals) = 1 /\ Root[1] = "module"
=============================================================================

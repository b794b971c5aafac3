------------------------------ MODULE Grammar -------------------------------
(***************************************************************************)
(* What the parser is checked against: how a syntax tree is written as     *)
(* text, with the parentheses the precedence of the operators calls for,   *)
(* and which tokens a tree must have come from.                            *)
(***************************************************************************)
EXTENDS Tokens, Sequences, SequencesExt

Absent == <<"null">>

Commas(texts) == FlattenSeq([i \in DOMAIN texts |->
                    IF i = 1 THEN texts[i] ELSE <<",">> \o texts[i]])

(* How tightly the outermost operator of an expression binds.  An operand  *)
(* is spelled in parentheses unless it binds at least as tightly as its    *)
(* place asks for.  A lambda runs on to the right as far as it can.        *)
Level(tree) == CASE tree[1] \in {"call", "index"} -> 7
                 [] tree[1] \in BinaryOps         -> Precedence(tree[1])
                 [] tree[1] = "unary"             -> 8
                 [] tree[1] \in {"lambda", "init"} -> -1
                 [] OTHER                         -> 9

RECURSIVE Spell(_)

Grouped(tree, loosest) ==
    IF Level(tree) >= loosest THEN Spell(tree) ELSE <<"(">> \o Spell(tree) \o <<")">>

SpellAll(trees) == [i \in DOMAIN trees |-> Spell(trees[i])]

Statements(trees) == FlattenSeq([i \in DOMAIN trees |-> Spell(trees[i]) \o <<";">>])

Optional(mark, tree) == IF tree = Absent THEN <<>> ELSE mark \o Spell(tree)

SpellExpression(tree) ==
    LET op == tree[1] IN
    CASE op \in {"name", "constant"} -> <<tree[2]>>
      [] op = "unary"  -> <<tree[2]>> \o Grouped(tree[3], 9)
      [] op = "call"   -> Grouped(tree[2], 7)
                          \o <<"(">> \o Commas(SpellAll(tree[3])) \o <<")">>
      [] op = "index"  -> Grouped(tree[2], 7) \o <<"[">> \o Spell(tree[3]) \o <<"]">>
      [] op = "lambda" -> <<"\\">> \o Commas(SpellAll(tree[2])) \o <<"->">> \o Spell(tree[3])
      [] op = "init"   -> <<"init">> \o Spell(tree[2])
                          \o (IF tree[3] = <<>> THEN <<>>
                              ELSE <<"(">> \o Commas(SpellAll(tree[3])) \o <<")">>)
      [] OTHER         -> LET level == Precedence(op) IN
                          Grouped(tree[2], IF RightAssoc(op) THEN level + 1 ELSE level)
                          \o <<op>>
                          \o Grouped(tree[3], IF RightAssoc(op) THEN level ELSE level + 1)

SpellType(tree) ==
    CASE tree[1] \in {"primitive", "user"} -> <<tree[2]>>
      [] tree[1] = "maybe"    -> <<"maybe">> \o Spell(tree[2])
      [] tree[1] = "functype" -> <<"(">> \o Commas(SpellAll(tree[2])) \o <<")", "->">>
                                 \o Spell(tree[3])
      [] tree[1] = "array"    -> <<"Array", "[">> \o Spell(tree[2]) \o <<"]">>
      [] OTHER                -> <<"Map", "[">> \o Spell(tree[2]) \o <<":">>
                                 \o Spell(tree[3]) \o <<"]">>

SpellStatement(tree) ==
    CASE tree[1] = "block"    -> <<"{">> \o Statements(tree[2]) \o <<"}">>
      [] tree[1] = "if"       -> <<"if">> \o Spell(tree[2]) \o Spell(tree[3])
                                 \o Optional(<<"else">>, tree[4])
      [] tree[1] = "while"    -> <<"while">> \o Spell(tree[2]) \o Spell(tree[3])
      [] tree[1] = "for"      -> <<"for", tree[2], "in">> \o Spell(tree[3]) \o Spell(tree[4])
      [] tree[1] = "return"   -> <<"return">> \o Optional(<<>>, tree[2])
      [] OTHER                -> tree    \* break and continue

SpellDeclaration(tree) ==
    CASE tree[1] = "var"    -> <<"var", tree[2]>> \o Optional(<<":">>, tree[3])
      [] tree[1] = "fun"    -> LET Parameter(p) == <<p[2], ":">> \o Spell(p[3]) IN
                               <<"fun", tree[2], "=", "(">>
                               \o Commas([i \in DOMAIN tree[3] |-> Parameter(tree[3][i])])
                               \o <<")">> \o Optional(<<"->">>, tree[4]) \o Spell(tree[5])
      [] tree[1] = "type"   -> <<"type", tree[2], "{">> \o Statements(tree[4])
                               \o Optional(<<"init">>, tree[3]) \o <<"}">>
      [] OTHER              -> Statements(tree[2])    \* the module

Spell(tree) ==
    CASE tree[1] \in {"primitive", "user", "maybe", "functype", "array", "map"} ->
             SpellType(tree)
      [] tree[1] \in {"block", "if", "while", "for", "return", "break", "continue"} ->
             SpellStatement(tree)
      [] tree[1] \in {"var", "fun", "type", "module"} -> SpellDeclaration(tree)
      [] OTHER -> SpellExpression(tree)

(* The tokens a text and the tree it stands for have in common, whatever   *)
(* the way the text groups, ends and orders its parts.                     *)
Words(text) == SelectSeq(text, LAMBDA t : t \notin {"(", ")", ";", "=>", "\n", "eof"})

SameWords(s, t) ==
    LET Count(w, text) == Len(SelectSeq(text, LAMBDA u : u = w)) IN
    /\ Len(s) = Len(t)
    /\ \A i \in DOMAIN s : Count(s[i], s) = Count(s[i], t)
=============================================================================

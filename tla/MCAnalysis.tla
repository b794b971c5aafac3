----------------------------- MODULE MCAnalysis -----------------------------
(***************************************************************************)
(* Programs for the analysis: all sequences of up to two declarations and  *)
(* statements out of a pool, and of three declarations, in which names are *)
(* used before, after and without being declared, declared twice and       *)
(* nested, and a program of enough structures and functions for both       *)
(* tables to grow.                                                         *)
(***************************************************************************)
EXTENDS Analysis

Number == <<"primitive", "Number">>
Text   == <<"primitive", "String">>
User(name)  == <<"user", name>>
Maybe(type) == <<"maybe", type>>
Array(type) == <<"array", type>>
Map(key, type) == <<"map", key, type>>
Function(params, type) == <<"functype", params, type>>
Nest == Map(Text, Function(<<Array(User("e")), Maybe(Number)>>, Function(<<>>, <<"primitive", "Any">>)))

Var(name, type)    == <<"var", name, type>>
Block(items)       == <<"block", items>>
Fun(name, params, type, items) == <<"fun", name, params, type, Block(items)>>
Struct(name, fields) == <<"type", name, Null, fields>>
One  == <<"constant", "1">>
Word == <<"constant", "w">>
X    == <<"name", "x">>

Globals == {
    Struct("e", <<Var("x", Number)>>),
    Struct("e", <<Var("x", User("wide")), Var("y", Nest)>>),
    <<"type", "wide", Block(<<<<"=", X, One>>>>), <<<<"=", Var("x", User("e")), Word>>>>>>,
    Var("x", Maybe(User("e"))),
    Fun("f", <<>>, Null, <<<<"return", Null>>>>),
    Fun("f", <<Var("x", User("wide")), Var("y", Nest), Var("p", Maybe(Text))>>, Array(User("wide")),
        <<<<"return", <<"call", X, <<One, Word>>>>>>>>),
    Fun("longer_name", <<Var("x", User("longer_name")), Var("y", Number), Var("p", User("e"))>>, User("e"),
        <<Fun("p", <<Var("x", Function(<<User("e")>>, <<"primitive", "Void">>))>>, Maybe(Nest), <<>>)>>)}

Statements == {
    <<"if", <<"<", X, One>>, Block(<<Var("y", User("e"))>>), Block(<<<<"break">>>>)>>,
    <<"while", <<"unary", "!", X>>, Block(<<Fun("e", <<Var("p", Nest)>>, Null, <<>>)>>)>>,
    <<"for", "x", <<"index", X, One>>, Block(<<Block(<<<<"continue">>>>), <<".", X, <<"name", "y">>>>>>)>>,
    <<"=", Var("y", Null), <<"init", User("e"), <<>>>>>>,
    <<"=", X, <<"init", Array(Text), <<One, Word>>>>>>,
    <<"=", X, <<"lambda", <<X, X>>, <<"+", One, Word>>>>>>}

Pool == Globals \union Statements

Names == <<"e", "wide", "f", "longer_name", "p", "x", "y", "a", "b">>

Many == <<"module", [i \in 1..9 |-> Struct(Names[i], <<Var("x", User(Names[10 - i]))>>)]
                    \o [i \in 1..9 |-> Fun(Names[10 - i], <<Var("x", User(Names[i]))>>, Null, <<>>)]>>

MCPrograms == {<<"module", items>> : items \in UNION {[1..n -> Pool] : n \in 0..2}}
              \union {<<"module", items>> : items \in [1..3 -> Globals]}
              \union {Many}

(* Hashes that collide and run round the end of a table of eight.          *)
MCHash == [name \in Range(Names) |->
               CASE name \in {"e", "wide", "x"} -> 7
                 [] name \in {"f", "y"} -> 15
                 [] name = "longer_name" -> 0
                 [] OTHER -> 12]

MCSpelling == [name \in Range(Names) |->
                   CASE name = "wide" -> <<"a", "U+0141">>
                     [] name = "longer_name" -> <<"p", "e", "_", "1", "v", "e", "N", "d", "f", "U+0141", "_", "e">>
                     [] OTHER -> <<name>>]

MCScalar == "U+0141" :> <<"0", "0", "0", "1", "4", "1">>
=============================================================================

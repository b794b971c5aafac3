------------------------------ MODULE MCParser ------------------------------
(***************************************************************************)
(* Texts for the parser: the spellings of all expressions and types up to  *)
(* two levels deep and of programs that use every construct, and the same  *)
(* programs, and a type with two initialisers, with one token missing,     *)
(* changed or added.                                                       *)
(***************************************************************************)
EXTENDS Parsing, FiniteSets

a == <<"name", "a">>
b == <<"name", "b">>
one == <<"constant", "1">>
No == Null

Binary(ops, left, right) == {<<op, l, r>> : op \in ops, l \in left, r \in right}
Suffixes(callees, operands) ==
    {<<"call", f, <<>>>> : f \in callees} \union {<<"call", f, <<e>>>> : f \in callees, e \in operands}
    \union {<<"index", f, e>> : f \in callees, e \in operands}
    \union {<<".", f, b>> : f \in callees}

Shallow == {a, one} \union Binary({"=", "<", "+", "*", "**"}, {a}, {one})
           \union Suffixes({a}, {one}) \union {<<"unary", "-", a>>, <<"lambda", <<b>>, a>>}

Expressions ==
    Binary({"=", "+", "-", "**"}, Shallow, Shallow)
    \union Suffixes(Shallow, {one}) \union Suffixes({a}, Shallow)
    \union {<<"unary", "!", e>> : e \in Shallow}
    \union {<<"lambda", <<a, b>>, e>> : e \in Shallow}
    \union {<<"call", b, <<d, e>>>> : d \in Shallow, e \in {a, <<"unary", "-", a>>}}

Number == <<"primitive", "Number">>
User == <<"user", "b">>
Composed(types) ==
    {<<"array", t>> : t \in types} \union {<<"map", Number, t>> : t \in types}
    \union {<<"functype", <<>>, t>> : t \in types}
    \union {<<"functype", <<t, Number>>, User>> : t \in types}
    \union {<<"functype", <<User>>, t>> : t \in types}
Types == LET simple == {Number, User}
             once   == simple \union Composed(simple)
             maybe  == once \union {<<"maybe", t>> : t \in once}
         IN once \union Composed(maybe) \union {<<"maybe", t>> : t \in once}

Block(items) == <<"block", items>>
Module(items) == <<"module", items>>
Assign == <<"=", a, one>>
Call == <<"call", a, <<b, one>>>>

Programs == {
    Module(<<>>),
    Module(<<<<"var", "a", <<"map", Number, User>>>>, <<"=", <<"var", "b", No>>, one>>>>),
    Module(<<<<"type", "a", No, <<>>>>>>),
    Module(<<<<"type", "b", Block(<<Assign>>), <<<<"var", "a", Number>>,
                                                 <<"=", <<"var", "b", User>>, one>>>>>>>>),
    Module(<<<<"fun", "a", <<>>, No, Block(<<Call>>)>>>>),
    Module(<<<<"fun", "a", <<<<"var", "a", Number>>, <<"var", "b", <<"maybe", User>>>>>>,
                      <<"array", Number>>,
                      Block(<<<<"var", "b", Number>>, <<"return", a>>>>)>>>>),
    Module(<<<<"if", a, Block(<<<<"break">>>>), <<"if", b, Block(<<>>), No>>>>,
             <<"if", a, Block(<<Assign>>), Block(<<<<"continue">>>>)>>>>),
    Module(<<<<"while", <<"<", a, one>>, Block(<<Assign, Block(<<Call>>)>>)>>,
             <<"for", "b", a, Block(<<<<"return", No>>>>)>>>>),
    Module(<<Call, <<"=", b, <<"lambda", <<a>>, one>>>>, <<"=", <<"var", "a", No>>, <<"init", User, <<one>>>>>>,
             <<"=", <<"var", "b", No>>, <<"init", <<"array", User>>, <<>>>>>>>>),
    Module(<<<<"fun", "b", <<>>, Number, Block(<<<<"fun", "a", <<>>, No, Block(<<>>)>>, <<"return", <<"unary", "-", one>>>>>>)>>>>)}

Sentence(tree, text) == [tree |-> tree, text |-> text \o <<"eof">>, typo |-> FALSE]

(* Terminators may be written as semicolons or as ends of lines.           *)
Lines(text) == [i \in DOMAIN text |-> IF text[i] = ";" THEN NewLine ELSE text[i]]

Sentences ==
    {Sentence(t, G!Spell(t)) : t \in Programs}
    \union {Sentence(t, Lines(G!Spell(t))) : t \in Programs}
    \union {Sentence(t, G!Spell(t)) : t \in {Module(<<e>>) : e \in Expressions}}
    \union {Sentence(t, G!Spell(t)) : t \in {Module(<<<<"var", "a", t>>>>) : t \in Types}}

(* One token missing, another in its place, or one too many.               *)
Junk == {"a", "1", "-", "=", "=>", "(", ")", "[", "}", "{", ":", ",", ";", "->", "\\", "init",
         "var", "else", "Nil", "maybe", "if"}

Without(text, i)    == SubSeq(text, 1, i - 1) \o SubSeq(text, i + 1, Len(text))
Before(text, i, t)  == SubSeq(text, 1, i - 1) \o <<t>> \o SubSeq(text, i, Len(text))

Damaged(text) ==
    LET places == {i \in 1..(Len(text) - 1) : text[i] # NewLine} IN
    {Without(text, i) : i \in places}
    \union {[text EXCEPT ![i] = t] : i \in places, t \in Junk}
    \union {Before(text, i, t) : i \in places, t \in Junk}

(* No tree is spelled like this: the first initialiser is in none.         *)
TwoInits == <<"type", "b", "{", "init", "{", "a", "=", "1", ";", "}", ";",
              "var", "a", ":", "Number", ";",
              "init", "{", "b", "(", "1", ")", ";", "}", ";", "}", ";", "eof">>

Typos == {[tree |-> No, text |-> text, typo |-> TRUE] :
              text \in {TwoInits} \union Damaged(TwoInits)
                       \union UNION {Damaged(s.text) : s \in
                                        {Sentence(t, G!Spell(t)) : t \in Programs}}}

MCSources == Sentences \union Typos

(* unary = [unary-op], term and term = name-or-call: a minus before a call. *)
(* func-call = '(', [expression-list], ')' with an init-expr in the list.   *)
Documented ==
    {Sentence(Module(<<<<"unary", "-", <<"call", a, <<e>>>>>>>>),
              <<"-", "a", "(">> \o G!Spell(e) \o <<")", ";">>) : e \in {a, b, one}}
    \union {LET e == <<"init", User, <<one>>>>
            IN Sentence(Module(<<<<"call", a, <<e>>>>>>), <<"a", "(">> \o G!Spell(e) \o <<")", ";">>)}
=============================================================================

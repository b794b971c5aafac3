------------------------------ MODULE Lexemes -------------------------------
(***************************************************************************)
(* The lexical grammar: which pieces of a text are tokens of which kind,   *)
(* and which of them a lexer should take or skip.  A piece is the          *)
(* characters from position a up to, not including, b.                     *)
(***************************************************************************)
EXTENDS Integers, Sequences, FiniteSets

CONSTANTS Letters, Digits, Keywords
VARIABLE  text

Nul      == "NUL"
At(p)    == IF p < Len(text) THEN text[p + 1] ELSE Nul
Piece(a, b) == SubSeq(text, a + 1, b)
All(a, b, S) == \A p \in a..(b - 1) : At(p) \in S
End      == Len(text)

(* The operators and punctuation of the token table.                       *)
Operators ==
    {<<c>> : c \in {"(", ")", "{", "}", "[", "]", "+", "-", "/", "\\", "*", "%", "^", "~", "&",
                    "|", "!", "?", "<", ">", "=", ";", ":", ",", "."}}
    \union {<<c, "=">> : c \in {"<", ">", "=", "+", "-", "*", "/", "!"}}
    \union {<<"*", "*">>, <<"<", "<">>, <<">", ">">>, <<"&", "&">>, <<"|", "|">>,
            <<"-", ">">>, <<"=", ">">>}

Word(a, b)     == At(a) \in Letters /\ All(a, b, Letters \union Digits)
Integer(a, b)  == All(a, b, Digits)
Fraction(a, b) == \E dot \in (a + 1)..(b - 2) :
                      At(dot) = "." /\ Integer(a, dot) /\ Integer(dot + 1, b)

(* A character is escaped behind an odd number of backslashes.             *)
Backslashes(a, p) == CHOOSE n \in 0..(p - a) :
                         /\ All(p - n, p, {"\\"})
                         /\ p - n = a \/ At(p - n - 1) # "\\"
Escaped(a, p) == Backslashes(a, p) % 2 = 1
Escapes       == {"\\", "\"", "a", "b", "f", "n", "r", "t", "v"}

Closed(a, b) == b - a >= 2 /\ At(b - 1) = "\"" /\ ~Escaped(a + 1, b - 1)

String(a, b) ==
    /\ At(a) = "\"" /\ Closed(a, b)
    /\ \A p \in (a + 1)..(b - 2) : At(p) = "\"" => Escaped(a + 1, p)
    /\ \A p \in (a + 1)..(b - 2) : Escaped(a + 1, p) => At(p) \in Escapes

(* What a string stands for: its characters, escapes taken for what they mean. *)
Meaning(a, p) == IF ~Escaped(a, p) THEN At(p)
                 ELSE CASE At(p) = "n" -> "\n"
                        [] At(p) = "t" -> "\t"
                        [] At(p) \in {"\\", "\""} -> At(p)
                        [] OTHER -> "control-" \o At(p)
Kept(a, b)    == {p \in (a + 1)..(b - 2) :
                      (At(p) = "\\" => Escaped(a + 1, p)) /\ (Escaped(a + 1, p) => At(p) \in Escapes)}
(* An unterminated string has no closing quote to leave out.               *)
LiteralEnd(a, b) == IF Closed(a, b) THEN b ELSE b + 1
Literal(a, b) ==
    LET kept == Kept(a, LiteralEnd(a, b)) IN
    [i \in 1..Cardinality(kept) |->
        Meaning(a + 1, CHOOSE p \in kept : Cardinality({q \in kept : q < p}) = i - 1)]

KindOf(a, b) == CASE Word(a, b) -> IF Piece(a, b) \in Keywords THEN "keyword" ELSE "identifier"
                  [] Integer(a, b)          -> "integer"
                  [] Fraction(a, b)         -> "float"
                  [] String(a, b)           -> "string"
                  [] OTHER                  -> "operator"

Lexeme(a, b) == \/ Word(a, b) \/ Integer(a, b) \/ Fraction(a, b) \/ String(a, b)
                \/ Piece(a, b) \in Operators

-----------------------------------------------------------------------------
(* Comments. *)

LineComment(a, b) ==
    /\ At(a) = "#" \/ (At(a) = "/" /\ At(a + 1) = "/")
    /\ At(b) \in {"\n", Nul}
    /\ ~ \E p \in a..(b - 1) : At(p) = "\n"

Opens(p)  == At(p) = "/" /\ At(p + 1) = "*"
Closes(p) == At(p) = "*" /\ At(p + 1) = "/"

(* No character is part of two delimiters, as stars and slashes in a row may be. *)
ClearComments == \A p \in 0..(End - 3) :
    Piece(p, p + 3) \notin {<<"/", "*", "/">>, <<"*", "/", "*">>, <<"*", "*", "/">>, <<"/", "/", "*">>}

(* Comments nest: the one opened at a ends where as many are closed.       *)
Deep(a, b) == Cardinality({p \in a..(b - 2) : Opens(p)})
              - Cardinality({p \in a..(b - 2) : Closes(p)})
BlockComment(a, b) == /\ Opens(a) /\ b > a + 3 /\ Closes(b - 2)
                      /\ Deep(a, b) = 0
                      /\ \A c \in (a + 2)..(b - 1) : Deep(a, c) > 0

Skipped(a, b) == (b = a + 1 /\ At(a) \in {" ", "\t", "\n"}) \/ LineComment(a, b) \/ BlockComment(a, b)

-----------------------------------------------------------------------------
(* How a text is read from left to right. *)

(* Blanks and comments come first: no lexeme is taken where they begin.    *)
Passable(a) == \E b \in (a + 1)..End : Skipped(a, b)

(* Nothing but blanks and comments, the cuts are where one meets another.  *)
Gap(a, b) == \E cuts \in SUBSET (a..b) :
                 /\ {a, b} \subseteq cuts
                 /\ \A c \in cuts \ {b} : \E d \in cuts : c < d /\ Skipped(c, d)

(* The longest lexeme is taken; a comment that never ends is none.         *)
Takes(a, b) == /\ ~Passable(a) /\ ~Opens(a)
               /\ Lexeme(a, b)
               /\ \A c \in (b + 1)..End : ~Lexeme(a, c)

(* Reading gets no further than here.                                      *)
DeadEnd(a) == ~Passable(a) /\ (Opens(a) \/ ~ \E b \in (a + 1)..End : Lexeme(a, b))

(* The NUL character ends a text early.                                    *)
NoNul == \A p \in 0..(End - 1) : At(p) # Nul
=============================================================================

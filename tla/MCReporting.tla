---------------------------- MODULE MCReporting -----------------------------
EXTENDS Reporting, SequencesExt

UpTo(n, alphabet) == UNION {[1..k -> alphabet] : k \in 0..n}
Joined(n, pieces) == {FlattenSeq(s) : s \in UpTo(n, pieces)}

Operators == UpTo(3, {"=", "*", "/", "-", ">", "&", "("})
Words     == UpTo(4, {"i", "n", "1", ".", " "})
Comments  == UpTo(5, {"/", "*", NewLine}) \union UpTo(3, {"/", "#", "i", NewLine})
             \union Joined(5, {<<"/", "*", " ">>, <<"*", "/", " ">>, <<"i">>})
Strings   == UpTo(5, {Quote, "\\", "n", "i"})
Pooled    == {<<Quote>> \o a \o <<Quote, Quote>> \o b \o <<Quote>> :
                  a \in UpTo(4, {"i"}), b \in UpTo(4, {"i"}) \union {<<"n">>}}
(* A string that ends behind the block and one more, for which it grows.   *)
Strayed   == {<<Quote, "i", "i", "i", "i", Quote, Quote, c, Quote, Quote, "n", Quote>> :
                  c \in {"i", "n"}}
Lines     == UpTo(5, {"i", NewLine, "$"})
Full      == {<<"$", "$", "$">> \o end : end \in {<<"/", "*">>, <<Quote>>, <<Quote, "\\", "$">>}}

MCTexts    == Operators \union Words \union Comments \union Strings \union Pooled \union Strayed
              \union Lines \union Full
MCKeywords == {<<"i", "n">>}

(* Texts that break off where the parser wants more, or inside a string.   *)
MCUnfinished == {<<"i", "(">>, <<"(", "i">>, <<"i", "\n", "i", "=">>, <<"i", Quote, "i">>}

(* Bytes that are no character, where the lexer reports them and where not. *)
MCBytes == {<<"i", Bad, "i">>, <<"#", Bad>>, <<"/", "*", Bad>>, <<Quote, Bad, Quote>>}
=============================================================================

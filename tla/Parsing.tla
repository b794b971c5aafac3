------------------------------ MODULE Parsing -------------------------------
(***************************************************************************)
(* What a parse must give, whatever text it was given.                     *)
(***************************************************************************)
EXTENDS Parser

G == INSTANCE Grammar

(* A text spelled from a syntax tree is parsed into that tree, without an  *)
(* error: precedence, associativity, lists, terminators and nesting all    *)
(* come out as they were written.                                          *)
SentencesAreUnderstood ==
    (~source.typo /\ status # "running") =>
        status = "done" /\ diags = 0 /\ Root = source.tree

(* The same of sentences taken from the grammar file of the repository,    *)
(* which has a unary operator apply to a name with all its suffixes and an *)
(* init expression be a term like any other.  Neither is so in the parser. *)
GrammarIsFollowed == SentencesAreUnderstood

(* A text accepted without an error is in the tree word for word, but for  *)
(* the initialisers of a type that a later one replaces: of those nothing  *)
(* is said, and the code has it as something to do (parser.c, recTypeDecl). *)
(* A parser that resynchronises, skips or overwrites otherwise must have   *)
(* said so.                                                                *)
NothingIsDroppedSilently ==
    /\ SilentEndsAreClean
    /\ (status = "done" /\ diags = 0) =>
          LET replaced == G!FlattenSeq([i \in DOMAIN overwritten |->
                                           <<"init">> \o G!Spell(overwritten[i])])
          IN  G!SameWords(G!Words(Text), G!Words(G!Spell(Root) \o replaced))

(* Recovery skips tokens until it finds what it wants, recognizers loop    *)
(* while they see the start of another item: a parse of any text ends.     *)
ParseEnds == <>(status # "running")
=============================================================================

----------------------------- MODULE Reporting ------------------------------
(***************************************************************************)
(* From text to error messages: the lexer, the errors that the parser and  *)
(* the analysis file about its tokens, and the report at the end, which    *)
(* finds the line and column of every error.                               *)
(***************************************************************************)
EXTENDS Lexer, FiniteSets

CONSTANTS FirstLines,     \* line starts the line table has room for at first
          MaxComplaints   \* errors filed about tokens

ASSUME ReportingConstants ==
    /\ FirstLines \in Nat \ {0, 1} /\ MaxComplaints \in Nat
    /\ \A t \in Texts : t \in Seq(STRING)

VARIABLES complaints,     \* errors filed about tokens so far
          lines, room,    \* the line table
          phase,          \* "lexing" for the parser, then "analysing",
                          \* "reporting" and "done", or "aborted"
          reported,       \* diagnostics reported completely
          stage,          \* what is printed next of the one after them
          place, line, column     \* the last place that was located

L == INSTANCE LineMap

(* What the lexer should make of a text, written down without its loops.   *)
R == INSTANCE Lexemes

control == <<pos, mode, tokenStart, filed, phase, reported, stage>>
vars == <<lexVars, complaints, lines, room, phase, reported, stage, place, line, column>>

tables == <<lines, room, reported, stage, place, line, column>>

-----------------------------------------------------------------------------
LexStep == /\ phase = "lexing"
           /\ Lex
           /\ phase' = IF mode' = "aborted" THEN "aborted" ELSE phase
           /\ UNCHANGED <<complaints, tables>>

(* What the parser has before it; the end of the file has no place of its  *)
(* own.                                                                    *)
CurrentToken ==
    IF mode = "eof" THEN {[start |-> 0, end |-> 0]}
    ELSE {tokens[i] : i \in {j \in DOMAIN tokens :
                                 j = Len(tokens) /\ mode = "start" /\ tokens[j].end = pos}}

(* The analysis runs over what was read, and may object to any of it.      *)
AnyToken == {tokens[i] : i \in DOMAIN tokens}

NothingIsRead ==
    UNCHANGED <<text, pos, mode, tokenStart, isStartOfLine, depth, literalBuffer, tokens,
                poolVars, tables>>

(* An error names a range or only a place.                                 *)
Complain ==
    /\ phase \in {"lexing", "analysing"}
    /\ complaints < MaxComplaints /\ HasRoom
    /\ complaints' = complaints + 1
    /\ \E token \in (IF phase = "lexing" THEN CurrentToken ELSE AnyToken) :
           File(token.start, token.start, token.end) \/ FileAt(token.start)
    /\ NothingIsRead /\ UNCHANGED phase

(* The parser returns at the end of the text, or at a token it cannot go   *)
(* on with: it objects to the token and leaves the rest of the text unread. *)
EndParse ==
    /\ phase = "lexing" /\ mode = "eof"
    /\ phase' = "analysing"
    /\ UNCHANGED <<lexVars, complaints, tables>>

GiveUp ==
    /\ phase = "lexing" /\ mode # "eof"
    /\ complaints < MaxComplaints /\ HasRoom
    /\ complaints' = complaints + 1
    /\ \E token \in CurrentToken : File(token.start, token.start, token.end)
    /\ phase' = "analysing"
    /\ NothingIsRead

StartReport ==
    /\ phase = "analysing"
    /\ phase' = "reporting"
    /\ UNCHANGED <<lexVars, complaints, tables>>

-----------------------------------------------------------------------------
Printed == filed[reported + 1]
Ranged(diag) == diag.start >= 0

(* The title, the line of the text, the underlines each ask for a place.   *)
PlaceAsked == IF stage = "underlines" /\ Ranged(Printed) THEN Printed.start ELSE Printed.at

(* The underlines assert that the caret is inside the range.               *)
CaretIsInside(diag) == Ranged(diag) => diag.start <= diag.at /\ diag.at < diag.end

Printable == /\ L!Locatable(PlaceAsked)
             /\ stage = "underlines" => CaretIsInside(Printed)

Show ==
    /\ phase = "reporting" /\ reported < Len(filed)
    /\ UNCHANGED <<lexVars, complaints>>
    /\ \/ /\ Printable
          /\ place' = PlaceAsked
          /\ L!Locate(PlaceAsked, line, column)
          /\ stage' = CASE stage = "title"      -> "text"
                        [] stage = "text"       -> "underlines"
                        [] stage = "underlines" -> "title"
          /\ reported' = IF stage = "underlines" THEN reported + 1 ELSE reported
          /\ UNCHANGED phase
       \/ /\ ~Printable
          /\ phase' = "aborted"
          /\ UNCHANGED tables

FinishReport ==
    /\ phase = "reporting" /\ reported = Len(filed)
    /\ phase' = "done"
    /\ UNCHANGED <<lexVars, complaints, tables>>

Init ==
    /\ LexInit
    /\ L!LineMapInit
    /\ complaints = 0
    /\ phase = "lexing"
    /\ reported = 0 /\ stage = "title"
    /\ place = 0 /\ line = 1 /\ column = 1

Work == LexStep \/ EndParse \/ StartReport \/ Show \/ FinishReport

Next == Work \/ Complain \/ GiveUp

(* The compiler runs to its end; whether there is something to complain    *)
(* about is up to the text.                                                *)
Spec == Init /\ [][Next]_vars /\ WF_control(Work)

-----------------------------------------------------------------------------
(* A token is marked as the first of its line exactly if a line break      *)
(* stands somewhere between the token before it and its own end.  The      *)
(* parser ends statements by this mark.                                    *)
LineStartsAreMarked ==
    \A i \in DOMAIN tokens :
        tokens[i].isStartOfLine <=>
            i = 1 \/ NewLineIn(tokens[i - 1].end, tokens[i].end)

EndBefore(i) == IF i = 1 THEN 0 ELSE tokens[i - 1].end

(* The first n tokens are what the grammar makes of the text up to there.  *)
ReadRight(n) ==
    \A i \in 1..n :
        LET token == tokens[i] IN
        /\ R!Gap(EndBefore(i), token.start)
        /\ R!Takes(token.start, token.end)
        /\ token.kind = R!KindOf(token.start, token.end)

(* The tokens of a text are its longest lexemes from left to right, with   *)
(* nothing but blanks and comments between them and behind them; exactly   *)
(* the texts that cannot be read like that to the end give errors.  Texts  *)
(* in which a comment has two delimiters that share a character are left   *)
(* out, and texts with NUL characters.                                     *)
TokensAreTheLexemes ==
    (mode = "eof" /\ complaints = 0 /\ R!ClearComments /\ R!NoNul) =>
        IF filed = <<>>
        THEN ReadRight(Len(tokens)) /\ R!Gap(EndBefore(Len(tokens) + 1), R!End)
        ELSE \E n \in 0..Len(tokens) :
                 /\ ReadRight(n)
                 /\ \E a \in 0..R!End : R!Gap(EndBefore(n + 1), a) /\ R!DeadEnd(a)

(* Places are asked for in any order, and answered by the line and column  *)
(* they have in the text, but for the query that makes the table move.     *)
LocationsAreExact ==
    column # -1 =>
        LET before == {p \in 0..(place - 1) : At(p) = NewLine} IN
        /\ line = 1 + Cardinality(before)
        /\ place - column = -1 \/ At(place - column) = NewLine
        /\ ~NewLineIn(place - column + 1, place)

(* Whatever is interned after it, the name of a string literal stands for  *)
(* its text, escapes replaced; equal literals have equal names.  As long   *)
(* as the pool did not write past its end.                                 *)
StringsKeepTheirText ==
    ~strayed =>
        \A i \in DOMAIN tokens : tokens[i].kind = "string" =>
            /\ Get(tokens[i].name) = R!Literal(tokens[i].start, tokens[i].end)
            /\ \A j \in DOMAIN tokens : tokens[j].kind = "string" =>
                   (tokens[i].name = tokens[j].name <=>
                        Get(tokens[i].name) = Get(tokens[j].name))

(* No loop of the lexer spins: the parser comes to the end of what it      *)
(* reads, and every error filed until then is reported, or an assertion    *)
(* stops the compiler.  Nothing is said of a pool that wrote past its end: *)
(* the chain of its strings may then be lost.                              *)
ReportsEnd == <>(phase \in {"done", "aborted"} \/ strayed)

(* console.c asserts that the caret is in its range, source.c that a place *)
(* is in the text: no error message breaks these assertions.               *)
EveryErrorCanBePrinted == phase = "reporting" /\ reported < Len(filed) => Printable
=============================================================================

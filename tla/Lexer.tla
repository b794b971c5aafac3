------------------------------- MODULE Lexer -------------------------------
(***************************************************************************)
(* The lexer: it cuts the text into tokens, one on each request of the     *)
(* parser, and interns string literals.  A position is a number of         *)
(* characters from 0; widths of encodings are left out, but a byte that is *)
(* no character is: the lexer does not get past it.  The loops of the C    *)
(* functions take one step for a turn, and mode says which one is running. *)
(***************************************************************************)
EXTENDS StringPool

CONSTANTS Texts,       \* sequences of characters
          Letters,     \* characters that begin an identifier
          Digits,
          Keywords,    \* the reserved words, as sequences of characters
          MaxDiags     \* room of the diagnostics manager

VARIABLES text,
          pos,             \* the next character to read
          mode,            \* the loop that is running, "eof" or "aborted"
          tokenStart,
          isStartOfLine,   \* a newline was read since the last token
          depth,           \* of the block comment
          literalBuffer,
          tokens,          \* records [kind, start, end, isStartOfLine, name]
          filed            \* diagnostics: records [at, start, end]

lexVars == <<text, pos, mode, tokenStart, isStartOfLine, depth, literalBuffer,
             tokens, filed, poolVars>>

-----------------------------------------------------------------------------
Nul     == "NUL"
Bad     == "bad"      \* a byte no character begins with
NewLine == "\n"
Blanks  == {" ", "\t", NewLine}
Quote   == "\""

(* Operators of one character and the second ones they are joined with.    *)
Seconds == [c \in {";", "{", "}", "[", "]", "(", ")", ":", ".", ",", "^", "~", "%", "?", "\\",
                   "+", "&", "|", "!", "=", "*", "/", "-", "<", ">"} |->
    CASE c \in {"+", "!", "/"} -> {"="}
      [] c \in {"&", "|"}      -> {c}
      [] c \in {"*", "<"}      -> {c, "="}
      [] c \in {"=", "-"}      -> {"=", ">"}
      [] c = ">"               -> {">", "="}
      [] OTHER                 -> {}]

(* A character can begin one kind of token at most.                        *)
ASSUME LexerConstants ==
    /\ Letters \intersect Digits = {}
    /\ (Letters \union Digits)
           \intersect (Blanks \union DOMAIN Seconds \union {"#", Quote, Nul, Bad}) = {}

Escapes == [c \in {"\\", Quote, "a", "b", "f", "n", "r", "t", "v"} |->
    CASE c \in {"\\", Quote} -> c
      [] c = "n"             -> NewLine
      [] c = "t"             -> "\t"
      [] OTHER               -> "control-" \o c]

At(p)    == IF p < Len(text) THEN text[p + 1] ELSE Nul
Part(a, b) == SubSeq(text, a + 1, b)

(* nextChar reads a character; it stays where it is at the end of the text *)
(* and before a byte it cannot decode.                                     *)
After(p) == IF At(p) \in {Nul, Bad} THEN p ELSE p + 1

NewLineIn(a, b) == \E p \in a..(b - 1) : At(p) = NewLine

(* Reads the characters up to p.                                           *)
Read(p) == /\ pos' = p
           /\ isStartOfLine' = (isStartOfLine \/ NewLineIn(pos, p))

(* Mistake: the mark of a line start is kept for the next token.           *)
MakeTokenKeepsMark(kind, start, end, name) ==
    /\ tokens' = Append(tokens, [kind |-> kind, start |-> start, end |-> end, name |-> name,
                                 isStartOfLine |-> isStartOfLine \/ NewLineIn(pos, end)])
    /\ Read(end)
    /\ mode' = "start"

(* Reads the rest of a token and makes it.                                 *)
MakeToken(kind, start, end, name) ==
    /\ tokens' = Append(tokens, [kind |-> kind, start |-> start, end |-> end, name |-> name,
                                 isStartOfLine |-> isStartOfLine \/ NewLineIn(pos, end)])
    /\ pos' = end
    /\ isStartOfLine' = FALSE
    /\ mode' = "start"

NoName == -1

(* diagNew asserts that there is room.  A place without a range is a range *)
(* of nothing that starts at -1.                                           *)
HasRoom == Len(filed) < MaxDiags
File(at, start, end) == filed' = Append(filed, [at |-> at, start |-> start, end |-> end])
FileAt(at) == File(at, -1, -1)

Abort == mode' = "aborted" /\ UNCHANGED <<pos, isStartOfLine, literalBuffer, tokens, filed, poolVars>>

-----------------------------------------------------------------------------
(* The switch on the first character. *)

Opening == mode = "start" /\ UNCHANGED <<text, poolVars>>

SkipBlank ==
    /\ Opening /\ At(pos) \in Blanks
    /\ tokenStart' = pos
    /\ Read(pos + 1)
    /\ UNCHANGED <<mode, depth, literalBuffer, tokens, filed>>

(* Mistake: the second character of an operator is left for the next token. *)
OperatorEndAlone(p) == p + 1

OperatorEnd(p) == IF At(p + 1) \in Seconds[At(p)] THEN p + 2 ELSE p + 1

StartsComment == At(pos) = "#" \/ (At(pos) = "/" /\ At(pos + 1) \in {"/", "*"})

LexOperator ==
    /\ Opening /\ At(pos) \in DOMAIN Seconds /\ ~StartsComment
    /\ tokenStart' = pos
    /\ MakeToken("operator", pos, OperatorEnd(pos), NoName)
    /\ UNCHANGED <<depth, literalBuffer, filed>>

StartComment ==
    /\ Opening /\ StartsComment
    /\ tokenStart' = pos
    /\ Read(IF At(pos) = "#" THEN pos + 1 ELSE pos + 2)
    /\ IF At(pos) = "/" /\ At(pos + 1) = "*" THEN mode' = "block" /\ depth' = 1
                                             ELSE mode' = "line" /\ UNCHANGED depth
    /\ UNCHANGED <<literalBuffer, tokens, filed>>

StartLongToken ==
    /\ Opening
    /\ \/ At(pos) = Quote     /\ mode' = "string" /\ literalBuffer' = <<>>
       \/ At(pos) \in Letters /\ mode' = "identifier" /\ UNCHANGED literalBuffer
       \/ At(pos) \in Digits  /\ mode' = "number" /\ UNCHANGED literalBuffer
    /\ tokenStart' = pos
    /\ Read(pos + 1)
    /\ UNCHANGED <<depth, tokens, filed>>

InvalidCharacter ==
    /\ Opening
    /\ At(pos) \notin Blanks \union DOMAIN Seconds \union Letters \union Digits
                      \union {"#", Quote, Nul}
    /\ tokenStart' = pos
    /\ UNCHANGED depth
    /\ \/ /\ HasRoom
          /\ FileAt(After(pos))
          /\ MakeToken("invalid", pos, After(pos), NoName)
          /\ UNCHANGED literalBuffer
       \/ ~HasRoom /\ Abort

(* The location of this last token is set to 0, its line mark not at all.  *)
EndOfFile ==
    /\ Opening /\ At(pos) = Nul
    /\ mode' = "eof"
    /\ UNCHANGED <<pos, tokenStart, isStartOfLine, depth, literalBuffer, tokens, filed>>

-----------------------------------------------------------------------------
(* Loops. *)

Inside(m) == mode = m /\ UNCHANGED <<text, tokenStart>>
Quiet     == UNCHANGED <<literalBuffer, filed, poolVars>>

LexIdentifier ==
    /\ Inside("identifier") /\ Quiet /\ UNCHANGED depth
    /\ \/ /\ At(pos) \in Letters \union Digits
          /\ Read(pos + 1)
          /\ UNCHANGED <<mode, tokens>>
       \/ /\ At(pos) \notin Letters \union Digits
          /\ MakeToken(IF Part(tokenStart, pos) \in Keywords THEN "keyword" ELSE "identifier",
                       tokenStart, pos, NoName)

LexNumber ==
    /\ mode \in {"number", "fraction"}
    /\ Quiet /\ UNCHANGED <<text, tokenStart, depth>>
    /\ \/ /\ At(pos) \in Digits
          /\ Read(pos + 1)
          /\ UNCHANGED <<mode, tokens>>
       \/ /\ mode = "number" /\ At(pos) = "." /\ At(pos + 1) \in Digits
          /\ Read(pos + 1)
          /\ mode' = "fraction"
          /\ UNCHANGED tokens
       \/ /\ At(pos) \notin Digits
          /\ ~(mode = "number" /\ At(pos) = "." /\ At(pos + 1) \in Digits)
          /\ MakeToken(IF mode = "number" THEN "integer" ELSE "float", tokenStart, pos, NoName)

FinishString(end) ==
    /\ MakeToken("string", tokenStart, end, NameFor(literalBuffer))
    /\ Intern(literalBuffer)
    /\ UNCHANGED literalBuffer

LexString ==
    /\ Inside("string") /\ UNCHANGED depth
    /\ LET c == At(pos)
           e == At(pos + 1) IN
       \/ c = Quote /\ FinishString(pos + 1) /\ UNCHANGED filed
       \/ c = Nul /\ HasRoom /\ FileAt(pos) /\ FinishString(pos)
       \/ c = "\\" /\ e \in DOMAIN Escapes
          /\ literalBuffer' = Append(literalBuffer, Escapes[e])
          /\ Read(pos + 2)
          /\ UNCHANGED <<mode, tokens, filed, poolVars>>
       \/ c = "\\" /\ e \notin DOMAIN Escapes /\ HasRoom
          /\ FileAt(After(pos + 1))
          /\ Read(After(pos + 1))
          /\ UNCHANGED <<mode, tokens, literalBuffer, poolVars>>
       \/ /\ ~HasRoom
          /\ c = Nul \/ (c = "\\" /\ e \notin DOMAIN Escapes)
          /\ Abort
       \/ c \notin {Quote, Nul, "\\", Bad}     \* a bad byte is not appended, nor passed
          /\ literalBuffer' = Append(literalBuffer, c)
          /\ Read(pos + 1)
          /\ UNCHANGED <<mode, tokens, filed, poolVars>>

EatLineComment ==
    /\ Inside("line") /\ Quiet /\ UNCHANGED <<depth, tokens>>
    /\ \/ /\ At(pos) \in {NewLine, Nul}
          /\ mode' = "start"
          /\ UNCHANGED <<pos, isStartOfLine>>
       \/ At(pos) \notin {NewLine, Nul, Bad} /\ Read(pos + 1) /\ UNCHANGED mode

DepthAfter(c, d) == CASE c = "*" /\ d = "/" -> depth - 1
                      [] c = "/" /\ d = "*" -> depth + 1
                      [] OTHER              -> depth

(* A star or a slash takes the character behind it along, whatever it is.  *)
CommentStep(p) == IF At(p) \in {"*", "/"} THEN After(p + 1) ELSE p + 1

(* Mistake: the end of the text does not end a comment.                    *)
CommentEndsNever(c) == FALSE

CommentEnds(c) == c = Nul

LexBlockComment ==
    /\ Inside("block") /\ UNCHANGED <<tokens, literalBuffer, poolVars>>
    /\ \/ /\ CommentEnds(At(pos)) /\ HasRoom
          /\ FileAt(pos)
          /\ mode' = "start"
          /\ UNCHANGED <<pos, isStartOfLine, depth>>
       \/ CommentEnds(At(pos)) /\ ~HasRoom /\ mode' = "aborted"
          /\ UNCHANGED <<pos, isStartOfLine, depth, filed>>
       \/ /\ At(pos) \notin {Nul, Bad}
          /\ depth' = DepthAfter(At(pos), At(pos + 1))
          /\ mode' = IF depth' = 0 THEN "start" ELSE mode
          /\ Read(CommentStep(pos))
          /\ UNCHANGED filed

-----------------------------------------------------------------------------
Lex == \/ SkipBlank \/ LexOperator \/ StartComment \/ StartLongToken
       \/ InvalidCharacter \/ EndOfFile
       \/ LexIdentifier \/ LexNumber \/ LexString \/ EatLineComment \/ LexBlockComment

LexInit ==
    /\ text \in Texts
    /\ pos = 0
    /\ mode = "start"
    /\ tokenStart = 0
    /\ isStartOfLine = TRUE
    /\ depth = 0
    /\ literalBuffer = <<>>
    /\ tokens = <<>>
    /\ filed = <<>>
    /\ PoolInit
=============================================================================

--------------------------- MODULE ReportingProofs ---------------------------
(***************************************************************************)
(* For every text, whatever its length, and every order of complaints: the *)
(* marks that end statements are where lines break, the line and column an *)
(* error is printed with are the ones it has in the text, however the line *)
(* table was found out and moved, the name of every string literal stands  *)
(* for its text, however often the pool has moved, as long as nothing was  *)
(* written past its block, and the tokens are the longest lexemes of the   *)
(* text, with only blanks and comments between.                            *)
(***************************************************************************)
EXTENDS Reporting, FiniteSetTheorems, WellFoundedInduction, TLAPS

(* What strings are made of: characters of the text, what escapes say, and *)
(* what stands where a character was lost.                                 *)
Character == STRING \cup {Escapes[e] : e \in DOMAIN Escapes} \cup {Unwritten}
Entry     == [data : Seq(Character), at : Nat]
Kinds     == {"operator", "invalid", "identifier", "keyword", "integer", "float", "string"}
Token     == [kind : Kinds, start : Nat, end : Nat, name : Nat \cup {NoName},
              isStartOfLine : BOOLEAN]
Diag      == [at : Nat, start : Int, end : Int]

LexTypes ==
    /\ text \in Seq(STRING)
    /\ pos \in Nat /\ tokenStart \in Nat
    /\ isStartOfLine \in BOOLEAN
    /\ literalBuffer \in Seq(Character)
    /\ tokens \in Seq(Token)
    /\ filed \in Seq(Diag)
    /\ pool \in Seq(Entry)

LastEnd == IF tokens = <<>> THEN 0 ELSE tokens[Len(tokens)].end

(* Between two tokens the lexer knows whether a line has broken since the  *)
(* last one, read in as many pieces as there were.                         *)
Marks ==
    /\ LastEnd <= pos
    /\ isStartOfLine <=> (tokens = <<>> \/ NewLineIn(LastEnd, pos))
    /\ LineStartsAreMarked

LexInv == LexTypes /\ Marks
-----------------------------------------------------------------------------
(* Pieces of the text read one after the other.                            *)
LEMMA PiecesJoin ==
    ASSUME NEW a \in Nat, NEW b \in Nat, NEW c \in Nat, a <= b, b <= c
    PROVE  NewLineIn(a, c) <=> NewLineIn(a, b) \/ NewLineIn(b, c)
<1>1. \A p : p \in a .. c - 1 <=> p \in a .. b - 1 \/ p \in b .. c - 1  OBVIOUS
<1> QED  BY <1>1 DEF NewLineIn

LEMMA AppendPut ==
    ASSUME NEW S, NEW s \in Seq(S), NEW e \in S
    PROVE  /\ Append(s, e) \in Seq(S) /\ Append(s, e) # <<>>
           /\ Len(s) \in Nat /\ Len(Append(s, e)) = Len(s) + 1
           /\ \A i \in 1 .. Len(s) : Append(s, e)[i] = s[i] /\ s[i] \in S
           /\ Append(s, e)[Len(s) + 1] = e
OBVIOUS

LEMMA LastEndIsNumber ==
    ASSUME LexTypes
    PROVE  LastEnd \in Nat /\ (tokens # <<>> => Len(tokens) \in 1 .. Len(tokens))
<1>1. tokens # <<>> => Len(tokens) \in 1 .. Len(tokens) /\ tokens[Len(tokens)] \in Token
  BY DEF LexTypes
<1> QED  BY <1>1 DEF LastEnd, Token

(* Reading on inside a token, or between tokens.                           *)
LEMMA ReadKeeps ==
    ASSUME LexInv, NEW p \in Nat, p >= pos, Read(p), UNCHANGED <<text, tokens>>
    PROVE  pos' \in Nat /\ isStartOfLine' \in BOOLEAN /\ Marks'
<1>1. LastEnd \in Nat /\ LastEnd <= pos /\ pos \in Nat  BY LastEndIsNumber DEF LexInv, LexTypes, Marks
<1>2. pos' = p /\ isStartOfLine' = (isStartOfLine \/ NewLineIn(pos, p)) /\ text' = text /\ tokens' = tokens
  BY DEF Read
<1>3. \A a, b : NewLineIn(a, b)' = NewLineIn(a, b)  BY <1>2 DEF NewLineIn, At
<1>4. LastEnd' = LastEnd  BY <1>2 DEF LastEnd
<1>5. LineStartsAreMarked'  BY <1>2, <1>3 DEF LexInv, Marks, LineStartsAreMarked
<1>6. NewLineIn(LastEnd, p) <=> NewLineIn(LastEnd, pos) \/ NewLineIn(pos, p)  BY <1>1, PiecesJoin
<1>7. isStartOfLine <=> (tokens = <<>> \/ NewLineIn(LastEnd, pos))  BY DEF LexInv, Marks
<1>8. NewLineIn(LastEnd, pos)' <=> NewLineIn(LastEnd, p)
  BY <1>2, <1>4 DEF NewLineIn, At
<1>9. isStartOfLine' <=> (tokens' = <<>> \/ NewLineIn(LastEnd, pos)')
  BY <1>2, <1>4, <1>6, <1>7, <1>8, Zenon
<1>10. LastEnd' <= pos'  BY <1>1, <1>2, <1>4
<1>11. isStartOfLine' \in BOOLEAN  BY <1>2, Zenon
<1> QED  BY <1>2, <1>5, <1>9, <1>10, <1>11 DEF Marks

(* A token ends behind what was read of it; nothing of it counts for the   *)
(* next one.                                                               *)
LEMMA MakeTokenKeeps ==
    ASSUME LexInv, NEW kind \in Kinds, NEW start \in Nat, NEW end \in Nat, end >= pos,
           NEW name \in Nat \cup {NoName}, MakeToken(kind, start, end, name), text' = text
    PROVE  tokens' \in Seq(Token) /\ pos' \in Nat /\ isStartOfLine' \in BOOLEAN /\ Marks'
<1>0. LexTypes /\ Marks  BY DEF LexInv
<1> DEFINE mark == isStartOfLine \/ NewLineIn(pos, end)
           new == [kind |-> kind, start |-> start, end |-> end, name |-> name,
                   isStartOfLine |-> mark]
<1>1. tokens' = Append(tokens, new) /\ pos' = end /\ isStartOfLine' = FALSE  BY DEF MakeToken
<1>2. mark \in BOOLEAN  BY Zenon
<1>3. new \in Token /\ new.end = end /\ new.isStartOfLine = mark
  <2> HIDE DEF mark
  <2> QED  BY <1>2 DEF Token
<1> HIDE DEF new
<1>4. /\ tokens \in Seq(Token) /\ Len(tokens) \in Nat
      /\ tokens' \in Seq(Token) /\ Len(tokens') = Len(tokens) + 1 /\ tokens' # <<>>
      /\ \A i \in 1 .. Len(tokens) : tokens'[i] = tokens[i]
      /\ tokens'[Len(tokens) + 1] = new
  <2>1. tokens \in Seq(Token) /\ new \in Token  BY <1>0, <1>3 DEF LexTypes
  <2> QED  BY <1>1, <2>1, AppendPut
<1>5. LastEnd' = end  BY <1>3, <1>4 DEF LastEnd
<1>6. ~NewLineIn(LastEnd, pos)'  BY <1>1, <1>5 DEF NewLineIn
<1>7. mark <=> (tokens = <<>> \/ NewLineIn(LastEnd, end))
  <2>1. LastEnd \in Nat /\ pos \in Nat /\ LastEnd <= pos
    BY <1>0, LastEndIsNumber DEF LexTypes, Marks
  <2>2. NewLineIn(LastEnd, end) <=> NewLineIn(LastEnd, pos) \/ NewLineIn(pos, end)
    BY <2>1, PiecesJoin
  <2> QED  BY <1>0, <2>2, Zenon DEF Marks
<1> HIDE DEF mark
<1>8. LineStartsAreMarked'
  <2>1. \A a, b : NewLineIn(a, b)' <=> NewLineIn(a, b)  BY DEF NewLineIn, At
  <2> SUFFICES ASSUME NEW i \in 1 .. Len(tokens) + 1
               PROVE  tokens'[i].isStartOfLine <=>
                        i = 1 \/ NewLineIn(tokens'[i - 1].end, tokens'[i].end)
    <3>1. DOMAIN tokens' = 1 .. Len(tokens) + 1  BY <1>4
    <3> QED  BY <2>1, <3>1 DEF LineStartsAreMarked
  <2>2. CASE i \in 1 .. Len(tokens)
    <3>1. i = 1 \/ i - 1 \in 1 .. Len(tokens)  BY <1>4, <2>2
    <3>2. tokens[i].isStartOfLine <=> i = 1 \/ NewLineIn(tokens[i - 1].end, tokens[i].end)
      BY <1>0, <1>4, <2>2 DEF Marks, LineStartsAreMarked
    <3> QED  BY <1>4, <2>2, <3>1, <3>2
  <2>3. CASE i = Len(tokens) + 1
    <3>1. tokens'[i].isStartOfLine = mark /\ tokens'[i].end = end  BY <1>3, <1>4, <2>3
    <3>2. CASE tokens = <<>>
      <4>1. i = 1  BY <2>3, <3>2
      <4> QED  BY <1>7, <3>1, <3>2, <4>1
    <3>3. CASE tokens # <<>>
      <4>1. i # 1 /\ tokens'[i - 1] = tokens[Len(tokens)]  BY <1>4, <2>3, <3>3
      <4>2. LastEnd = tokens'[i - 1].end  BY <3>3, <4>1 DEF LastEnd
      <4> QED  BY <1>7, <3>1, <3>3, <4>1, <4>2
    <3> QED  BY <3>2, <3>3
  <2> QED  BY <1>4, <2>2, <2>3
<1>9. LastEnd' <= pos'  BY <1>1, <1>5
<1>10. (isStartOfLine <=> (tokens = <<>> \/ NewLineIn(LastEnd, pos)))'
  BY <1>1, <1>4, <1>6, Zenon
<1>11. isStartOfLine' \in BOOLEAN  BY <1>1, Zenon
<1> QED  BY <1>1, <1>4, <1>8, <1>9, <1>10, <1>11 DEF Marks

(* Nothing is read.                                                        *)
LEMMA StayKeeps ==
    ASSUME LexInv, UNCHANGED <<text, pos, isStartOfLine, tokens>>
    PROVE  pos' \in Nat /\ isStartOfLine' \in BOOLEAN /\ tokens' \in Seq(Token) /\ Marks'
BY DEF LexInv, LexTypes, Marks, LastEnd, LineStartsAreMarked, NewLineIn, At
-----------------------------------------------------------------------------
(* Where the lexer stands after a step, the names and the characters that  *)
(* it writes.                                                              *)
LEMMA PlacesAreAhead ==
    ASSUME NEW p \in Nat
    PROVE  /\ After(p) \in Nat /\ After(p) >= p
           /\ After(p + 1) \in Nat /\ After(p + 1) >= p
           /\ OperatorEnd(p) \in Nat /\ OperatorEnd(p) >= p
           /\ CommentStep(p) \in Nat /\ CommentStep(p) >= p
BY DEF After, OperatorEnd, CommentStep

LEMMA CharactersAreRead ==
    ASSUME LexTypes, NEW p \in Nat, At(p) # Nul
    PROVE  At(p) \in Character
<1>1. text \in Seq(STRING)  BY DEF LexTypes
<1>2. p < Len(text) /\ At(p) = text[p + 1]  BY Zenon DEF At
<1>3. p + 1 \in 1 .. Len(text)  BY <1>1, <1>2
<1>4. text[p + 1] \in STRING  BY <1>1, <1>3
<1> QED  BY <1>2, <1>4 DEF Character

(* What is lost of a string leaves a string of the same length.            *)
LEMMA TornIsTyped ==
    ASSUME NEW entry \in Entry
    PROVE  Torn(entry) \in Entry
<1> DEFINE piece(i) == IF entry.at + Header - 2 + i < capacity THEN entry.data[i] ELSE Unwritten
           data == [i \in DOMAIN entry.data |-> piece(i)]
<1>1. entry.data \in Seq(Character) /\ entry.at \in Nat  BY DEF Entry
<1>2. \A i \in DOMAIN entry.data : piece(i) \in Character
  <2>1. Unwritten \in Character  BY DEF Character
  <2>2. \A i \in DOMAIN entry.data : entry.data[i] \in Character  BY <1>1
  <2> QED  BY <2>1, <2>2
<1> HIDE DEF piece
<1>3. data \in Seq(Character)
  <2>1. DOMAIN entry.data = 1 .. Len(entry.data) /\ Len(entry.data) \in Nat  BY <1>1
  <2>2. data = [i \in 1 .. Len(entry.data) |-> piece(i)]  BY <2>1
  <2>3. \A i \in 1 .. Len(entry.data) : piece(i) \in Character  BY <1>2, <2>1
  <2> QED  BY <2>1, <2>2, <2>3
<1>4. Torn(entry) = [entry EXCEPT !.data = data]  BY DEF Torn, piece
<1> HIDE DEF data
<1>5. [entry EXCEPT !.data = data] = [data |-> data, at |-> entry.at]  BY DEF Entry
<1> QED  BY <1>1, <1>3, <1>4, <1>5 DEF Entry

LEMMA MovedIsTyped ==
    ASSUME pool \in Seq(Entry), NEW moved \in Moved
    PROVE  moved \in Seq(Entry)
<1>1. CASE moved = pool  BY <1>1
<1>2. CASE moved # pool
  <2> DEFINE last == Torn(pool[Len(pool)])
  <2>1. moved = [pool EXCEPT ![Len(pool)] = last]  BY <1>2 DEF Moved
  <2>2. Len(pool) \in DOMAIN pool => last \in Entry  BY TornIsTyped
  <2> HIDE DEF last
  <2>3. CASE Len(pool) \in DOMAIN pool  BY <2>1, <2>2, <2>3
  <2>4. CASE Len(pool) \notin DOMAIN pool
    <3>1. [pool EXCEPT ![Len(pool)] = last] = pool  BY <2>4
    <3> QED  BY <2>1, <3>1
  <2> QED  BY <2>3, <2>4
<1> QED  BY <1>1, <1>2

LEMMA NamesAreOffsets ==
    ASSUME LexTypes, NEW data \in Seq(Character)
    PROVE  /\ NameFor(data) \in Nat
           /\ Intern(data) => pool' \in Seq(Entry)
<1>1. pool \in Seq(Entry)  BY DEF LexTypes
<1>2. \A i \in DOMAIN pool : pool[i] \in Entry  BY <1>1
<1>3. ASSUME NEW e \in Entry PROVE e.at \in Nat /\ EndOf(e) \in Nat
  BY PoolConstants DEF Entry, EndOf
<1>4. Size \in Nat
  <2>1. CASE pool = <<>>  BY <2>1 DEF Size
  <2>2. CASE pool # <<>>
    <3>1. Len(pool) \in DOMAIN pool  BY <1>1, <2>2
    <3> QED  BY <1>2, <1>3, <2>2, <3>1 DEF Size
  <2> QED  BY <2>1, <2>2
<1>5. NameFor(data) \in Nat
  <2>1. CASE Search(data) = {}  BY <1>4, <2>1 DEF NameFor
  <2>2. CASE Search(data) # {}
    <3>1. (CHOOSE i \in Search(data) : TRUE) \in DOMAIN pool  BY <2>2 DEF Search
    <3> QED  BY <1>2, <1>3, <2>2, <3>1 DEF NameFor
  <2> QED  BY <2>1, <2>2
<1>6. ASSUME Intern(data) PROVE pool' \in Seq(Entry)
  <2>1. CASE Search(data) # {}  BY <1>1, <1>6, <2>1 DEF Intern, poolVars
  <2>2. CASE Search(data) = {}
    <3> DEFINE e == [data |-> data, at |-> Size]
    <3>1. e \in Entry  BY <1>4 DEF Entry
    <3>2. PICK moved \in Moved : pool' = Append(moved, e)  BY <1>6, <2>2 DEF Intern
    <3> HIDE DEF e
    <3>3. moved \in Seq(Entry)  BY <1>1, MovedIsTyped
    <3> QED  BY <3>1, <3>2, <3>3, AppendPut
  <2> QED  BY <2>1, <2>2
<1> QED  BY <1>5, <1>6

LEMMA FiledIsTyped ==
    ASSUME LexTypes, NEW at \in Nat, NEW start \in Int, NEW end \in Int, File(at, start, end)
    PROVE  filed' \in Seq(Diag)
<1> DEFINE d == [at |-> at, start |-> start, end |-> end]
<1>1. d \in Diag  BY DEF Diag
<1>2. filed' = Append(filed, d) /\ filed \in Seq(Diag)  BY DEF File, LexTypes
<1> HIDE DEF d
<1> QED  BY <1>1, <1>2, AppendPut

LEMMA PlaceIsTyped ==
    ASSUME LexTypes, NEW at \in Nat, FileAt(at)
    PROVE  filed' \in Seq(Diag)
<1>1. -1 \in Int  OBVIOUS
<1> QED  BY <1>1, FiledIsTyped DEF FileAt

(* What a step leaves to show when the marks are known to be right.        *)
LEMMA RestIsTyped ==
    ASSUME LexInv, text' = text, tokenStart' \in Nat,
           literalBuffer' \in Seq(Character), filed' \in Seq(Diag), pool' \in Seq(Entry),
           pos' \in Nat, isStartOfLine' \in BOOLEAN, tokens' \in Seq(Token), Marks'
    PROVE  LexInv'
BY Zenon DEF LexInv, LexTypes

(* The two ways to go on: reading, and making a token.                     *)
LEMMA ReadingKeeps ==
    ASSUME LexInv, UNCHANGED <<text, tokens>>, tokenStart' \in Nat,
           literalBuffer' \in Seq(Character), filed' \in Seq(Diag), pool' \in Seq(Entry),
           NEW p \in Nat, p >= pos, Read(p)
    PROVE  LexInv'
<1>1. tokens' \in Seq(Token)  BY DEF LexInv, LexTypes
<1> QED  BY <1>1, ReadKeeps, RestIsTyped

LEMMA MakingKeeps ==
    ASSUME LexInv, UNCHANGED text, tokenStart' \in Nat,
           literalBuffer' \in Seq(Character), filed' \in Seq(Diag), pool' \in Seq(Entry),
           NEW kind \in Kinds, NEW start \in Nat, NEW end \in Nat, end >= pos,
           NEW name \in Nat \cup {NoName}, MakeToken(kind, start, end, name)
    PROVE  LexInv'
BY MakeTokenKeeps, RestIsTyped

LEMMA StayingKeeps ==
    ASSUME LexInv, UNCHANGED <<text, pos, isStartOfLine, tokens>>, tokenStart' \in Nat,
           literalBuffer' \in Seq(Character), filed' \in Seq(Diag), pool' \in Seq(Entry)
    PROVE  LexInv'
BY StayKeeps, RestIsTyped

LEMMA LexKeeps ==
    ASSUME LexInv, Lex
    PROVE  LexInv'
<1>0. LexTypes /\ Marks  BY DEF LexInv
<1>1. /\ text \in Seq(STRING) /\ pos \in Nat /\ tokenStart \in Nat
      /\ literalBuffer \in Seq(Character) /\ filed \in Seq(Diag) /\ pool \in Seq(Entry)
  BY <1>0 DEF LexTypes
<1>2. /\ After(pos) \in Nat /\ After(pos) >= pos
      /\ After(pos + 1) \in Nat /\ After(pos + 1) >= pos
      /\ OperatorEnd(pos) \in Nat /\ OperatorEnd(pos) >= pos
      /\ CommentStep(pos) \in Nat /\ CommentStep(pos) >= pos
  BY <1>1, PlacesAreAhead
<1>3. /\ pos + 1 \in Nat /\ pos + 1 >= pos /\ pos + 2 \in Nat /\ pos + 2 >= pos
      /\ pos >= pos
  BY <1>1
<1>4. NoName \in Nat \cup {NoName}  OBVIOUS
<1>5. CASE SkipBlank
  BY <1>1, <1>3, <1>5, ReadingKeeps DEF SkipBlank, Opening, poolVars
<1>6. CASE LexOperator
  <2>1. /\ UNCHANGED <<text, literalBuffer, filed, pool>> /\ tokenStart' = pos
        /\ MakeToken("operator", pos, OperatorEnd(pos), NoName)
    BY <1>6 DEF LexOperator, Opening, poolVars
  <2>2. "operator" \in Kinds  BY DEF Kinds
  <2> QED  BY <1>1, <1>2, <1>4, <2>1, <2>2, MakingKeeps
<1>7. CASE StartComment
  BY <1>1, <1>3, <1>7, ReadingKeeps DEF StartComment, Opening, poolVars
<1>8. CASE StartLongToken
  <2>1. /\ UNCHANGED <<text, tokens, filed, pool>> /\ tokenStart' = pos /\ Read(pos + 1)
        /\ literalBuffer' = <<>> \/ literalBuffer' = literalBuffer
    BY <1>8 DEF StartLongToken, Opening, poolVars
  <2>2. literalBuffer' \in Seq(Character)
    <3>1. <<>> \in Seq(Character)  OBVIOUS
    <3> QED  BY <1>1, <2>1, <3>1, Zenon
  <2> QED  BY <1>1, <1>3, <2>1, <2>2, ReadingKeeps
<1>9. CASE InvalidCharacter
  <2>1. UNCHANGED <<text, pool>> /\ tokenStart' = pos
    BY <1>9 DEF InvalidCharacter, Opening, poolVars
  <2>2. CASE Abort
    <3>1. UNCHANGED <<pos, isStartOfLine, literalBuffer, tokens, filed>>  BY <2>2 DEF Abort
    <3> QED  BY <1>1, <2>1, <3>1, StayingKeeps
  <2>3. CASE ~Abort
    <3>1. /\ FileAt(After(pos)) /\ UNCHANGED literalBuffer
          /\ MakeToken("invalid", pos, After(pos), NoName)
      BY <1>9, <2>3 DEF InvalidCharacter
    <3>2. filed' \in Seq(Diag)  BY <1>0, <1>2, <3>1, PlaceIsTyped
    <3>3. "invalid" \in Kinds  BY DEF Kinds
    <3> QED  BY <1>1, <1>2, <1>4, <2>1, <3>1, <3>2, <3>3, MakingKeeps
  <2> QED  BY <2>2, <2>3
<1>10. CASE EndOfFile
  BY <1>1, <1>10, StayingKeeps DEF EndOfFile, Opening, poolVars
<1>11. CASE LexIdentifier
  <2>1. UNCHANGED <<text, tokenStart, literalBuffer, filed, pool>>
    BY <1>11 DEF LexIdentifier, Inside, Quiet, poolVars
  <2>2. CASE Read(pos + 1) /\ UNCHANGED tokens  BY <1>1, <1>3, <2>1, <2>2, ReadingKeeps
  <2>3. ASSUME ~(Read(pos + 1) /\ UNCHANGED tokens) PROVE LexInv'
    <3> DEFINE kind == IF Part(tokenStart, pos) \in Keywords THEN "keyword" ELSE "identifier"
    <3>1. MakeToken(kind, tokenStart, pos, NoName)  BY <1>11, <2>3 DEF LexIdentifier
    <3>2. kind \in Kinds  BY DEF Kinds
    <3> HIDE DEF kind
    <3> QED  BY <1>1, <1>3, <1>4, <2>1, <3>1, <3>2, MakingKeeps
  <2> QED  BY <2>2, <2>3
<1>12. CASE LexNumber
  <2>1. UNCHANGED <<text, tokenStart, literalBuffer, filed, pool>>
    BY <1>12 DEF LexNumber, Quiet, poolVars
  <2>2. CASE Read(pos + 1) /\ UNCHANGED tokens  BY <1>1, <1>3, <2>1, <2>2, ReadingKeeps
  <2>3. ASSUME ~(Read(pos + 1) /\ UNCHANGED tokens) PROVE LexInv'
    <3> DEFINE kind == IF mode = "number" THEN "integer" ELSE "float"
    <3>1. MakeToken(kind, tokenStart, pos, NoName)  BY <1>12, <2>3 DEF LexNumber
    <3>2. kind \in Kinds  BY DEF Kinds
    <3> HIDE DEF kind
    <3> QED  BY <1>1, <1>3, <1>4, <2>1, <3>1, <3>2, MakingKeeps
  <2> QED  BY <2>2, <2>3
<1>13. CASE LexString
  <2> DEFINE c == At(pos)
             e == At(pos + 1)
  <2>1. UNCHANGED <<text, tokenStart>>  BY <1>13 DEF LexString, Inside
  <2>2. ASSUME NEW end \in Nat, end >= pos, FinishString(end), filed' \in Seq(Diag)
        PROVE  LexInv'
    <3>1. /\ MakeToken("string", tokenStart, end, NameFor(literalBuffer))
          /\ Intern(literalBuffer) /\ UNCHANGED literalBuffer
      BY <2>2 DEF FinishString
    <3>2. NameFor(literalBuffer) \in Nat \cup {NoName} /\ pool' \in Seq(Entry)
      BY <1>0, <1>1, <3>1, NamesAreOffsets
    <3>3. "string" \in Kinds  BY DEF Kinds
    <3> QED  BY <1>1, <2>1, <2>2, <3>1, <3>2, <3>3, MakingKeeps
  <2>3. ASSUME NEW char \in Character, NEW p \in Nat, p >= pos, Read(p),
               literalBuffer' = Append(literalBuffer, char), UNCHANGED <<tokens, filed, poolVars>>
        PROVE  LexInv'
    <3>1. literalBuffer' \in Seq(Character)  BY <1>1, <2>3, AppendPut
    <3> QED  BY <1>1, <2>1, <2>3, <3>1, ReadingKeeps DEF poolVars
  <2>4. CASE FinishString(pos + 1) /\ UNCHANGED filed  BY <1>1, <1>3, <2>2, <2>4
  <2>5. CASE FileAt(pos) /\ FinishString(pos)
    <3>1. filed' \in Seq(Diag)  BY <1>0, <1>1, <2>5, PlaceIsTyped
    <3> QED  BY <1>1, <1>3, <2>2, <2>5, <3>1
  <2>6. CASE /\ e \in DOMAIN Escapes /\ literalBuffer' = Append(literalBuffer, Escapes[e])
             /\ Read(pos + 2) /\ UNCHANGED <<tokens, filed, poolVars>>
    <3>1. Escapes[e] \in Character  BY <2>6 DEF Character
    <3> QED  BY <1>3, <2>3, <2>6, <3>1
  <2>7. CASE /\ FileAt(After(pos + 1)) /\ Read(After(pos + 1))
             /\ UNCHANGED <<tokens, literalBuffer, poolVars>>
    <3>1. filed' \in Seq(Diag)  BY <1>0, <1>2, <2>7, PlaceIsTyped
    <3> QED  BY <1>1, <1>2, <2>1, <2>7, <3>1, ReadingKeeps DEF poolVars
  <2>8. CASE Abort
    BY <1>1, <2>1, <2>8, StayingKeeps DEF Abort, poolVars
  <2>9. CASE /\ c # Nul /\ literalBuffer' = Append(literalBuffer, c) /\ Read(pos + 1)
             /\ UNCHANGED <<tokens, filed, poolVars>>
    <3>1. c \in Character  BY <1>0, <1>1, <2>9, CharactersAreRead
    <3> QED  BY <1>3, <2>3, <2>9, <3>1
  <2> HIDE DEF c, e
  <2> QED  BY <1>13, <2>4, <2>5, <2>6, <2>7, <2>8, <2>9 DEF LexString, c, e
<1>14. CASE EatLineComment
  <2>1. UNCHANGED <<text, tokens, tokenStart, literalBuffer, filed, pool>>
    BY <1>14 DEF EatLineComment, Inside, Quiet, poolVars
  <2>2. UNCHANGED <<pos, isStartOfLine>> \/ Read(pos + 1)  BY <1>14 DEF EatLineComment
  <2> QED  BY <1>1, <1>3, <2>1, <2>2, StayingKeeps, ReadingKeeps
<1>15. CASE LexBlockComment
  <2>1. UNCHANGED <<text, tokens, tokenStart, literalBuffer, pool>>
    BY <1>15 DEF LexBlockComment, Inside, poolVars
  <2>2. \/ FileAt(pos) /\ UNCHANGED <<pos, isStartOfLine>>
        \/ UNCHANGED <<pos, isStartOfLine, filed>>
        \/ Read(CommentStep(pos)) /\ UNCHANGED filed
    BY <1>15 DEF LexBlockComment
  <2>3. filed' \in Seq(Diag)  BY <1>0, <1>1, <2>2, PlaceIsTyped
  <2> QED  BY <1>1, <1>2, <2>1, <2>2, <2>3, StayingKeeps, ReadingKeeps
<1> QED
  BY <1>5, <1>6, <1>7, <1>8, <1>9, <1>10, <1>11, <1>12, <1>13, <1>14, <1>15 DEF Lex

(* The parser and the analysis only add errors, the report reads.          *)
LEMMA ComplainKeeps ==
    ASSUME LexInv, Complain \/ GiveUp
    PROVE  LexInv'
<1>0. LexTypes  BY DEF LexInv
<1>1. UNCHANGED <<text, pos, mode, tokenStart, isStartOfLine, literalBuffer, tokens, pool>>
  BY DEF Complain, GiveUp, NothingIsRead, poolVars
<1>2. PICK token \in CurrentToken \cup AnyToken :
          File(token.start, token.start, token.end) \/ FileAt(token.start)
  BY DEF Complain, GiveUp
<1>3. token.start \in Nat /\ token.end \in Nat
  <2>1. CASE token \in {tokens[i] : i \in DOMAIN tokens}
    <3>1. token \in Token  BY <1>0, <2>1 DEF LexTypes
    <3> QED  BY <3>1 DEF Token
  <2>2. CASE token = [start |-> 0, end |-> 0]  BY <2>2
  <2> QED  BY <1>2, <2>1, <2>2 DEF CurrentToken, AnyToken
<1>4. filed' \in Seq(Diag)
  <2>1. token.start \in Int /\ token.end \in Int  BY <1>3
  <2>2. CASE File(token.start, token.start, token.end)
    BY <1>0, <1>3, <2>1, <2>2, FiledIsTyped
  <2>3. CASE FileAt(token.start)  BY <1>0, <1>3, <2>3, PlaceIsTyped
  <2> QED  BY <1>2, <2>2, <2>3
<1> QED  BY <1>0, <1>1, <1>4, StayingKeeps DEF LexTypes

LEMMA LexUnchanged ==
    ASSUME LexInv, UNCHANGED lexVars
    PROVE  LexInv'
BY StayingKeeps DEF LexInv, LexTypes, lexVars, poolVars

LEMMA LexInvInit == Init => LexInv
<1> SUFFICES ASSUME Init PROVE LexInv  OBVIOUS
<1>1. /\ text \in Texts /\ pos = 0 /\ tokenStart = 0 /\ isStartOfLine = TRUE
      /\ literalBuffer = <<>> /\ tokens = <<>> /\ filed = <<>> /\ pool = <<>>
  BY DEF Init, LexInit, PoolInit
<1>2. text \in Seq(STRING)  BY <1>1, ReportingConstants
<1>3. LexTypes
  <2>1. isStartOfLine \in BOOLEAN  BY <1>1, Zenon
  <2> QED  BY <1>1, <1>2, <2>1 DEF LexTypes
<1>4. Marks
  <2>1. LineStartsAreMarked  BY <1>1 DEF LineStartsAreMarked
  <2>2. isStartOfLine <=> (tokens = <<>> \/ NewLineIn(LastEnd, pos))  BY <1>1, Zenon
  <2>3. LastEnd <= pos  BY <1>1 DEF LastEnd
  <2> QED  BY <2>1, <2>2, <2>3 DEF Marks
<1> QED  BY <1>3, <1>4 DEF LexInv

LEMMA LexInvNext == LexInv /\ [Next]_vars => LexInv'
<1> SUFFICES ASSUME LexInv, [Next]_vars PROVE LexInv'  OBVIOUS
<1>1. CASE LexStep  BY <1>1, LexKeeps DEF LexStep
<1>2. CASE Complain \/ GiveUp  BY <1>2, ComplainKeeps
<1>3. CASE EndParse \/ StartReport \/ Show \/ FinishReport \/ UNCHANGED vars
  BY <1>3, LexUnchanged DEF EndParse, StartReport, Show, FinishReport, vars
<1> QED  BY <1>1, <1>2, <1>3 DEF Next, Work

(* The mark by which the parser ends statements is set for a token exactly *)
(* if a line breaks between the token before it and its own end, in        *)
(* comments or in blanks, and never left over from an earlier token.       *)
THEOREM LinesBreakWhereMarked == Spec => []LineStartsAreMarked
<1>1. LexInv => LineStartsAreMarked  BY DEF LexInv, Marks
<1> QED  BY <1>1, LexInvInit, LexInvNext, PTL DEF Spec
-----------------------------------------------------------------------------
(* A finite set of numbers in ascending order.                             *)
Below(S, x) == {y \in S : y < x}
UpTo(S, x)  == {y \in S : y <= x}

LEMMA BelowIsMonotone ==
    ASSUME NEW S \in SUBSET Nat, NEW a \in Nat, NEW b \in Nat
    PROVE  /\ a <= b => UpTo(S, a) \in SUBSET UpTo(S, b)
           /\ ~(b <= a) => UpTo(S, a) \in SUBSET Below(S, b)
<1>1. a <= b => \A y \in S : y <= a => y <= b  OBVIOUS
<1>2. ~(b <= a) => \A y \in S : y <= a => y < b  OBVIOUS
<1> QED  BY <1>1, <1>2 DEF UpTo, Below

LEMMA CountsGrow ==
    ASSUME NEW S, IsFiniteSet(S), NEW T \in SUBSET S
    PROVE  /\ IsFiniteSet(T) /\ Cardinality(T) \in Nat /\ Cardinality(S) \in Nat
           /\ Cardinality(T) <= Cardinality(S)
           /\ S # T => Cardinality(T) < Cardinality(S)
<1>1. IsFiniteSet(T) /\ Cardinality(T) <= Cardinality(S) /\ (Cardinality(S) = Cardinality(T) => S = T)
  BY FS_Subset
<1>2. Cardinality(T) \in Nat /\ Cardinality(S) \in Nat  BY <1>1, FS_CardinalityType
<1> QED  BY <1>1, <1>2

LEMMA SameCardinality ==
    ASSUME NEW S
    PROVE  L!Cardinality(S) = Cardinality(S)
BY DEF L!Cardinality, Cardinality

LEMMA BelowGrows ==
    ASSUME NEW S \in SUBSET Nat, IsFiniteSet(S), NEW x \in S, NEW z \in S
    PROVE  /\ Cardinality(Below(S, x)) \in 0 .. Cardinality(S) - 1
           /\ Cardinality(UpTo(S, x)) = Cardinality(Below(S, x)) + 1
           /\ x < z <=> Cardinality(Below(S, x)) < Cardinality(Below(S, z))
           /\ x = z <=> Cardinality(Below(S, x)) = Cardinality(Below(S, z))
<1>1. ASSUME NEW a \in S
      PROVE  /\ IsFiniteSet(Below(S, a)) /\ Cardinality(Below(S, a)) \in Nat
             /\ Cardinality(Below(S, a)) < Cardinality(S) /\ Cardinality(S) \in Nat
  <2>1. Below(S, a) \in SUBSET S /\ S # Below(S, a)  BY DEF Below
  <2> QED  BY <2>1, CountsGrow
<1>2. ASSUME NEW a \in S, NEW b \in S, a < b
      PROVE  Cardinality(Below(S, a)) < Cardinality(Below(S, b))
  <2>1. Below(S, a) \in SUBSET Below(S, b)
    <3>1. \A y \in S : y < a => y < b  BY <1>2
    <3> QED  BY <3>1 DEF Below
  <2>2. a \in Below(S, b) /\ a \notin Below(S, a)  BY <1>2 DEF Below
  <2> QED  BY <1>1, <2>1, <2>2, CountsGrow
<1>3. UpTo(S, x) = Below(S, x) \cup {x} /\ x \notin Below(S, x)
  <2>1. \A y \in S : y <= x <=> y < x \/ y = x  OBVIOUS
  <2>2. \A y : y \in UpTo(S, x) <=> y \in S /\ y <= x  BY Zenon DEF UpTo
  <2>3. \A y : y \in Below(S, x) <=> y \in S /\ y < x  BY Zenon DEF Below
  <2>4. \A y : y \in UpTo(S, x) <=> y \in Below(S, x) \cup {x}  BY <2>1, <2>2, <2>3
  <2>5. ~(x < x)  OBVIOUS
  <2> QED  BY <2>3, <2>4, <2>5
<1>4. Cardinality(UpTo(S, x)) = Cardinality(Below(S, x)) + 1  BY <1>1, <1>3, FS_AddElement
<1>5. x < z \/ x = z \/ z < x  OBVIOUS
<1>6. /\ Cardinality(Below(S, x)) \in Nat /\ Cardinality(Below(S, z)) \in Nat
      /\ Cardinality(Below(S, x)) < Cardinality(S) /\ Cardinality(S) \in Nat
  BY <1>1
<1>7. /\ x < z => Cardinality(Below(S, x)) < Cardinality(Below(S, z))
      /\ z < x => Cardinality(Below(S, z)) < Cardinality(Below(S, x))
  BY <1>2
<1> HIDE DEF Below, UpTo
<1> QED  BY <1>4, <1>5, <1>6, <1>7

(* Every rank from 1 on is taken by exactly one member.                    *)
LEMMA AscendingOrders ==
    ASSUME NEW S \in SUBSET Nat, IsFiniteSet(S)
    PROVE  LET A == L!Ascending(S)
               n == Cardinality(S)
           IN  /\ n \in Nat
               /\ A \in [1 .. n -> S] /\ A \in Seq(Nat) /\ Len(A) = n
               /\ \A i \in 1 .. n : Cardinality(Below(S, A[i])) = i - 1
               /\ \A i, j \in 1 .. n : i < j => A[i] < A[j]
               /\ \A x \in S : \E i \in 1 .. n : A[i] = x
               /\ \A x \in Nat : \A i \in 1 .. n : A[i] <= x <=> i <= Cardinality(UpTo(S, x))
               /\ \A x \in Nat : Cardinality(UpTo(S, x)) \in 0 .. n
<1> DEFINE A == L!Ascending(S)
           n == Cardinality(S)
           rank == [x \in S |-> Cardinality(Below(S, x))]
<1>1. n \in Nat  BY FS_CardinalityType
<1>2. rank \in Injection(S, 0 .. n - 1)
  <2>1. rank \in [S -> 0 .. n - 1]  BY BelowGrows
  <2>2. \A x, z \in S : rank[x] = rank[z] => x = z  BY BelowGrows
  <2> HIDE DEF rank
  <2> QED  BY <2>1, <2>2 DEF Injection, IsInjective
<1>3. rank \in Surjection(S, 0 .. n - 1)
  <2>1. IsFiniteSet(0 .. n - 1) /\ Cardinality(0 .. n - 1) = n
    <3>1. 0 \in Int /\ n - 1 \in Int  BY <1>1
    <3>2. IsFiniteSet(0 .. n - 1) /\ Cardinality(0 .. n - 1) = IF 0 > n - 1 THEN 0 ELSE n - 1 - 0 + 1
      BY <3>1, FS_Interval
    <3> HIDE DEF n
    <3> QED  BY <1>1, <3>2
  <2> HIDE DEF rank
  <2> QED  BY <1>2, <2>1, FS_Injection DEF n
<1>4. A = [i \in 1 .. n |-> CHOOSE x \in S : L!Cardinality({y \in S : y < x}) = i - 1]
  <2>1. L!Cardinality(S) = n  BY SameCardinality
  <2> HIDE DEF n
  <2> QED  BY <2>1, Zenon DEF L!Ascending
<1>5. ASSUME NEW i \in 1 .. n
      PROVE  A[i] \in S /\ Cardinality(Below(S, A[i])) = i - 1
  <2>1. i - 1 \in 0 .. n - 1
    <3> HIDE DEF n
    <3> QED  BY <1>1
  <2>2. \E x \in S : rank[x] = i - 1
    <3> HIDE DEF rank, n
    <3> QED  BY <1>3, <2>1 DEF Surjection
  <2>3. \A x : L!Cardinality({y \in S : y < x}) = Cardinality(Below(S, x))
    BY SameCardinality DEF Below
  <2>4. \E x \in S : L!Cardinality({y \in S : y < x}) = i - 1  BY <2>2, <2>3
  <2>5. A[i] = CHOOSE x \in S : L!Cardinality({y \in S : y < x}) = i - 1  BY <1>4
  <2>6. A[i] \in S /\ L!Cardinality({y \in S : y < A[i]}) = i - 1
    <3> HIDE DEF A
    <3> QED  BY <2>4, <2>5, Zenon
  <2> HIDE DEF A
  <2> QED  BY <2>3, <2>6
<1>6. A \in [1 .. n -> S]
  <2>1. \A i \in 1 .. n : A[i] \in S  BY <1>5
  <2>2. A = [i \in 1 .. n |-> A[i]]  BY <1>4
  <2> HIDE DEF A, n
  <2> QED  BY <2>1, <2>2
<1>7. A \in Seq(Nat) /\ Len(A) = n
  <2> HIDE DEF A, n
  <2>1. A \in [1 .. n -> Nat]  BY <1>6
  <2> QED  BY <1>1, <2>1
<1>8. \A i, j \in 1 .. n : i < j => A[i] < A[j]
  <2> SUFFICES ASSUME NEW i \in 1 .. n, NEW j \in 1 .. n, i < j PROVE A[i] < A[j]  OBVIOUS
  <2>1. Cardinality(Below(S, A[i])) = i - 1 /\ Cardinality(Below(S, A[j])) = j - 1
    BY <1>5
  <2>2. A[i] < A[j] <=> Cardinality(Below(S, A[i])) < Cardinality(Below(S, A[j]))
    BY <1>5, BelowGrows
  <2> HIDE DEF A, n
  <2> QED  BY <1>1, <2>1, <2>2
<1>9. \A x \in S : \E i \in 1 .. n : A[i] = x
  <2> SUFFICES ASSUME NEW x \in S PROVE \E i \in 1 .. n : A[i] = x  OBVIOUS
  <2> DEFINE i == Cardinality(Below(S, x)) + 1
  <2>1. Cardinality(Below(S, x)) \in 0 .. n - 1  BY BelowGrows
  <2>2. i \in 1 .. n /\ i - 1 = Cardinality(Below(S, x))
    <3> HIDE DEF n
    <3> QED  BY <1>1, <2>1
  <2>3. A[i] \in S /\ Cardinality(Below(S, A[i])) = Cardinality(Below(S, x))
    <3> HIDE DEF i, A
    <3> QED  BY <1>5, <2>2
  <2>4. A[i] = x
    <3> HIDE DEF i, A
    <3> QED  BY <2>3, BelowGrows
  <2> HIDE DEF i, A, n
  <2> QED  BY <2>2, <2>4
<1>10. ASSUME NEW x \in Nat
       PROVE  /\ Cardinality(UpTo(S, x)) \in 0 .. n
              /\ \A i \in 1 .. n : A[i] <= x <=> i <= Cardinality(UpTo(S, x))
  <2>1. UpTo(S, x) \in SUBSET S  BY DEF UpTo
  <2>2. /\ IsFiniteSet(UpTo(S, x)) /\ Cardinality(UpTo(S, x)) \in Nat
        /\ Cardinality(UpTo(S, x)) <= n
    BY <2>1, CountsGrow
  <2>3. ASSUME NEW i \in 1 .. n, A[i] <= x PROVE i <= Cardinality(UpTo(S, x))
    <3>1. A[i] \in S /\ Cardinality(Below(S, A[i])) = i - 1  BY <1>5
    <3>2. UpTo(S, A[i]) \in SUBSET UpTo(S, x)
      <4> HIDE DEF A, n
      <4>1. A[i] \in Nat  BY <3>1
      <4> QED  BY <2>3, <4>1, BelowIsMonotone
    <3>3. Cardinality(UpTo(S, A[i])) = i
      <4>1. Cardinality(UpTo(S, A[i])) = Cardinality(Below(S, A[i])) + 1  BY <3>1, BelowGrows
      <4> HIDE DEF A, n
      <4> QED  BY <1>1, <3>1, <4>1
    <3>4. Cardinality(UpTo(S, A[i])) <= Cardinality(UpTo(S, x))
      BY <2>2, <3>2, CountsGrow
    <3> QED  BY <3>3, <3>4
  <2>4. ASSUME NEW i \in 1 .. n, ~(A[i] <= x) PROVE Cardinality(UpTo(S, x)) <= i - 1
    <3>1. A[i] \in S /\ Cardinality(Below(S, A[i])) = i - 1  BY <1>5
    <3>2. UpTo(S, x) \in SUBSET Below(S, A[i]) /\ Below(S, A[i]) \in SUBSET S
      <4> HIDE DEF A, n
      <4>1. A[i] \in Nat  BY <3>1
      <4>2. UpTo(S, x) \in SUBSET Below(S, A[i])  BY <2>4, <4>1, BelowIsMonotone
      <4> QED  BY <4>2 DEF Below
    <3>3. IsFiniteSet(Below(S, A[i]))  BY <3>2, CountsGrow
    <3>4. Cardinality(UpTo(S, x)) <= Cardinality(Below(S, A[i]))  BY <3>2, <3>3, CountsGrow
    <3> QED  BY <3>1, <3>4
  <2> HIDE DEF A, n
  <2> QED  BY <1>1, <2>2, <2>3, <2>4
<1> HIDE DEF A, n
<1>11. QED  BY <1>1, <1>5, <1>6, <1>7, <1>8, <1>9, <1>10 DEF A, n
-----------------------------------------------------------------------------
(* A table of line starts, right as far as it goes.                        *)
Increases(s)     == \A i, j \in 1 .. Len(s) : i < j => s[i] < s[j]
FollowsBreak(s)  == \A i \in 2 .. Len(s) : At(s[i] - 1) = NewLine
Knows(s, p)      == At(p) = NewLine => \E i \in 2 .. Len(s) : s[i] = p + 1

Table(s) ==
    /\ s \in Seq(Nat) /\ Len(s) > 0 /\ s[1] = 0
    /\ Increases(s)
    /\ FollowsBreak(s)
    /\ \A p \in 0 .. s[Len(s)] - 1 : Knows(s, p)

BreaksBefore(loc) == {p \in 0 .. loc - 1 : At(p) = NewLine}

(* Whatever way a line was found: if it starts at the place or before it   *)
(* and the next one behind it, and every break before the place is in the  *)
(* table, then it is as many lines down as breaks have been passed.        *)
LEMMA LineIsCounted ==
    ASSUME NEW s, Table(s), NEW loc \in Nat, NEW l \in 1 .. Len(s),
           s[l] <= loc, l < Len(s) => loc < s[l + 1],
           \A p \in 0 .. loc - 1 : Knows(s, p)
    PROVE  /\ l = 1 + Cardinality(BreaksBefore(loc))
           /\ s[l] - 1 = -1 \/ At(s[l] - 1) = NewLine
           /\ ~NewLineIn(s[l], loc)
<1>1. s \in Seq(Nat) /\ Len(s) \in Nat /\ \A i \in 1 .. Len(s) : s[i] \in Nat
  BY DEF Table
<1>2. ASSUME NEW i \in 1 .. Len(s), NEW j \in 1 .. Len(s), i < j PROVE s[i] < s[j]
  BY <1>2 DEF Table, Increases
<1>3. ASSUME NEW p \in 0 .. loc - 1, At(p) = NewLine
      PROVE  \E i \in 2 .. l : s[i] = p + 1
  <2>1. PICK i \in 2 .. Len(s) : s[i] = p + 1  BY <1>3 DEF Knows
  <2>2. ASSUME i > l PROVE FALSE
    <3>1. l + 1 \in 1 .. Len(s) /\ loc < s[l + 1]  BY <1>1, <2>2
    <3>2. s[l + 1] <= s[i]
      <4>1. CASE l + 1 = i  BY <1>1, <3>1, <4>1
      <4>2. CASE l + 1 < i  BY <1>1, <1>2, <3>1, <4>2
      <4> QED  BY <1>1, <2>2, <4>1, <4>2
    <3> QED  BY <1>1, <2>1, <3>1, <3>2
  <2> QED  BY <1>1, <2>1, <2>2
<1>4. ASSUME NEW i \in 2 .. l
      PROVE  s[i] - 1 \in BreaksBefore(loc)
  <2>1. i \in 2 .. Len(s) /\ 1 \in 1 .. Len(s) /\ i \in 1 .. Len(s)  BY <1>1
  <2>2. s[i] <= s[l]
    <3>1. CASE i = l  BY <1>1, <3>1
    <3>2. CASE i < l  BY <1>1, <1>2, <2>1, <3>2
    <3> QED  BY <1>1, <3>1, <3>2
  <2>3. s[1] < s[i]  BY <1>2, <2>1
  <2>4. s[i] - 1 \in 0 .. loc - 1  BY <1>1, <2>1, <2>2, <2>3 DEF Table
  <2> QED  BY <2>1, <2>4 DEF Table, FollowsBreak, BreaksBefore
<1>5. l - 1 \in Nat  BY <1>1
<1> DEFINE f == [i \in 1 .. l - 1 |-> s[i + 1] - 1]
<1>6. f \in Bijection(1 .. l - 1, BreaksBefore(loc))
  <2>1. \A i \in 1 .. l - 1 : f[i] \in BreaksBefore(loc)
    <3> SUFFICES ASSUME NEW i \in 1 .. l - 1 PROVE s[i + 1] - 1 \in BreaksBefore(loc)  OBVIOUS
    <3>1. i + 1 \in 2 .. l  BY <1>1
    <3> QED  BY <1>4, <3>1
  <2>2. f \in [1 .. l - 1 -> BreaksBefore(loc)]  BY <2>1
  <2>3. \A i, j \in 1 .. l - 1 : f[i] = f[j] => i = j
    <3> SUFFICES ASSUME NEW i \in 1 .. l - 1, NEW j \in 1 .. l - 1, i < j
                 PROVE  f[i] # f[j]
      BY <1>5
    <3>1. i + 1 \in 1 .. Len(s) /\ j + 1 \in 1 .. Len(s) /\ i + 1 < j + 1  BY <1>1
    <3>2. s[i + 1] < s[j + 1]  BY <1>2, <3>1
    <3> QED  BY <1>1, <3>1, <3>2
  <2>4. \A p \in BreaksBefore(loc) : \E i \in 1 .. l - 1 : f[i] = p
    <3> SUFFICES ASSUME NEW p \in BreaksBefore(loc) PROVE \E i \in 1 .. l - 1 : f[i] = p
      OBVIOUS
    <3>1. PICK i \in 2 .. l : s[i] = p + 1  BY <1>3 DEF BreaksBefore
    <3>2. i - 1 \in 1 .. l - 1 /\ i - 1 + 1 = i  BY <1>1
    <3>3. p \in Int  BY DEF BreaksBefore
    <3>4. f[i - 1] = s[i] - 1  BY <3>2
    <3>5. f[i - 1] = p  BY <3>1, <3>3, <3>4
    <3> HIDE DEF f
    <3> QED  BY <3>2, <3>5
  <2> HIDE DEF f
  <2>5. f \in Injection(1 .. l - 1, BreaksBefore(loc))
    BY <2>2, <2>3 DEF Injection, IsInjective
  <2>6. f \in Surjection(1 .. l - 1, BreaksBefore(loc))  BY <2>2, <2>4 DEF Surjection
  <2> QED  BY <2>5, <2>6 DEF Bijection
<1>7. Cardinality(BreaksBefore(loc)) = l - 1
  BY <1>5, <1>6, FS_CountingElements DEF ExistsBijection
<1>8. s[l] - 1 = -1 \/ At(s[l] - 1) = NewLine
  <2>1. CASE l = 1  BY <2>1 DEF Table
  <2>2. CASE l # 1
    <3>1. l \in 2 .. Len(s)  BY <1>1, <2>2
    <3> QED  BY <3>1 DEF Table, FollowsBreak
  <2> QED  BY <2>1, <2>2
<1>9. ASSUME NEW p \in s[l] .. loc - 1, At(p) = NewLine PROVE FALSE
  <2>1. p \in 0 .. loc - 1  BY <1>1
  <2>2. PICK i \in 2 .. l : s[i] = p + 1  BY <1>3, <1>9, <2>1
  <2>3. s[i] <= s[l]
    <3>1. CASE i = l  BY <1>1, <3>1
    <3>2. CASE i < l  BY <1>1, <1>2, <3>2
    <3> QED  BY <1>1, <3>1, <3>2
  <2> QED  BY <1>1, <2>1, <2>2, <2>3
<1> QED  BY <1>1, <1>7, <1>8, <1>9 DEF NewLineIn

LEMMA JoinedSequences ==
    ASSUME NEW a \in Seq(Nat), NEW b \in Seq(Nat)
    PROVE  /\ a \o b \in Seq(Nat) /\ Len(a \o b) = Len(a) + Len(b)
           /\ \A i \in 1 .. Len(a) : (a \o b)[i] = a[i]
           /\ \A i \in 1 .. Len(b) : (a \o b)[Len(a) + i] = b[i]
OBVIOUS

(* The scan for new lines adds the starts it passes, in order, up to the   *)
(* first one behind the place; the line it answers holds the place.        *)
LEMMA LinesAreAdded ==
    ASSUME text \in Seq(STRING), Table(lines), NEW loc \in Nat, loc >= L!LastStart,
           loc < Len(text)
    PROVE  LET s == lines \o L!Ascending({p + 1 : p \in L!Found(loc)})
               l == L!LineInserted(loc)
           IN  /\ Table(s)
               /\ l \in 1 .. Len(s) /\ s[l] <= loc /\ (l < Len(s) => loc < s[l + 1])
               /\ \A p \in 0 .. loc - 1 : Knows(s, p)
<1> DEFINE m    == Len(lines)
           last == lines[m]
           G    == {p + 1 : p \in L!Found(loc)}
           A    == L!Ascending(G)
           n    == Cardinality(G)
           k    == Cardinality(UpTo(G, loc))
           s    == lines \o A
           l    == L!LineInserted(loc)
<1>1. /\ lines \in Seq(Nat) /\ m \in Nat /\ m > 0 /\ last \in Nat /\ last <= loc
      /\ \A i \in 1 .. m : lines[i] \in Nat
  BY DEF Table, L!LastStart
<1>2. Len(text) \in Nat  OBVIOUS
<1>3. ASSUME NEW p \in Nat PROVE At(p) = NewLine <=> p < Len(text) /\ text[p + 1] = "\n"
  BY DEF At, NewLine, Nul
<1>4. /\ \A p \in L!Found(loc) : p \in last .. Len(text) - 1 /\ At(p) = NewLine
      /\ \A p \in L!Found(loc) : \A q \in loc .. Len(text) - 1 : At(q) = NewLine => p <= q
      /\ \A p \in last .. Len(text) - 1 :
            At(p) = NewLine /\ (\A q \in loc .. Len(text) - 1 : At(q) = NewLine => p <= q)
               => p \in L!Found(loc)
  <2>1. \A from \in Nat : \A p : p \in L!NewLines(from) <=> p \in from .. Len(text) - 1 /\ At(p) = NewLine
    BY <1>2, <1>3 DEF L!NewLines
  <2>2. \A p : p \in L!Found(loc) <=> p \in L!NewLines(last) /\ \A q \in L!NewLines(loc) : p <= q
    BY Zenon DEF L!Found, L!LastStart
  <2> HIDE DEF last
  <2> QED  BY <1>1, <2>1, <2>2
<1>5. L!Found(loc) \in SUBSET (last .. Len(text) - 1) /\ IsFiniteSet(last .. Len(text) - 1)
  <2>1. Len(text) - 1 \in Int /\ last \in Int  BY <1>1, <1>2
  <2> HIDE DEF last
  <2> QED  BY <1>4, <2>1, FS_Interval
<1>6. G \in SUBSET Nat /\ \A x \in G : x > last
  <2> HIDE DEF last, m
  <2> QED  BY <1>1, <1>2, <1>4
<1>7. IsFiniteSet(G)
  <2>1. IsFiniteSet(L!Found(loc))  BY <1>5, FS_Subset
  <2>2. [p \in L!Found(loc) |-> p + 1] \in Surjection(L!Found(loc), G)  BY DEF Surjection
  <2> QED  BY <2>1, <2>2, FS_Surjection
<1>8. /\ n \in Nat /\ A \in [1 .. n -> G] /\ A \in Seq(Nat) /\ Len(A) = n
      /\ \A i, j \in 1 .. n : i < j => A[i] < A[j]
      /\ \A x \in G : \E i \in 1 .. n : A[i] = x
      /\ \A i \in 1 .. n : A[i] <= loc <=> i <= k
      /\ k \in 0 .. n
  <2> HIDE DEF G
  <2> QED  BY <1>6, <1>7, AscendingOrders
<1> HIDE DEF A
<1>9. /\ s \in Seq(Nat) /\ Len(s) = m + n
      /\ \A i \in 1 .. m : s[i] = lines[i]
      /\ \A i \in 1 .. n : s[m + i] = A[i]
      /\ \A i \in 1 .. m + n : i \in 1 .. m \/ (i - m \in 1 .. n /\ s[i] = A[i - m])
  <2>1. lines \in Seq(Nat) /\ A \in Seq(Nat) /\ Len(A) = n  BY <1>1, <1>8
  <2>2. /\ s \in Seq(Nat) /\ Len(s) = m + n
        /\ \A i \in 1 .. m : s[i] = lines[i]
        /\ \A i \in 1 .. n : s[m + i] = A[i]
    <3>1. /\ lines \o A \in Seq(Nat) /\ Len(lines \o A) = Len(lines) + Len(A)
          /\ \A i \in 1 .. Len(lines) : (lines \o A)[i] = lines[i]
          /\ \A i \in 1 .. Len(A) : (lines \o A)[Len(lines) + i] = A[i]
      BY <2>1, JoinedSequences
    <3> HIDE DEF n
    <3> QED  BY <2>1, <3>1, Zenon
  <2> HIDE DEF n, m, s
  <2>3. ASSUME NEW i \in 1 .. m + n, i \notin 1 .. m
        PROVE  i - m \in 1 .. n /\ s[i] = A[i - m]
    <3>1. i - m \in 1 .. n /\ m + (i - m) = i  BY <1>1, <1>8, <2>3
    <3> QED  BY <2>2, <3>1
  <2> QED  BY <2>2, <2>3
<1> HIDE DEF s
<1>10. \A i \in 1 .. n : A[i] \in G /\ A[i] - 1 \in L!Found(loc) /\ A[i] > last /\ A[i] \in Nat
  <2> SUFFICES ASSUME NEW i \in 1 .. n
               PROVE  A[i] \in G /\ A[i] - 1 \in L!Found(loc) /\ A[i] > last /\ A[i] \in Nat
    OBVIOUS
  <2>1. A[i] \in G  BY <1>8
  <2>2. PICK p \in L!Found(loc) : A[i] = p + 1  BY <2>1
  <2>3. p \in Int  BY <1>4, <2>2
  <2>4. A[i] - 1 = p  BY <2>2, <2>3
  <2> QED  BY <1>6, <2>1, <2>2, <2>4
<1>11. l = m + k
  <2>1. l = m + Cardinality({p \in L!Found(loc) : p < loc})
    BY SameCardinality DEF L!LineInserted
  <2> DEFINE B == {p \in L!Found(loc) : p < loc}
             g == [p \in B |-> p + 1]
  <2>2. \A p \in L!Found(loc) : p \in Int  BY <1>4
  <2>3. g \in Bijection(B, UpTo(G, loc))
    <3>1. \A p \in B : p + 1 \in UpTo(G, loc)  BY <2>2 DEF UpTo
    <3>2. \A x \in UpTo(G, loc) : \E p \in B : p + 1 = x
      <4> SUFFICES ASSUME NEW x \in UpTo(G, loc) PROVE \E p \in B : p + 1 = x  OBVIOUS
      <4>1. PICK p \in L!Found(loc) : x = p + 1  BY DEF UpTo
      <4>2. p < loc  BY <2>2, <4>1 DEF UpTo
      <4> QED  BY <4>1, <4>2
    <3>3. \A p, q \in B : p + 1 = q + 1 => p = q  BY <2>2
    <3>4. g \in [B -> UpTo(G, loc)] /\ \A p \in B : g[p] = p + 1  BY <3>1
    <3> HIDE DEF g, B, G
    <3>5. g \in Injection(B, UpTo(G, loc))  BY <3>3, <3>4 DEF Injection, IsInjective
    <3>6. g \in Surjection(B, UpTo(G, loc))  BY <3>2, <3>4 DEF Surjection
    <3> QED  BY <3>5, <3>6 DEF Bijection
  <2>4. B \in SUBSET L!Found(loc)  OBVIOUS
  <2>5. IsFiniteSet(L!Found(loc))  BY <1>5, FS_Subset
  <2>6. IsFiniteSet(B)  BY <2>4, <2>5, FS_Subset
  <2>7. Cardinality(UpTo(G, loc)) = Cardinality(B)
    <3> HIDE DEF B, G, g
    <3> QED  BY <2>3, <2>6, FS_Bijection DEF ExistsBijection
  <2> HIDE DEF l, m
  <2> QED  BY <2>1, <2>7
<1> HIDE DEF l, k, n, G
<1>12. l \in 1 .. Len(s) /\ s[l] <= loc /\ (l < Len(s) => loc < s[l + 1])
  <2>1. l \in 1 .. Len(s)  BY <1>1, <1>8, <1>9, <1>11
  <2>2. s[l] <= loc
    <3>1. CASE k = 0
      <4>1. l = m /\ m \in 1 .. m  BY <1>1, <1>11, <3>1
      <4> QED  BY <1>1, <1>9, <4>1
    <3>2. CASE k # 0
      <4>1. k \in 1 .. n /\ k <= k  BY <1>8, <3>2
      <4> QED  BY <1>8, <1>9, <1>11, <4>1
    <3> QED  BY <3>1, <3>2
  <2>3. ASSUME l < Len(s) PROVE loc < s[l + 1]
    <3>1. k + 1 \in 1 .. n /\ ~(k + 1 <= k) /\ l + 1 = m + (k + 1)
      BY <1>1, <1>8, <1>9, <1>11, <2>3
    <3>2. ~(A[k + 1] <= loc) /\ A[k + 1] \in Nat  BY <1>8, <1>10, <3>1
    <3>3. s[l + 1] = A[k + 1]  BY <1>9, <3>1
    <3> QED  BY <3>2, <3>3
  <2> QED  BY <2>1, <2>2, <2>3
<1>13. \A p \in L!Found(loc) : \E i \in 2 .. Len(s) : s[i] = p + 1
  <2> SUFFICES ASSUME NEW p \in L!Found(loc) PROVE \E i \in 2 .. Len(s) : s[i] = p + 1  OBVIOUS
  <2>1. p + 1 \in G  BY DEF G
  <2>2. PICK i \in 1 .. n : A[i] = p + 1  BY <1>8, <2>1
  <2>3. m + i \in 2 .. Len(s) /\ s[m + i] = p + 1  BY <1>1, <1>8, <1>9, <2>2
  <2> QED  BY <2>3
<1>14. \A p \in 0 .. last - 1 : Knows(s, p)
  <2> SUFFICES ASSUME NEW p \in 0 .. last - 1, At(p) = NewLine
               PROVE  \E i \in 2 .. Len(s) : s[i] = p + 1
    BY DEF Knows
  <2>1. PICK i \in 2 .. m : lines[i] = p + 1  BY DEF Table, Knows
  <2>2. i \in 2 .. Len(s) /\ s[i] = lines[i]  BY <1>1, <1>8, <1>9
  <2> QED  BY <2>1, <2>2
<1> HIDE DEF last
<1>15. \A p \in 0 .. loc - 1 : Knows(s, p)
  <2> SUFFICES ASSUME NEW p \in 0 .. loc - 1, At(p) = NewLine, p >= last
               PROVE  \E i \in 2 .. Len(s) : s[i] = p + 1
    BY <1>1, <1>14 DEF Knows
  <2>1. p \in last .. Len(text) - 1 /\ \A q \in loc .. Len(text) - 1 : p <= q
    BY <1>1, <1>2
  <2>2. p \in L!Found(loc)  BY <1>4, <2>1
  <2> QED  BY <1>13, <2>2
<1>16. \A p \in 0 .. s[Len(s)] - 1 : Knows(s, p)
  <2> SUFFICES ASSUME NEW p \in 0 .. s[Len(s)] - 1, At(p) = NewLine, p >= last
               PROVE  \E i \in 2 .. Len(s) : s[i] = p + 1
    <3>1. s[Len(s)] \in Nat  BY <1>1, <1>8, <1>9
    <3> QED  BY <1>1, <1>14, <3>1 DEF Knows
  <2>1. n # 0
    <3> SUFFICES ASSUME n = 0 PROVE FALSE  OBVIOUS
    <3>1. s[Len(s)] = last  BY <1>1, <1>9 DEF last
    <3> QED  BY <1>1, <3>1
  <2>2. n \in 1 .. n /\ s[Len(s)] = A[n]  BY <1>1, <1>8, <1>9, <2>1
  <2>3. A[n] - 1 \in L!Found(loc) /\ A[n] \in Nat  BY <1>10, <2>2
  <2>4. p \in Nat /\ p <= A[n] - 1  BY <2>2, <2>3
  <2>5. p \in last .. Len(text) - 1  BY <1>1, <1>2, <1>4, <2>3, <2>4
  <2>6. \A q \in loc .. Len(text) - 1 : At(q) = NewLine => p <= q
    BY <1>4, <2>3, <2>4
  <2>7. p \in L!Found(loc)  BY <1>4, <2>5, <2>6
  <2> QED  BY <1>13, <2>7
<1>17. Increases(s)
  <2> SUFFICES ASSUME NEW i \in 1 .. Len(s), NEW j \in 1 .. Len(s), i < j PROVE s[i] < s[j]
    BY DEF Increases
  <2>1. CASE j \in 1 .. m
    <3>1. i \in 1 .. m  BY <1>1, <2>1
    <3> QED  BY <1>9, <2>1, <3>1 DEF Table, Increases
  <2>2. CASE i \in 1 .. m /\ j \notin 1 .. m
    <3>1. j - m \in 1 .. n /\ s[j] = A[j - m]  BY <1>9, <2>2
    <3>2. lines[i] <= last
      <4>1. CASE i = m  BY <1>1, <4>1 DEF last
      <4>2. CASE i < m
        <5>1. m \in 1 .. m  BY <1>1
        <5> QED  BY <1>1, <2>2, <4>2, <5>1 DEF Table, Increases, last
      <4> QED  BY <1>1, <2>2, <4>1, <4>2
    <3> QED  BY <1>1, <1>9, <1>10, <2>2, <3>1, <3>2
  <2>3. CASE i \notin 1 .. m /\ j \notin 1 .. m
    <3>1. j - m \in 1 .. n /\ s[j] = A[j - m] /\ i - m \in 1 .. n /\ s[i] = A[i - m]
      BY <1>9, <2>3
    <3>2. i - m < j - m  BY <1>1, <1>8
    <3> QED  BY <1>8, <3>1, <3>2
  <2> QED  BY <2>1, <2>2, <2>3
<1>18. FollowsBreak(s)
  <2> SUFFICES ASSUME NEW i \in 2 .. Len(s) PROVE At(s[i] - 1) = NewLine  BY DEF FollowsBreak
  <2>1. CASE i \in 1 .. m
    <3>1. i \in 2 .. m  BY <1>1, <2>1
    <3> QED  BY <1>9, <2>1, <3>1 DEF Table, FollowsBreak
  <2>2. CASE i \notin 1 .. m
    <3>1. i \in 1 .. m + n  BY <1>1, <1>8, <1>9
    <3>2. i - m \in 1 .. n /\ s[i] = A[i - m]  BY <1>9, <2>2, <3>1
    <3> QED  BY <1>4, <1>10, <3>2
  <2> QED  BY <2>1, <2>2
<1>19. Table(s)
  <2>1. s \in Seq(Nat) /\ Len(s) > 0 /\ s[1] = 0  BY <1>1, <1>8, <1>9 DEF Table
  <2> QED  BY <1>16, <1>17, <1>18, <2>1 DEF Table
<1> QED  BY <1>12, <1>15, <1>19 DEF s, A, G, l
-----------------------------------------------------------------------------
(* The report only asks for places, and the table answers them.            *)
ReportInv ==
    /\ LexInv
    /\ Table(lines)
    /\ place \in Nat /\ reported \in Nat
    /\ LocationsAreExact

LEMMA AnswersAreExact ==
    ASSUME text' = text, Table(lines'), place' \in Nat, NEW l \in 1 .. Len(lines'),
           line' = l,
           column' = L!Column(lines'[l], place') \/ column' = -1,
           lines'[l] <= place', l < Len(lines') => place' < lines'[l + 1],
           \A p \in 0 .. place' - 1 : Knows(lines', p)
    PROVE  LocationsAreExact'
<1> DEFINE s == lines'
           loc == place'
<1>1. /\ l = 1 + Cardinality(BreaksBefore(loc))
      /\ s[l] - 1 = -1 \/ At(s[l] - 1) = NewLine
      /\ ~NewLineIn(s[l], loc)
  <2> HIDE DEF s, loc
  <2>1. /\ Table(s) /\ loc \in Nat /\ l \in 1 .. Len(s) /\ s[l] <= loc
        /\ l < Len(s) => loc < s[l + 1]
        /\ \A p \in 0 .. loc - 1 : Knows(s, p)
    BY DEF s, loc
  <2> QED  BY <2>1, LineIsCounted
<1>2. \A p : At(p)' = At(p)  BY DEF At
<1>3. s[l] \in Nat  BY DEF Table
<1>4. ASSUME column' # -1
      PROVE  loc - column' = s[l] - 1 /\ loc - column' + 1 = s[l]
  <2> HIDE DEF s, loc
  <2>1. column' = 1 + (loc - s[l])  BY <1>4 DEF L!Column, s, loc
  <2>2. loc \in Nat  BY DEF loc
  <2> QED  BY <1>3, <2>1, <2>2
<1>5. BreaksBefore(loc) = {p \in 0 .. loc - 1 : At(p) = NewLine}  BY DEF BreaksBefore
<1> HIDE DEF s, loc
<1> QED  BY <1>1, <1>2, <1>4, <1>5 DEF LocationsAreExact, NewLineIn, s, loc

LEMMA TableStays ==
    ASSUME text' = text
    PROVE  /\ Table(lines)' <=> Table(lines')
           /\ ReportInv /\ UNCHANGED <<lines, place, line, column>>
                 => Table(lines)' /\ place' \in Nat /\ LocationsAreExact'
<1>1. \A p : At(p)' = At(p)  BY DEF At
<1>2. Table(lines)' <=> Table(lines')
  BY <1>1 DEF Table, Increases, FollowsBreak, Knows
<1>3. UNCHANGED <<place, line, column>> /\ LocationsAreExact => LocationsAreExact'
  BY <1>1 DEF LocationsAreExact, NewLineIn
<1> QED  BY <1>2, <1>3 DEF ReportInv

LEMMA ShowKeeps ==
    ASSUME ReportInv, Show
    PROVE  ReportInv'
<1>1. text' = text /\ LexInv'
  <2>1. UNCHANGED lexVars  BY DEF Show
  <2> QED  BY <2>1, LexUnchanged DEF ReportInv, lexVars
<1>2. text \in Seq(STRING) /\ filed \in Seq(Diag) /\ Table(lines) /\ reported \in Nat
  BY DEF ReportInv, LexInv, LexTypes
<1>3. reported' \in Nat  BY <1>2 DEF Show, tables
<1>4. CASE UNCHANGED tables
  <2>1. UNCHANGED <<lines, place, line, column>>  BY <1>4 DEF tables
  <2> QED  BY <1>1, <1>3, <2>1, TableStays DEF ReportInv
<1>5. CASE Printable /\ place' = PlaceAsked /\ L!Locate(PlaceAsked, line, column)
  <2> DEFINE loc == PlaceAsked
  <2>1. loc \in Nat
    <3>1. reported + 1 \in 1 .. Len(filed)  BY <1>2 DEF Show
    <3>2. Printed \in Diag  BY <1>2, <3>1 DEF Printed
    <3> QED  BY <3>2 DEF PlaceAsked, Ranged, Diag
  <2>2. L!Locatable(loc)  BY <1>5 DEF Printable
  <2>3. place' = loc  BY <1>5
  <2>4. L!Locate(loc, line, column)  BY <1>5
  <2> HIDE DEF loc
  <2>5. lines \in Seq(Nat) /\ Len(lines) \in Nat /\ L!LastStart \in Nat
    BY <1>2 DEF Table, L!LastStart
  <2>6. CASE loc >= L!LastStart
    <3>1. loc < Len(text)  BY <2>2, <2>6 DEF L!Locatable
    <3>2. /\ L!InsertLines(loc) /\ line' = L!LineInserted(loc)
          /\ column' = L!Column(lines'[line'], loc) \/ column' = -1
      BY <2>1, <2>4, <2>5, <2>6 DEF L!Locate
    <3> DEFINE l == L!LineInserted(loc)
    <3>3. lines' = lines \o L!Ascending({p + 1 : p \in L!Found(loc)})
      BY <3>2 DEF L!InsertLines
    <3>4. /\ Table(lines') /\ l \in 1 .. Len(lines') /\ lines'[l] <= loc
          /\ l < Len(lines') => loc < lines'[l + 1]
          /\ \A p \in 0 .. loc - 1 : Knows(lines', p)
      BY <1>2, <2>1, <2>6, <3>1, <3>3, LinesAreAdded
    <3> HIDE DEF l
    <3>5. line' = l  BY <3>2 DEF l
    <3>6. LocationsAreExact'  BY <1>1, <2>1, <2>3, <3>2, <3>4, <3>5, AnswersAreExact
    <3> QED  BY <1>1, <1>3, <2>1, <2>3, <3>4, <3>6, TableStays DEF ReportInv
  <2>7. CASE loc < L!LastStart
    <3>1. /\ lines' = lines /\ line' = CHOOSE i \in L!LineSearched(loc) : TRUE
          /\ column' = L!Column(lines[line'], loc)
      BY <2>1, <2>4, <2>5, <2>7 DEF L!Locate
    <3>2. L!LineSearched(loc) # {}  BY <2>1, <2>2, <2>5, <2>7 DEF L!Locatable
    <3>3. line' \in L!LineSearched(loc)  BY <3>1, <3>2
    <3>4. /\ line' \in 1 .. Len(lines') /\ lines'[line'] <= loc
          /\ line' < Len(lines') => loc < lines'[line' + 1]
      BY <2>5, <3>1, <3>3 DEF L!LineSearched
    <3>5. \A p \in 0 .. loc - 1 : Knows(lines', p)
      <4>1. \A p \in 0 .. lines[Len(lines)] - 1 : Knows(lines, p)  BY <1>2 DEF Table
      <4> QED  BY <2>1, <2>5, <2>7, <3>1, <4>1 DEF L!LastStart
    <3>6. LocationsAreExact'
      BY <1>1, <1>2, <2>1, <2>3, <3>1, <3>4, <3>5, AnswersAreExact
    <3> QED  BY <1>1, <1>2, <1>3, <2>1, <2>3, <3>1, <3>6, TableStays DEF ReportInv
  <2> QED  BY <2>1, <2>5, <2>6, <2>7
<1> QED  BY <1>4, <1>5 DEF Show

LEMMA ReportInvInit == Init => ReportInv
<1> SUFFICES ASSUME Init PROVE ReportInv  OBVIOUS
<1>1. lines = <<0>> /\ place = 0 /\ line = 1 /\ column = 1 /\ reported = 0
  BY DEF Init, L!LineMapInit
<1>2. Table(lines)  BY <1>1 DEF Table, Increases, FollowsBreak, Knows
<1>3. LocationsAreExact
  <2>1. {p \in 0 .. place - 1 : At(p) = NewLine} = {}  BY <1>1
  <2>2. ~NewLineIn(place - column + 1, place)  BY <1>1 DEF NewLineIn
  <2> QED  BY <1>1, <2>1, <2>2, FS_EmptySet DEF LocationsAreExact
<1> QED  BY <1>1, <1>2, <1>3, LexInvInit DEF ReportInv

LEMMA ReportInvNext == ReportInv /\ [Next]_vars => ReportInv'
<1> SUFFICES ASSUME ReportInv, [Next]_vars PROVE ReportInv'  OBVIOUS
<1>1. LexInv'  BY LexInvNext DEF ReportInv
<1>2. CASE Show  BY <1>2, ShowKeeps
<1>3. CASE ~Show
  <2>1. UNCHANGED <<lines, place, line, column, reported>>
    BY <1>3 DEF Next, Work, LexStep, EndParse, StartReport, FinishReport, Complain, GiveUp,
                NothingIsRead, vars, tables
  <2>2. text' = text
    <3>1. CASE LexStep
      BY <3>1 DEF LexStep, Lex, SkipBlank, LexOperator, StartComment, StartLongToken,
         InvalidCharacter, EndOfFile, Opening, LexIdentifier, LexNumber, LexString,
         EatLineComment, LexBlockComment, Inside
    <3>2. CASE ~LexStep
      BY <1>3, <3>2
        DEF Next, Work, EndParse, StartReport, FinishReport, Complain, GiveUp, NothingIsRead,
            vars, lexVars
    <3> QED  BY <3>1, <3>2
  <2> QED  BY <1>1, <2>1, <2>2, TableStays DEF ReportInv
<1> QED  BY <1>2, <1>3

(* Errors are asked for in any order and the table grows and moves in      *)
(* between: a place is answered with the number of line breaks before it   *)
(* and its distance from the last one, whatever the table held.            *)
THEOREM LocationsAreAnswered == Spec => []LocationsAreExact
<1>1. ReportInv => LocationsAreExact  BY DEF ReportInv
<1> QED  BY <1>1, ReportInvInit, ReportInvNext, PTL DEF Spec
-----------------------------------------------------------------------------
(* Strings lie behind each other in the block, and no text is there twice. *)
Apart     == \A i, j \in DOMAIN pool : i < j => EndOf(pool[i]) <= pool[j].at
OneOfEach == \A i, j \in DOMAIN pool : pool[i].data = pool[j].data => i = j

(* A text has one name, and a name one text.                               *)
NamesAreTexts == \A i, j \in DOMAIN pool :
                     (pool[i].data = pool[j].data \/ pool[i].at = pool[j].at) => i = j

(* Nothing reaches behind the block: all of it moves with the block.       *)
Fits == ~(Size > capacity)

(* Nothing of the strings is lost, though the block may move.              *)
NamesAreKept == \A i \in DOMAIN pool : i \in DOMAIN pool' /\ pool'[i] = pool[i]

(* The end of an entry is behind its beginning: the header takes room even *)
(* for an empty string.                                                    *)
LEMMA EntriesTakeRoom ==
    ASSUME NEW entry \in Entry
    PROVE  EndOf(entry) \in Nat /\ entry.at \in Nat /\ entry.at < EndOf(entry)
<1>1. entry.at \in Nat /\ Len(entry.data) \in Nat  BY DEF Entry
<1> QED  BY <1>1, PoolConstants DEF EndOf

(* The size of the block is a number, and no entry reaches behind it.      *)
LEMMA SizeIsTheEnd ==
    ASSUME pool \in Seq(Entry), Apart
    PROVE  Size \in Nat /\ \A i \in DOMAIN pool : EndOf(pool[i]) <= Size
<1>1. CASE pool = <<>>  BY <1>1 DEF Size
<1>2. CASE pool # <<>>
  <2>1. Len(pool) \in DOMAIN pool /\ Size = EndOf(pool[Len(pool)])  BY <1>2 DEF Size
  <2>2. \A i \in DOMAIN pool : pool[i] \in Entry  OBVIOUS
  <2>3. \A i \in DOMAIN pool :
            EndOf(pool[i]) \in Nat /\ pool[i].at \in Nat /\ pool[i].at < EndOf(pool[i])
    BY <2>2, EntriesTakeRoom
  <2>4. \A i \in DOMAIN pool : i # Len(pool) => EndOf(pool[i]) <= pool[Len(pool)].at
    BY <2>1 DEF Apart
  <2> QED  BY <2>1, <2>3, <2>4
<1> QED  BY <1>1, <1>2

(* Where everything fits, interning appends an entry behind all others, of *)
(* a text not there yet, or changes nothing; the name it gives is the one  *)
(* the text has then.                                                      *)
LEMMA InternAppends ==
    ASSUME pool \in Seq(Entry), Apart, OneOfEach, Fits,
           NEW data \in Seq(Character), Intern(data), ~strayed'
    PROVE  /\ pool' \in Seq(Entry) /\ Apart' /\ OneOfEach' /\ NamesAreKept /\ Fits'
           /\ \E k \in DOMAIN pool' : pool'[k].at = NameFor(data) /\ pool'[k].data = data
<1>1. CASE Search(data) # {}
  <2>1. pool' = pool /\ capacity' = capacity  BY <1>1 DEF Intern, poolVars
  <2>2. Apart' /\ OneOfEach' /\ NamesAreKept /\ Fits'
    BY <2>1 DEF Apart, OneOfEach, NamesAreKept, EndOf, Fits, Size
  <2> DEFINE k == CHOOSE i \in Search(data) : TRUE
  <2>3. k \in Search(data)  BY <1>1
  <2>4. NameFor(data) = pool[k].at  BY <1>1 DEF NameFor
  <2> HIDE DEF k
  <2>5. k \in DOMAIN pool /\ pool[k].data = data  BY <2>3 DEF Search
  <2> QED  BY <2>1, <2>2, <2>4, <2>5
<1>2. CASE Search(data) = {}
  <2> DEFINE entry == [data |-> data, at |-> Size]
  <2>1. pool' = Append(pool, entry) /\ NameFor(data) = Size
    <3>1. Moved = {pool}  BY DEF Moved, Fits
    <3> QED  BY <1>2, <3>1 DEF Intern, NameFor
  <2>2. entry \in Entry /\ entry.data = data /\ entry.at = Size  BY SizeIsTheEnd DEF Entry
  <2> HIDE DEF entry
  <2>3. /\ pool' \in Seq(Entry)
        /\ DOMAIN pool' = 1 .. Len(pool) + 1 /\ DOMAIN pool = 1 .. Len(pool)
        /\ Len(pool) \in Nat
        /\ pool'[Len(pool) + 1] = entry
        /\ \A i \in DOMAIN pool : pool'[i] = pool[i]
    BY <2>1, <2>2
  <2>4. Apart'
    <3> SUFFICES ASSUME NEW i \in DOMAIN pool', NEW j \in DOMAIN pool', i < j
                 PROVE  EndOf(pool'[i]) <= pool'[j].at
      BY DEF Apart, EndOf
    <3>1. i \in DOMAIN pool  BY <2>3
    <3>2. CASE j = Len(pool) + 1  BY <2>2, <2>3, <3>1, <3>2, SizeIsTheEnd
    <3>3. CASE j \in DOMAIN pool  BY <2>3, <3>1, <3>3 DEF Apart
    <3> QED  BY <2>3, <3>2, <3>3
  <2>5. OneOfEach'
    <3>1. \A i \in DOMAIN pool : pool[i].data # data  BY <1>2 DEF Search
    <3> QED  BY <2>2, <2>3, <3>1 DEF OneOfEach
  <2>6. NamesAreKept  BY <2>3 DEF NamesAreKept
  <2>7. Len(pool) + 1 \in DOMAIN pool'  BY <2>3
  <2>8. Fits'
    <3>1. ~(EndOf(entry) > capacity')  BY <1>2, Zenon DEF Intern, entry
    <3>2. pool' # <<>> /\ pool'[Len(pool')] = entry  BY <2>3
    <3>3. Size' = EndOf(entry)  BY <3>2 DEF Size, EndOf
    <3> QED  BY <3>1, <3>3 DEF Fits
  <2> QED  BY <2>1, <2>2, <2>3, <2>4, <2>5, <2>6, <2>7, <2>8
<1> QED  BY <1>1, <1>2

LEMMA OneNameEach ==
    ASSUME pool \in Seq(Entry), Apart, OneOfEach
    PROVE  NamesAreTexts
<1> SUFFICES ASSUME NEW i \in DOMAIN pool, NEW j \in DOMAIN pool, pool[i].at = pool[j].at
             PROVE  i = j
  BY DEF NamesAreTexts, OneOfEach
<1>1. pool[i] \in Entry /\ pool[j] \in Entry /\ i \in Int /\ j \in Int  OBVIOUS
<1>2. /\ pool[i].at \in Nat /\ pool[i].at < EndOf(pool[i]) /\ EndOf(pool[i]) \in Nat
      /\ pool[j].at \in Nat /\ pool[j].at < EndOf(pool[j]) /\ EndOf(pool[j]) \in Nat
  BY <1>1, EntriesTakeRoom
<1>3. /\ i < j => EndOf(pool[i]) <= pool[j].at
      /\ j < i => EndOf(pool[j]) <= pool[i].at
  BY DEF Apart
<1> QED  BY <1>1, <1>2, <1>3
-----------------------------------------------------------------------------
(* Which characters of a string that begins at a are escaped.              *)
LEMMA SmallestOf ==
    ASSUME NEW S \in SUBSET Nat, S # {}
    PROVE  \E x \in S : \A y \in S : x <= y
<1>1. PICK x \in S : \A y \in S : ~(<<y, x>> \in OpToRel(<, Nat))
  BY NatLessThanWellFounded, WFMin, Zenon
<1>2. \A y \in S : ~(y < x)  BY <1>1 DEF OpToRel
<1> QED  BY <1>2

IsRun(a, p, n) == /\ R!All(p - n, p, {"\\"})
                  /\ p - n = a \/ R!At(p - n - 1) # "\\"

LEMMA RunsAreUnique ==
    ASSUME NEW a \in Nat, NEW p \in Nat, a <= p,
           NEW m \in 0 .. p - a, NEW n \in 0 .. p - a, IsRun(a, p, m), IsRun(a, p, n)
    PROVE  m = n
<1>1. ASSUME NEW x \in 0 .. p - a, NEW y \in 0 .. p - a, IsRun(a, p, x), IsRun(a, p, y), x < y
      PROVE  FALSE
  <2>1. p - x - 1 \in p - y .. p - 1 /\ p - x # a  BY <1>1
  <2>2. R!At(p - x - 1) = "\\"  BY <1>1, <2>1 DEF IsRun, R!All
  <2> QED  BY <1>1, <2>1, <2>2 DEF IsRun
<1> QED  BY <1>1

LEMMA RunsExist ==
    ASSUME NEW a \in Nat, NEW p \in Nat, a <= p
    PROVE  \E n \in 0 .. p - a : IsRun(a, p, n)
<1> DEFINE S == {s \in a .. p : R!All(s, p, {"\\"})}
<1>1. p \in S  BY DEF R!All
<1>2. S \in SUBSET Nat  OBVIOUS
<1>3. PICK s \in S : \A y \in S : s <= y  BY <1>1, <1>2, SmallestOf
<1>4. s \in a .. p /\ R!All(s, p, {"\\"})  BY <1>3
<1>5. p - s \in 0 .. p - a /\ p - (p - s) = s  BY <1>4
<1>6. s = a \/ R!At(s - 1) # "\\"
  <2> SUFFICES ASSUME s # a, R!At(s - 1) = "\\" PROVE FALSE  OBVIOUS
  <2>1. s - 1 \in a .. p /\ ~(s <= s - 1)  BY <1>4
  <2>2. R!All(s - 1, p, {"\\"})
    <3>1. \A q \in s - 1 .. p - 1 : q = s - 1 \/ q \in s .. p - 1  BY <1>4
    <3> QED  BY <1>4, <3>1 DEF R!All
  <2> QED  BY <1>3, <2>1, <2>2
<1> HIDE DEF S
<1> QED  BY <1>4, <1>5, <1>6 DEF IsRun

LEMMA BackslashesAreTheRun ==
    ASSUME NEW a \in Nat, NEW p \in Nat, a <= p
    PROVE  R!Backslashes(a, p) \in 0 .. p - a /\ IsRun(a, p, R!Backslashes(a, p))
<1>1. R!Backslashes(a, p) = CHOOSE n \in 0 .. p - a : IsRun(a, p, n)
  BY DEF R!Backslashes, IsRun
<1> QED  BY <1>1, RunsExist, Zenon

LEMMA EscapesAlternate ==
    ASSUME NEW a \in Nat, NEW p \in Nat, a <= p
    PROVE  /\ ~R!Escaped(a, a)
           /\ R!Escaped(a, p + 1) <=> At(p) = "\\" /\ ~R!Escaped(a, p)
<1>1. \A q : R!At(q) = At(q)  BY DEF R!At, R!Nul, At, Nul
<1>2. ~R!Escaped(a, a)
  <2>1. R!Backslashes(a, a) \in 0 .. a - a  BY BackslashesAreTheRun
  <2>2. R!Backslashes(a, a) = 0  BY <2>1
  <2> QED  BY <2>2 DEF R!Escaped
<1> DEFINE n == R!Backslashes(a, p)
           m == R!Backslashes(a, p + 1)
<1>3. n \in 0 .. p - a /\ IsRun(a, p, n)  BY BackslashesAreTheRun
<1>4. p + 1 \in Nat /\ a <= p + 1  OBVIOUS
<1>5. m \in 0 .. (p + 1) - a /\ IsRun(a, p + 1, m)  BY <1>4, BackslashesAreTheRun
<1> HIDE DEF n, m
<1>6. CASE At(p) # "\\"
  <2>1. IsRun(a, p + 1, 0)
    <3>1. (p + 1) - 0 = p + 1 /\ ((p + 1) - 0) - 1 = p  OBVIOUS
    <3> QED  BY <1>1, <1>6, <3>1 DEF IsRun, R!All
  <2>2. m = 0
    <3>1. 0 \in 0 .. (p + 1) - a  OBVIOUS
    <3> QED  BY <1>4, <1>5, <2>1, <3>1, RunsAreUnique
  <2> QED  BY <1>2, <1>6, <2>2 DEF R!Escaped, m
<1>7. CASE At(p) = "\\"
  <2>1. (p + 1) - (n + 1) = p - n /\ n + 1 \in 0 .. (p + 1) - a  BY <1>3
  <2>2. R!All(p - n, p + 1, {"\\"})
    <3>1. \A q \in p - n .. (p + 1) - 1 : q = p \/ q \in p - n .. p - 1  BY <1>3
    <3> QED  BY <1>1, <1>3, <1>7, <3>1 DEF IsRun, R!All
  <2>3. IsRun(a, p + 1, n + 1)  BY <1>3, <2>1, <2>2 DEF IsRun
  <2>4. m = n + 1  BY <1>4, <1>5, <2>1, <2>3, RunsAreUnique
  <2>5. m % 2 = 1 <=> ~(n % 2 = 1)  BY <1>3, <2>4
  <2> QED  BY <1>2, <1>7, <2>5 DEF R!Escaped, n, m
<1> QED  BY <1>6, <1>7
-----------------------------------------------------------------------------
(* What a string from a on stands for, up to b. *)
Stands(a, p)  == (At(p) = "\\" => R!Escaped(a, p)) /\ (R!Escaped(a, p) => At(p) \in R!Escapes)
KeptIn(a, b)  == {p \in a .. b - 1 : Stands(a, p)}
Ranked(S, i)  == CHOOSE p \in S : R!Cardinality({q \in S : q < p}) = i - 1
Spelt(a, b)   == [i \in 1 .. Cardinality(KeptIn(a, b)) |-> R!Meaning(a, Ranked(KeptIn(a, b), i))]

LEMMA KeptIsFinite ==
    ASSUME NEW a \in Nat, NEW b \in Nat
    PROVE  KeptIn(a, b) \in SUBSET Nat /\ IsFiniteSet(KeptIn(a, b)) /\ Cardinality(KeptIn(a, b)) \in Nat
<1>1. b - 1 \in Int  OBVIOUS
<1>2. IsFiniteSet(a .. b - 1) /\ KeptIn(a, b) \in SUBSET (a .. b - 1)
  BY <1>1, FS_Interval DEF KeptIn
<1>3. KeptIn(a, b) \in SUBSET Nat  BY DEF KeptIn
<1> QED  BY <1>2, <1>3, FS_Subset, FS_CardinalityType

LEMMA RankIsOwn ==
    ASSUME NEW S \in SUBSET Nat, IsFiniteSet(S), NEW x \in S
    PROVE  Ranked(S, Cardinality(Below(S, x)) + 1) = x
<1> DEFINE i == Cardinality(Below(S, x)) + 1
<1>1. Cardinality(Below(S, x)) \in Nat
  <2>1. Below(S, x) \in SUBSET S  BY DEF Below
  <2> QED  BY <2>1, CountsGrow
<1>2. i - 1 = Cardinality(Below(S, x))  BY <1>1
<1> HIDE DEF i
<1>3. Ranked(S, i) \in S /\ Cardinality(Below(S, Ranked(S, i))) = i - 1
  <2>1. \A p : R!Cardinality({q \in S : q < p}) = Cardinality(Below(S, p))
    BY DEF R!Cardinality, Cardinality, Below
  <2>2. R!Cardinality({q \in S : q < x}) = i - 1  BY <1>2, <2>1
  <2>3. /\ Ranked(S, i) \in S
        /\ R!Cardinality({q \in S : q < Ranked(S, i)}) = i - 1
    BY <2>2, Zenon DEF Ranked
  <2> QED  BY <2>1, <2>3
<1> QED  BY <1>2, <1>3, BelowGrows DEF i

LEMMA RanksAreTaken ==
    ASSUME NEW S \in SUBSET Nat, IsFiniteSet(S), NEW i \in 1 .. Cardinality(S)
    PROVE  \E x \in S : i = Cardinality(Below(S, x)) + 1
<1>1. Cardinality(S) \in Nat  BY FS_CardinalityType
<1> DEFINE x == L!Ascending(S)[i]
<1>2. x \in S /\ Cardinality(Below(S, x)) = i - 1  BY AscendingOrders
<1> HIDE DEF x
<1> QED  BY <1>1, <1>2

LEMMA SpeltGrows ==
    ASSUME NEW a \in Nat, NEW b \in Nat, a <= b
    PROVE  /\ Spelt(a, a) = <<>>
           /\ Stands(a, b) => Spelt(a, b + 1) = Append(Spelt(a, b), R!Meaning(a, b))
           /\ ~Stands(a, b) => Spelt(a, b + 1) = Spelt(a, b)
<1> DEFINE K == KeptIn(a, b)
           M == KeptIn(a, b + 1)
           n == Cardinality(K)
<1>1. Spelt(a, a) = <<>>
  <2>1. KeptIn(a, a) = {}  BY DEF KeptIn
  <2>2. Cardinality(KeptIn(a, a)) = 0  BY <2>1, FS_EmptySet
  <2> QED  BY <2>2 DEF Spelt
<1>2. \A p : p \in M <=> p \in K \/ (p = b /\ Stands(a, b))
  <2>1. \A p : p \in a .. (b + 1) - 1 <=> p \in a .. b - 1 \/ p = b  OBVIOUS
  <2> QED  BY <2>1 DEF KeptIn
<1>3. /\ K \in SUBSET Nat /\ IsFiniteSet(K) /\ n \in Nat
      /\ M \in SUBSET Nat /\ IsFiniteSet(M)
      /\ \A p \in K : p < b
  <2>1. \A p \in K : p < b  BY DEF KeptIn
  <2>2. b + 1 \in Nat  OBVIOUS
  <2> QED  BY <2>1, <2>2, KeptIsFinite
<1>4. ASSUME ~Stands(a, b) PROVE Spelt(a, b + 1) = Spelt(a, b)
  <2>1. M = K
    <3> HIDE DEF K, M
    <3> QED  BY <1>2, <1>4
  <2> QED  BY <2>1 DEF Spelt
<1>5. ASSUME Stands(a, b) PROVE Spelt(a, b + 1) = Append(Spelt(a, b), R!Meaning(a, b))
  <2> HIDE DEF K, M
  <2>1. M = K \cup {b} /\ b \notin K  BY <1>2, <1>3, <1>5
  <2>2. Cardinality(M) = n + 1  BY <1>3, <2>1, FS_AddElement
  <2>3. \A p \in K : Below(M, p) = Below(K, p) /\ p \in M
    <3>1. \A p \in K : ~(b < p) /\ p \in Nat  BY <1>3
    <3> QED  BY <2>1, <3>1 DEF Below
  <2>4. Below(M, b) = K /\ b \in M
    <3>1. ~(b < b)  OBVIOUS
    <3> QED  BY <1>3, <2>1, <3>1 DEF Below
  <2>5. Ranked(M, n + 1) = b  BY <1>3, <2>4, RankIsOwn
  <2>6. ASSUME NEW i \in 1 .. n PROVE Ranked(M, i) = Ranked(K, i)
    <3>1. PICK x \in K : i = Cardinality(Below(K, x)) + 1  BY <1>3, RanksAreTaken
    <3>2. Ranked(K, i) = x  BY <1>3, <3>1, RankIsOwn
    <3>3. Ranked(M, i) = x  BY <1>3, <2>3, <3>1, RankIsOwn
    <3> QED  BY <3>2, <3>3
  <2> DEFINE V == {R!Meaning(a, p) : p \in Nat}
             s == Spelt(a, b)
             t == Spelt(a, b + 1)
             c == R!Meaning(a, b)
  <2>7. \A i \in 1 .. n : Ranked(K, i) \in Nat
    <3> SUFFICES ASSUME NEW i \in 1 .. n PROVE Ranked(K, i) \in Nat  OBVIOUS
    <3>1. PICK x \in K : i = Cardinality(Below(K, x)) + 1  BY <1>3, RanksAreTaken
    <3> QED  BY <1>3, <3>1, RankIsOwn
  <2>8. s = [i \in 1 .. n |-> R!Meaning(a, Ranked(K, i))]  BY DEF Spelt, K, n
  <2>9. t = [i \in 1 .. n + 1 |-> R!Meaning(a, Ranked(M, i))]  BY <2>2 DEF Spelt, M
  <2>10. c \in V /\ \A i \in 1 .. n : R!Meaning(a, Ranked(K, i)) \in V  BY <2>7
  <2> HIDE DEF V, s, t, c, n
  <2>11. /\ s \in Seq(V) /\ Len(s) = n
         /\ \A i \in 1 .. n : s[i] = R!Meaning(a, Ranked(K, i))
    <3>1. s \in [1 .. n -> V]  BY <2>8, <2>10
    <3> QED  BY <1>3, <2>8, <3>1
  <2>12. /\ Append(s, c) \in Seq(V) /\ Len(Append(s, c)) = n + 1
         /\ \A i \in 1 .. n : Append(s, c)[i] = s[i]
         /\ Append(s, c)[n + 1] = c
    BY <2>10, <2>11, AppendPut
  <2>13. \A i \in 1 .. n + 1 : Append(s, c)[i] = R!Meaning(a, Ranked(M, i))
    <3> SUFFICES ASSUME NEW i \in 1 .. n + 1
                 PROVE  Append(s, c)[i] = R!Meaning(a, Ranked(M, i))
      OBVIOUS
    <3>1. i \in 1 .. n \/ i = n + 1  BY <1>3
    <3>2. CASE i \in 1 .. n  BY <2>6, <2>11, <2>12, <3>2
    <3>3. CASE i = n + 1  BY <2>5, <2>12, <3>3 DEF c
    <3> QED  BY <3>1, <3>2, <3>3
  <2>14. Append(s, c) = [i \in 1 .. n + 1 |-> Append(s, c)[i]]
    <3> DEFINE u == Append(s, c)
    <3>1. u \in Seq(V) /\ Len(u) = n + 1  BY <2>12
    <3> HIDE DEF u
    <3>2. u = [i \in 1 .. n + 1 |-> u[i]]  BY <1>3, <3>1
    <3> QED  BY <3>2 DEF u
  <2>15. t = Append(s, c)  BY <2>9, <2>13, <2>14
  <2> QED  BY <2>15 DEF s, t, c
<1> QED  BY <1>1, <1>4, <1>5

(* The text of a string token, whether a quote or the end of the text      *)
(* ended it.                                                               *)
LEMMA LiteralIsSpelt ==
    ASSUME NEW a \in Nat, NEW b \in Nat
    PROVE  R!Literal(a, b) = Spelt(a + 1, R!LiteralEnd(a, b) - 1)
<1>1. \A q : R!At(q) = At(q)  BY DEF R!At, R!Nul, At, Nul
<1>2. \A S : R!Cardinality(S) = Cardinality(S)  BY DEF R!Cardinality, Cardinality
<1> DEFINE e == R!LiteralEnd(a, b)
           K == R!Kept(a, e)
<1>3. e \in Int  BY DEF R!LiteralEnd
<1> HIDE DEF e
<1>4. K = KeptIn(a + 1, e - 1)
  <2>1. e - 2 = (e - 1) - 1  BY <1>3
  <2> QED  BY <1>1, <2>1 DEF R!Kept, KeptIn, Stands
<1> HIDE DEF K
<1>5. R!Literal(a, b) = [i \in 1 .. R!Cardinality(K) |-> R!Meaning(a + 1, Ranked(K, i))]
  BY Zenon DEF R!Literal, Ranked, K, e
<1> QED  BY <1>2, <1>4, <1>5 DEF Spelt, e
-----------------------------------------------------------------------------
(* The string that is being read: its characters so far.                   *)
StringRead == mode = "string" =>
    /\ tokenStart + 1 <= pos
    /\ ~R!Escaped(tokenStart + 1, pos) \/ At(pos) \in {Nul, Bad}
    /\ \A p \in tokenStart + 1 .. pos - 1 : At(p) = Quote => R!Escaped(tokenStart + 1, p)
    /\ literalBuffer = Spelt(tokenStart + 1, pos)

Named(token) == \E k \in DOMAIN pool : /\ pool[k].at = token.name
                                       /\ pool[k].data = R!Literal(token.start, token.end)

StringsAreNamed == \A i \in DOMAIN tokens : tokens[i].kind = "string" => Named(tokens[i])

(* The pool, as long as nothing was written past its block.                *)
Tidy == Apart /\ OneOfEach /\ Fits /\ StringsAreNamed

StringInv == LexInv /\ StringRead /\ (~strayed => Tidy)

(* What a step has to leave behind.                                        *)
StaysTidy == ~strayed' => ~strayed /\ Tidy' /\ NamesAreKept

LEMMA TextStays ==
    ASSUME text' = text
    PROVE  /\ \A a, p : R!Escaped(a, p)' <=> R!Escaped(a, p)
           /\ \A a, b : Spelt(a, b)' = Spelt(a, b)
           /\ \A a, b : R!Literal(a, b)' = R!Literal(a, b)
<1>1. \A a, p : R!Escaped(a, p)' <=> R!Escaped(a, p)
  BY DEF R!Escaped, R!Backslashes, R!All, R!At, R!Nul
<1>2. \A a, b : Spelt(a, b)' = Spelt(a, b)
  BY DEF Spelt, KeptIn, Stands, Ranked, R!Meaning, R!Escaped, R!Backslashes, R!All, R!At, R!Nul, At, Nul
<1>3. \A a, b : R!Literal(a, b)' = R!Literal(a, b)
  BY DEF R!Literal, R!Kept, R!LiteralEnd, R!Closed, R!Meaning, R!Escaped, R!Backslashes, R!All, R!At, R!Nul
<1> QED  BY <1>1, <1>2, <1>3

(* The names that tokens have stay good while the pool only grows.         *)
LEMMA NamesStay ==
    ASSUME StringsAreNamed, tokens \in Seq(Token), text' = text, NamesAreKept, tokens' = tokens
    PROVE  StringsAreNamed'
<1> SUFFICES ASSUME NEW i \in DOMAIN tokens, tokens[i].kind = "string"
             PROVE  \E k \in DOMAIN pool' :
                        /\ pool'[k].at = tokens[i].name
                        /\ pool'[k].data = R!Literal(tokens[i].start, tokens[i].end)
  BY TextStays DEF StringsAreNamed, Named
<1> QED  BY DEF StringsAreNamed, Named, NamesAreKept

LEMMA NamesStayBehind ==
    ASSUME StringsAreNamed, tokens \in Seq(Token), text' = text, NamesAreKept,
           NEW new \in Token, tokens' = Append(tokens, new),
           new.kind = "string" =>
               \E k \in DOMAIN pool' : /\ pool'[k].at = new.name
                                       /\ pool'[k].data = R!Literal(new.start, new.end)
    PROVE  StringsAreNamed'
<1>1. /\ DOMAIN tokens' = 1 .. Len(tokens) + 1 /\ DOMAIN tokens = 1 .. Len(tokens)
      /\ Len(tokens) \in Nat
      /\ \A i \in 1 .. Len(tokens) : tokens'[i] = tokens[i]
      /\ tokens'[Len(tokens) + 1] = new
  BY AppendPut
<1> SUFFICES ASSUME NEW i \in 1 .. Len(tokens) + 1, tokens'[i].kind = "string"
             PROVE  \E k \in DOMAIN pool' :
                        /\ pool'[k].at = tokens'[i].name
                        /\ pool'[k].data = R!Literal(tokens'[i].start, tokens'[i].end)
  BY <1>1, TextStays DEF StringsAreNamed, Named
<1>2. CASE i \in 1 .. Len(tokens)
  <2>1. tokens'[i] = tokens[i] /\ tokens[i].kind = "string" /\ i \in DOMAIN tokens
    BY <1>1, <1>2
  <2>2. PICK k \in DOMAIN pool : /\ pool[k].at = tokens[i].name
                                 /\ pool[k].data = R!Literal(tokens[i].start, tokens[i].end)
    BY <2>1 DEF StringsAreNamed, Named
  <2>3. k \in DOMAIN pool' /\ pool'[k] = pool[k]  BY DEF NamesAreKept
  <2> QED  BY <2>1, <2>2, <2>3
<1>3. CASE i = Len(tokens) + 1  BY <1>1, <1>3
<1> QED  BY <1>1, <1>2, <1>3

(* The string that is being read stays as it is while nothing is read.     *)
LEMMA StringStays ==
    ASSUME StringRead, UNCHANGED <<text, tokenStart, pos, literalBuffer>>,
           mode' = mode \/ mode' # "string"
    PROVE  StringRead'
<1>1. \A p : At(p)' = At(p)  BY DEF At
<1> QED  BY <1>1, TextStays DEF StringRead

(* The beginning of a string.                                              *)
LEMMA StringBegins ==
    ASSUME text' = text, pos \in Nat, tokenStart' = pos, pos' = pos + 1, literalBuffer' = <<>>
    PROVE  StringRead'
<1>1. \A p : At(p)' = At(p)  BY DEF At
<1>2. ~R!Escaped(pos + 1, pos + 1) /\ Spelt(pos + 1, pos + 1) = <<>>
  <2>1. pos + 1 \in Nat /\ pos + 1 <= pos + 1  OBVIOUS
  <2> QED  BY <2>1, EscapesAlternate, SpeltGrows
<1>3. \A p : p \notin pos + 1 .. (pos + 1) - 1  OBVIOUS
<1>4. pos + 1 <= pos + 1  OBVIOUS
<1> QED  BY <1>1, <1>2, <1>3, <1>4, TextStays DEF StringRead

(* One character further in a string.                                      *)
LEMMA CharacterIsRead ==
    ASSUME StringRead, mode = "string", pos \in Nat, tokenStart \in Nat,
           UNCHANGED <<text, tokenStart>>, pos' = pos + 1,
           At(pos) \notin {Quote, Nul, "\\", Bad}, literalBuffer' = Append(literalBuffer, At(pos))
    PROVE  StringRead'
<1> DEFINE a == tokenStart + 1
<1>1. /\ a \in Nat /\ a <= pos /\ literalBuffer = Spelt(a, pos)
      /\ \A p \in a .. pos - 1 : At(p) = Quote => R!Escaped(a, p)
      /\ ~R!Escaped(a, pos)
  BY DEF StringRead
<1>2. \A p : At(p)' = At(p) /\ R!At(p) = At(p)  BY DEF At, R!At, R!Nul, Nul
<1>3. a' = a  OBVIOUS
<1> HIDE DEF a
<1>4. ~R!Escaped(a, pos + 1)  BY <1>1, EscapesAlternate
<1>5. Stands(a, pos) /\ R!Meaning(a, pos) = At(pos)  BY <1>1, <1>2 DEF Stands, R!Meaning
<1>6. Spelt(a, pos + 1) = Append(literalBuffer, At(pos))  BY <1>1, <1>5, SpeltGrows
<1>7. \A p \in a .. (pos + 1) - 1 : p = pos \/ p \in a .. pos - 1  BY <1>1
<1>8. a <= pos + 1  BY <1>1
<1> QED  BY <1>1, <1>2, <1>3, <1>4, <1>6, <1>7, <1>8, TextStays DEF StringRead, a

(* Two characters further: a backslash and what it stands before.          *)
LEMMA EscapeIsRead ==
    ASSUME StringRead, mode = "string", pos \in Nat, tokenStart \in Nat,
           UNCHANGED <<text, tokenStart>>, pos' = pos + 2,
           At(pos) = "\\",
           \/ /\ At(pos + 1) \in DOMAIN Escapes
              /\ literalBuffer' = Append(literalBuffer, Escapes[At(pos + 1)])
           \/ At(pos + 1) \notin DOMAIN Escapes /\ literalBuffer' = literalBuffer
    PROVE  StringRead'
<1> DEFINE a == tokenStart + 1
           q == pos + 1
<1>1. /\ a \in Nat /\ a <= pos /\ literalBuffer = Spelt(a, pos)
      /\ \A p \in a .. pos - 1 : At(p) = Quote => R!Escaped(a, p)
      /\ ~R!Escaped(a, pos)
  BY DEF StringRead, Nul, Bad
<1>2. \A p : At(p)' = At(p) /\ R!At(p) = At(p)  BY DEF At, R!At, R!Nul, Nul
<1>3. a' = a  OBVIOUS
<1>4. q \in Nat /\ a <= q /\ pos' = q + 1 /\ q = pos + 1  BY <1>1
<1> HIDE DEF a, q
<1>5. R!Escaped(a, q)  BY <1>1, <1>4, EscapesAlternate
<1>6. ~R!Escaped(a, q + 1)  BY <1>1, <1>4, <1>5, EscapesAlternate
<1>7. Spelt(a, q) = literalBuffer
  <2>1. ~Stands(a, pos)  BY <1>1 DEF Stands
  <2> QED  BY <1>1, <1>4, <2>1, SpeltGrows
<1>8. DOMAIN Escapes = R!Escapes /\ Quote \in R!Escapes
  BY DEF Escapes, R!Escapes, Quote
<1>9. Spelt(a, q + 1) = literalBuffer'
  <2>1. CASE At(q) \in DOMAIN Escapes
    <3>1. Stands(a, q)  BY <1>5, <1>8, <2>1 DEF Stands
    <3>2. R!Meaning(a, q) = Escapes[At(q)]
      BY <1>2, <1>5, <2>1 DEF R!Meaning, Escapes, Quote, NewLine
    <3> QED  BY <1>1, <1>4, <1>7, <2>1, <3>1, <3>2, SpeltGrows DEF q
  <2>2. CASE At(q) \notin DOMAIN Escapes
    <3>1. ~Stands(a, q)  BY <1>5, <1>8, <2>2 DEF Stands
    <3> QED  BY <1>1, <1>4, <1>7, <2>2, <3>1, SpeltGrows DEF q
  <2> QED  BY <2>1, <2>2
<1>10. \A p \in a .. (q + 1) - 1 : At(p) = Quote => R!Escaped(a, p)
  <2>1. \A p \in a .. (q + 1) - 1 : p = q \/ p = pos \/ p \in a .. pos - 1  BY <1>1, <1>4
  <2>2. At(pos) # Quote  BY DEF Quote
  <2> QED  BY <1>1, <1>5, <2>1, <2>2
<1>11. a <= q + 1  BY <1>1, <1>4
<1> QED  BY <1>2, <1>3, <1>4, <1>6, <1>9, <1>10, <1>11, TextStays DEF StringRead, a

(* A backslash before the end of the text, or before a byte that is no     *)
(* character: the lexer stays there.                                       *)
LEMMA BackslashIsRead ==
    ASSUME StringRead, mode = "string", pos \in Nat, tokenStart \in Nat,
           UNCHANGED <<text, tokenStart, literalBuffer>>, pos' = pos + 1,
           At(pos) = "\\", At(pos + 1) \in {Nul, Bad}
    PROVE  StringRead'
<1> DEFINE a == tokenStart + 1
<1>1. /\ a \in Nat /\ a <= pos /\ literalBuffer = Spelt(a, pos)
      /\ \A p \in a .. pos - 1 : At(p) = Quote => R!Escaped(a, p)
      /\ ~R!Escaped(a, pos)
  BY DEF StringRead, Nul, Bad
<1>2. \A p : At(p)' = At(p)  BY DEF At
<1>3. a' = a  OBVIOUS
<1> HIDE DEF a
<1>4. Spelt(a, pos + 1) = literalBuffer
  <2>1. ~Stands(a, pos)  BY <1>1 DEF Stands
  <2> QED  BY <1>1, <2>1, SpeltGrows
<1>5. \A p \in a .. (pos + 1) - 1 : At(p) = Quote => R!Escaped(a, p)
  <2>1. \A p \in a .. (pos + 1) - 1 : p = pos \/ p \in a .. pos - 1  BY <1>1
  <2>2. At(pos) # Quote  BY DEF Quote
  <2> QED  BY <1>1, <2>1, <2>2
<1>6. a <= pos + 1  BY <1>1
<1> QED  BY <1>2, <1>3, <1>4, <1>5, <1>6, TextStays DEF StringRead, a

(* What has been read is the literal when a quote or the end of the text   *)
(* ends the string.                                                        *)
LEMMA LiteralIsRead ==
    ASSUME StringRead, mode = "string", pos \in Nat, tokenStart \in Nat
    PROVE  /\ At(pos) = Quote => literalBuffer = R!Literal(tokenStart, pos + 1)
           /\ At(pos) = Nul => literalBuffer = R!Literal(tokenStart, pos)
<1> DEFINE a == tokenStart + 1
<1>1. /\ a \in Nat /\ a <= pos /\ literalBuffer = Spelt(a, pos)
      /\ \A p \in a .. pos - 1 : At(p) = Quote => R!Escaped(a, p)
      /\ ~R!Escaped(a, pos) \/ At(pos) \in {Nul, Bad}
  BY DEF StringRead
<1>2. \A p : R!At(p) = At(p)  BY DEF At, R!At, R!Nul, Nul
<1>3. a = tokenStart + 1 /\ a - 1 = tokenStart  OBVIOUS
<1> HIDE DEF a
<1>4. ASSUME At(pos) = Quote PROVE literalBuffer = R!Literal(tokenStart, pos + 1)
  <2>1. (pos + 1) - tokenStart >= 2 /\ (pos + 1) - 1 = pos /\ pos + 1 \in Nat  BY <1>1, <1>3
  <2>2. ~R!Escaped(a, pos)  BY <1>1, <1>4 DEF Quote, Nul, Bad
  <2>3. R!Closed(tokenStart, pos + 1)  BY <1>2, <1>3, <1>4, <2>1, <2>2 DEF R!Closed, Quote
  <2>4. R!LiteralEnd(tokenStart, pos + 1) - 1 = pos  BY <2>1, <2>3 DEF R!LiteralEnd
  <2> QED  BY <1>1, <1>3, <2>1, <2>4, LiteralIsSpelt
<1>5. ASSUME At(pos) = Nul PROVE literalBuffer = R!Literal(tokenStart, pos)
  <2>1. ~R!Closed(tokenStart, pos)
    <3> SUFFICES ASSUME R!Closed(tokenStart, pos) PROVE FALSE  OBVIOUS
    <3>1. pos - tokenStart >= 2 /\ At(pos - 1) = Quote /\ ~R!Escaped(a, pos - 1)
      BY <1>2, <1>3 DEF R!Closed, Quote
    <3>2. pos - 1 \in a .. pos - 1  BY <1>1, <1>3, <3>1
    <3> QED  BY <1>1, <3>1, <3>2
  <2>2. R!LiteralEnd(tokenStart, pos) - 1 = pos  BY <2>1 DEF R!LiteralEnd
  <2> QED  BY <1>1, <1>3, <2>2, LiteralIsSpelt
<1> QED  BY <1>4, <1>5
-----------------------------------------------------------------------------
LEMMA PoolUnchanged ==
    ASSUME UNCHANGED poolVars, Apart, OneOfEach, Fits
    PROVE  Apart' /\ OneOfEach' /\ Fits' /\ NamesAreKept
BY DEF poolVars, Apart, OneOfEach, EndOf, Fits, Size, NamesAreKept

LEMMA StrayingStays ==
    ASSUME NEW data, Intern(data) \/ UNCHANGED poolVars, ~strayed'
    PROVE  ~strayed
BY Zenon DEF Intern, poolVars

(* Ends a string: its text is interned, and its token gets the name.       *)
LEMMA FinishKeeps ==
    ASSUME StringInv, mode = "string", text' = text, NEW end \in Nat, FinishString(end),
           literalBuffer = R!Literal(tokenStart, end)
    PROVE  StaysTidy /\ StringRead'
<1>0. LexTypes  BY DEF StringInv, LexInv
<1>1. /\ pool \in Seq(Entry) /\ literalBuffer \in Seq(Character) /\ tokens \in Seq(Token)
      /\ tokenStart \in Nat /\ pos \in Nat /\ isStartOfLine \in BOOLEAN
  BY <1>0 DEF LexTypes
<1>2. Intern(literalBuffer) /\ MakeToken("string", tokenStart, end, NameFor(literalBuffer))
  BY DEF FinishString
<1>3. StringRead'  BY <1>2 DEF MakeToken, StringRead
<1>4. ASSUME ~strayed' PROVE ~strayed /\ Tidy' /\ NamesAreKept
  <2>1. ~strayed  BY <1>2, <1>4, StrayingStays
  <2>2. Apart /\ OneOfEach /\ Fits /\ StringsAreNamed  BY <2>1 DEF StringInv, Tidy
  <2>3. /\ Apart' /\ OneOfEach' /\ Fits' /\ NamesAreKept
        /\ \E k \in DOMAIN pool' : /\ pool'[k].at = NameFor(literalBuffer)
                                   /\ pool'[k].data = literalBuffer
    BY <1>1, <1>2, <1>4, <2>2, InternAppends
  <2> DEFINE mark == isStartOfLine \/ NewLineIn(pos, end)
             new == [kind |-> "string", start |-> tokenStart, end |-> end,
                     name |-> NameFor(literalBuffer), isStartOfLine |-> mark]
  <2>4. tokens' = Append(tokens, new)  BY <1>2 DEF MakeToken
  <2>5. new \in Token
    <3>1. NameFor(literalBuffer) \in Nat  BY <1>0, <1>1, NamesAreOffsets
    <3>2. mark \in BOOLEAN  BY Zenon
    <3> HIDE DEF mark
    <3> QED  BY <1>1, <3>1, <3>2 DEF Token, Kinds
  <2>6. new.start = tokenStart /\ new.end = end /\ new.name = NameFor(literalBuffer)
    OBVIOUS
  <2> HIDE DEF new
  <2>7. StringsAreNamed'  BY <1>1, <2>2, <2>3, <2>4, <2>5, <2>6, NamesStayBehind
  <2> QED  BY <2>1, <2>3, <2>7 DEF Tidy
<1> QED  BY <1>3, <1>4 DEF StaysTidy

(* Makes any other token.                                                  *)
LEMMA OtherTokenKeeps ==
    ASSUME StringInv, text' = text, UNCHANGED poolVars,
           NEW kind \in Kinds \ {"string"}, NEW start \in Nat, NEW end \in Nat,
           MakeToken(kind, start, end, NoName)
    PROVE  StaysTidy /\ StringRead'
<1>1. tokens \in Seq(Token) /\ pos \in Nat /\ isStartOfLine \in BOOLEAN
  BY DEF StringInv, LexInv, LexTypes
<1>2. StringRead'  BY DEF MakeToken, StringRead
<1>3. ASSUME ~strayed' PROVE ~strayed /\ Tidy' /\ NamesAreKept
  <2>1. ~strayed  BY <1>3, StrayingStays
  <2>2. Apart /\ OneOfEach /\ Fits /\ StringsAreNamed  BY <2>1 DEF StringInv, Tidy
  <2>3. Apart' /\ OneOfEach' /\ Fits' /\ NamesAreKept  BY <2>2, PoolUnchanged
  <2> DEFINE mark == isStartOfLine \/ NewLineIn(pos, end)
             new == [kind |-> kind, start |-> start, end |-> end,
                     name |-> NoName, isStartOfLine |-> mark]
  <2>4. tokens' = Append(tokens, new)  BY DEF MakeToken
  <2>5. new \in Token /\ new.kind # "string"
    <3>1. NoName \in Nat \cup {NoName} /\ kind \in Kinds  OBVIOUS
    <3>2. mark \in BOOLEAN  BY Zenon
    <3> HIDE DEF mark
    <3> QED  BY <1>1, <3>1, <3>2 DEF Token
  <2> HIDE DEF new
  <2>6. StringsAreNamed'  BY <1>1, <2>2, <2>3, <2>4, <2>5, NamesStayBehind
  <2> QED  BY <2>1, <2>3, <2>6 DEF Tidy
<1> QED  BY <1>2, <1>3 DEF StaysTidy

(* Makes no token.                                                         *)
LEMMA NoTokenKeeps ==
    ASSUME StringInv, UNCHANGED <<text, tokens, poolVars>>
    PROVE  StaysTidy
<1>1. tokens \in Seq(Token)  BY DEF StringInv, LexInv, LexTypes
<1>2. ASSUME ~strayed' PROVE ~strayed /\ Tidy' /\ NamesAreKept
  <2>1. ~strayed  BY <1>2, StrayingStays
  <2>2. Apart /\ OneOfEach /\ Fits /\ StringsAreNamed  BY <2>1 DEF StringInv, Tidy
  <2>3. Apart' /\ OneOfEach' /\ Fits' /\ NamesAreKept  BY <2>2, PoolUnchanged
  <2>4. StringsAreNamed'  BY <1>1, <2>2, <2>3, NamesStay
  <2> QED  BY <2>1, <2>3, <2>4 DEF Tidy
<1> QED  BY <1>2 DEF StaysTidy

LEMMA StringLoopKeeps ==
    ASSUME StringInv, LexString
    PROVE  StaysTidy /\ StringRead'
<1>0. LexTypes /\ StringRead  BY DEF StringInv, LexInv
<1>1. pos \in Nat /\ tokenStart \in Nat /\ mode = "string" /\ UNCHANGED <<text, tokenStart>>
  BY <1>0 DEF LexTypes, LexString, Inside
<1>2. pos + 1 \in Nat /\ (pos + 1) + 1 = pos + 2  BY <1>1
<1> DEFINE c == At(pos)
           e == At(pos + 1)
<1>3. CASE c = Quote /\ FinishString(pos + 1)
  <2>1. literalBuffer = R!Literal(tokenStart, pos + 1)  BY <1>0, <1>1, <1>3, LiteralIsRead
  <2> QED  BY <1>1, <1>2, <1>3, <2>1, FinishKeeps
<1>4. CASE c = Nul /\ FinishString(pos)
  <2>1. literalBuffer = R!Literal(tokenStart, pos)  BY <1>0, <1>1, <1>4, LiteralIsRead
  <2> QED  BY <1>1, <1>4, <2>1, FinishKeeps
<1>5. CASE /\ c = "\\" /\ e \in DOMAIN Escapes
           /\ literalBuffer' = Append(literalBuffer, Escapes[e])
           /\ Read(pos + 2) /\ UNCHANGED <<tokens, poolVars>>
  <2>1. UNCHANGED poolVars /\ pos' = pos + 2  BY <1>5 DEF Read
  <2>2. StringRead'  BY <1>0, <1>1, <1>5, <2>1, EscapeIsRead
  <2> QED  BY <1>1, <1>5, <2>1, <2>2, NoTokenKeeps
<1>6. CASE /\ c = "\\" /\ e \notin DOMAIN Escapes
           /\ Read(After(pos + 1)) /\ UNCHANGED <<tokens, literalBuffer, poolVars>>
  <2>1. UNCHANGED poolVars /\ pos' = After(pos + 1)  BY <1>6 DEF Read
  <2>2. CASE e \in {Nul, Bad}
    <3>1. pos' = pos + 1  BY <2>1, <2>2 DEF After
    <3>2. StringRead'  BY <1>0, <1>1, <1>6, <2>2, <3>1, BackslashIsRead
    <3> QED  BY <1>1, <1>6, <2>1, <3>2, NoTokenKeeps
  <2>3. CASE e \notin {Nul, Bad}
    <3>1. pos' = pos + 2  BY <1>2, <2>1, <2>3 DEF After
    <3>2. StringRead'  BY <1>0, <1>1, <1>6, <3>1, EscapeIsRead
    <3> QED  BY <1>1, <1>6, <2>1, <3>2, NoTokenKeeps
  <2> QED  BY <2>2, <2>3
<1>7. CASE Abort
  <2>1. UNCHANGED <<pos, literalBuffer, tokens, poolVars>> /\ mode' # "string"
    BY <1>7 DEF Abort
  <2> QED  BY <1>0, <1>1, <2>1, NoTokenKeeps, StringStays
<1>8. CASE /\ c \notin {Quote, Nul, "\\", Bad}
           /\ literalBuffer' = Append(literalBuffer, c)
           /\ Read(pos + 1) /\ UNCHANGED <<tokens, poolVars>>
  <2>1. UNCHANGED poolVars /\ pos' = pos + 1  BY <1>8 DEF Read
  <2>2. StringRead'  BY <1>0, <1>1, <1>8, <2>1, CharacterIsRead
  <2> QED  BY <1>1, <1>8, <2>1, <2>2, NoTokenKeeps
<1> HIDE DEF c, e
<1> QED  BY <1>3, <1>4, <1>5, <1>6, <1>7, <1>8 DEF LexString, c, e

LEMMA StringsKept ==
    ASSUME StringInv, Lex
    PROVE  StaysTidy /\ StringRead'
<1>0. LexTypes /\ StringRead  BY DEF StringInv, LexInv
<1>1. pos \in Nat /\ tokenStart \in Nat  BY <1>0 DEF LexTypes
<1>2. /\ pos + 1 \in Nat /\ After(pos) \in Nat /\ OperatorEnd(pos) \in Nat
  BY <1>1, PlacesAreAhead
<1>3. CASE SkipBlank
  <2>1. UNCHANGED <<text, tokens, poolVars>> /\ mode' # "string"
    BY <1>3 DEF SkipBlank, Opening
  <2> QED  BY <2>1, NoTokenKeeps DEF StringRead
<1>4. CASE LexOperator
  <2>1. /\ UNCHANGED <<text, poolVars>>
        /\ MakeToken("operator", pos, OperatorEnd(pos), NoName)
    BY <1>4 DEF LexOperator, Opening
  <2>2. "operator" \in Kinds \ {"string"}  BY DEF Kinds
  <2> QED  BY <1>1, <1>2, <2>1, <2>2, OtherTokenKeeps
<1>5. CASE StartComment
  <2>1. UNCHANGED <<text, tokens, poolVars>> /\ mode' # "string"
    BY <1>5 DEF StartComment, Opening
  <2> QED  BY <2>1, NoTokenKeeps DEF StringRead
<1>6. CASE StartLongToken
  <2>1. UNCHANGED <<text, tokens, poolVars>> /\ tokenStart' = pos /\ pos' = pos + 1
    BY <1>6 DEF StartLongToken, Opening, Read
  <2>2. CASE literalBuffer' = <<>>
    BY <1>1, <2>1, <2>2, NoTokenKeeps, StringBegins
  <2>3. CASE mode' # "string"
    BY <2>1, <2>3, NoTokenKeeps DEF StringRead
  <2> QED  BY <1>6, <2>2, <2>3 DEF StartLongToken
<1>7. CASE InvalidCharacter
  <2>1. UNCHANGED <<text, poolVars>>  BY <1>7 DEF InvalidCharacter, Opening
  <2>2. CASE Abort
    <3>1. UNCHANGED tokens /\ mode' # "string"  BY <2>2 DEF Abort
    <3> QED  BY <2>1, <3>1, NoTokenKeeps DEF StringRead
  <2>3. CASE MakeToken("invalid", pos, After(pos), NoName)
    <3>1. "invalid" \in Kinds \ {"string"}  BY DEF Kinds
    <3> QED  BY <1>1, <1>2, <2>1, <2>3, <3>1, OtherTokenKeeps
  <2> QED  BY <1>7, <2>2, <2>3 DEF InvalidCharacter
<1>8. CASE EndOfFile
  <2>1. UNCHANGED <<text, tokens, poolVars>> /\ mode' # "string"
    BY <1>8 DEF EndOfFile, Opening
  <2> QED  BY <2>1, NoTokenKeeps DEF StringRead
<1>9. CASE LexIdentifier
  <2>1. UNCHANGED <<text, poolVars>> /\ mode # "string"
    BY <1>9 DEF LexIdentifier, Inside, Quiet
  <2>2. CASE UNCHANGED <<mode, tokens>>  BY <2>1, <2>2, NoTokenKeeps DEF StringRead
  <2>3. ASSUME ~UNCHANGED <<mode, tokens>>
        PROVE  StaysTidy /\ StringRead'
    <3> DEFINE kind == IF Part(tokenStart, pos) \in Keywords THEN "keyword" ELSE "identifier"
    <3>1. MakeToken(kind, tokenStart, pos, NoName)  BY <1>9, <2>3 DEF LexIdentifier
    <3>2. kind \in Kinds \ {"string"}  BY DEF Kinds
    <3> HIDE DEF kind
    <3> QED  BY <1>1, <2>1, <3>1, <3>2, OtherTokenKeeps
  <2> QED  BY <2>2, <2>3
<1>10. CASE LexNumber
  <2>1. UNCHANGED <<text, poolVars>> /\ mode # "string"
    BY <1>10 DEF LexNumber, Quiet
  <2>2. CASE UNCHANGED tokens /\ mode' # "string"  BY <2>1, <2>2, NoTokenKeeps DEF StringRead
  <2>3. ASSUME ~(UNCHANGED tokens /\ mode' # "string")
        PROVE  StaysTidy /\ StringRead'
    <3> DEFINE kind == IF mode = "number" THEN "integer" ELSE "float"
    <3>1. MakeToken(kind, tokenStart, pos, NoName)  BY <1>10, <2>1, <2>3 DEF LexNumber
    <3>2. kind \in Kinds \ {"string"}  BY DEF Kinds
    <3> HIDE DEF kind
    <3> QED  BY <1>1, <2>1, <3>1, <3>2, OtherTokenKeeps
  <2> QED  BY <2>2, <2>3
<1>11. CASE LexString  BY <1>11, StringLoopKeeps
<1>12. CASE EatLineComment
  <2>1. UNCHANGED <<text, tokens, poolVars>> /\ mode' # "string"
    BY <1>12 DEF EatLineComment, Inside, Quiet
  <2> QED  BY <2>1, NoTokenKeeps DEF StringRead
<1>13. CASE LexBlockComment
  <2>1. UNCHANGED <<text, tokens, poolVars>> /\ mode' # "string"
    BY <1>13 DEF LexBlockComment, Inside
  <2> QED  BY <2>1, NoTokenKeeps DEF StringRead
<1> QED
  BY <1>3, <1>4, <1>5, <1>6, <1>7, <1>8, <1>9, <1>10, <1>11, <1>12, <1>13 DEF Lex

LEMMA StringInvInit == Init => StringInv
<1> SUFFICES ASSUME Init PROVE StringInv  OBVIOUS
<1>1. mode = "start" /\ tokens = <<>> /\ pool = <<>> /\ capacity = FirstCapacity
  BY DEF Init, LexInit, PoolInit
<1>2. Apart /\ OneOfEach /\ StringsAreNamed  BY <1>1 DEF Apart, OneOfEach, StringsAreNamed
<1>3. Fits  BY <1>1, PoolConstants DEF Fits, Size
<1>4. StringRead  BY <1>1 DEF StringRead
<1> QED  BY <1>2, <1>3, <1>4, LexInvInit DEF StringInv, Tidy

LEMMA StringInvNext == StringInv /\ [Next]_vars => StringInv' /\ StaysTidy
<1> SUFFICES ASSUME StringInv, [Next]_vars PROVE StringInv' /\ StaysTidy  OBVIOUS
<1>1. LexInv'  BY LexInvNext DEF StringInv
<1>2. StringRead' /\ StaysTidy
  <2>1. CASE LexStep
    <3>1. Lex  BY <2>1 DEF LexStep
    <3> QED  BY <3>1, StringsKept
  <2>2. CASE ~LexStep
    <3>1. UNCHANGED <<text, pos, mode, tokenStart, literalBuffer, tokens, poolVars>>
      BY <2>2 DEF Next, Work, EndParse, StartReport, Show, FinishReport, Complain, GiveUp,
                  NothingIsRead, vars, lexVars
    <3>2. StringRead  BY DEF StringInv
    <3>3. StringRead'  BY <3>1, <3>2, StringStays
    <3> QED  BY <3>1, <3>3, NoTokenKeeps
  <2> QED  BY <2>1, <2>2
<1> QED  BY <1>1, <1>2 DEF StringInv, StaysTidy

(* As long as nothing was written past the block, two different texts      *)
(* never share a name and no text has two: comparing names, as the         *)
(* compiler does everywhere, is comparing texts.                           *)
THEOREM NamesStandForTexts == Spec => [](~strayed => NamesAreTexts)
<1>1. StringInv => (~strayed => NamesAreTexts)
  BY OneNameEach DEF StringInv, Tidy, LexInv, LexTypes
<1> QED  BY <1>1, StringInvInit, StringInvNext, PTL DEF Spec

LEMMA TextIsFound ==
    ASSUME StringInv, ~strayed, NEW k \in DOMAIN pool
    PROVE  Get(pool[k].at) = pool[k].data
<1>1. NamesAreTexts  BY OneNameEach DEF StringInv, Tidy, LexInv, LexTypes
<1> DEFINE S == {pool[i] : i \in DOMAIN pool}
<1>2. pool[k] \in S  OBVIOUS
<1>3. \A e \in S : e.at = pool[k].at => e = pool[k]  BY <1>1 DEF NamesAreTexts
<1>4. (CHOOSE e \in S : e.at = pool[k].at) = pool[k]
  <2> HIDE DEF S
  <2> QED  BY <1>2, <1>3, Zenon
<1> QED  BY <1>4, Zenon DEF Get

TextsAreFound == \A k \in DOMAIN pool : Get(pool[k].at) = pool[k].data

LEMMA TextsFound == StringInv /\ ~strayed => TextsAreFound
BY TextIsFound DEF TextsAreFound

(* Looking up a name that was given out gives what it gave before.         *)
TextsAreKept ==
    \A name \in {pool[i].at : i \in DOMAIN pool} :
        /\ name \in {pool'[i].at : i \in DOMAIN pool'}
        /\ Get(name)' = Get(name)

(* A name that was given out is found ever after and gives the same text,  *)
(* wherever the block moves: nothing is lost when it grows, and nothing    *)
(* added later takes the name.  This holds until a string is written past  *)
(* the block, and not longer: the next growth may lose its end.            *)
THEOREM NamesLast == Spec => [][~strayed' => TextsAreKept]_vars
<1>1. ASSUME StringInv, TextsAreFound', StaysTidy, ~strayed' PROVE TextsAreKept
  <2>1. ~strayed /\ NamesAreKept  BY <1>1 DEF StaysTidy
  <2> SUFFICES ASSUME NEW k \in DOMAIN pool
               PROVE  /\ pool[k].at \in {pool'[i].at : i \in DOMAIN pool'}
                      /\ \A name : name = pool[k].at => Get(name)' = Get(name)
    BY DEF TextsAreKept
  <2>2. k \in DOMAIN pool' /\ pool'[k] = pool[k]  BY <2>1 DEF NamesAreKept
  <2>3. \A name : name = pool[k].at => Get(name) = pool[k].data  BY <1>1, <2>1, TextIsFound
  <2>4. \A name : name = pool'[k].at => Get(name)' = pool'[k].data
    BY <1>1, <2>2 DEF TextsAreFound
  <2> QED  BY <2>2, <2>3, <2>4
<1>2. StringInv /\ StaysTidy /\ (~strayed' => TextsAreFound')
        => [~strayed' => TextsAreKept]_vars
  BY <1>1
<1>3. StringInv /\ [Next]_vars => StringInv' /\ StaysTidy  BY StringInvNext
<1>4. StringInv /\ ~strayed => TextsAreFound  BY TextsFound
<1> QED  BY <1>2, <1>3, <1>4, StringInvInit, PTL DEF Spec

(* Whatever is interned after it, and wherever the block has moved, the    *)
(* name that the token of a string literal carries stands for its text,    *)
(* escapes replaced; two literals have one name exactly if they stand for  *)
(* the same text.                                                          *)
THEOREM StringsStayWhole == Spec => []StringsKeepTheirText
<1>1. ASSUME StringInv, ~strayed PROVE StringsKeepTheirText
  <2>1. \A i \in DOMAIN tokens : tokens[i].kind = "string" =>
            \E k \in DOMAIN pool :
               /\ pool[k].at = tokens[i].name
               /\ pool[k].data = R!Literal(tokens[i].start, tokens[i].end)
    BY <1>1 DEF StringInv, Tidy, StringsAreNamed, Named
  <2>2. \A k \in DOMAIN pool : Get(pool[k].at) = pool[k].data  BY <1>1, TextIsFound
  <2>3. \A k, l \in DOMAIN pool : pool[k].data = pool[l].data => k = l
    BY <1>1 DEF StringInv, Tidy, OneOfEach
  <2>4. ASSUME NEW i \in DOMAIN tokens, tokens[i].kind = "string",
               NEW j \in DOMAIN tokens, tokens[j].kind = "string",
               Get(tokens[i].name) = Get(tokens[j].name)
        PROVE  tokens[i].name = tokens[j].name
    <3>1. PICK k \in DOMAIN pool : pool[k].at = tokens[i].name  BY <2>1, <2>4
    <3>2. PICK l \in DOMAIN pool : pool[l].at = tokens[j].name  BY <2>1, <2>4
    <3>3. pool[k].data = pool[l].data  BY <2>2, <2>4, <3>1, <3>2
    <3>4. k = l  BY <2>3, <3>3
    <3> QED  BY <3>1, <3>2, <3>4
  <2>5. ASSUME NEW i \in DOMAIN tokens, tokens[i].kind = "string"
        PROVE  Get(tokens[i].name) = R!Literal(tokens[i].start, tokens[i].end)
    <3>1. PICK k \in DOMAIN pool :
               /\ pool[k].at = tokens[i].name
               /\ pool[k].data = R!Literal(tokens[i].start, tokens[i].end)
      BY <2>1, <2>5
    <3> QED  BY <2>2, <3>1
  <2> QED  BY <2>4, <2>5, Zenon DEF StringsKeepTheirText
<1>2. StringInv => StringsKeepTheirText  BY <1>1 DEF StringsKeepTheirText
<1> QED  BY <1>2, StringInvInit, StringInvNext, PTL DEF Spec
-----------------------------------------------------------------------------
(* The reference and the lexer see the same characters.                    *)
LEMMA SameCharacters ==
    /\ \A p : R!At(p) = At(p)
    /\ R!End = Len(text)
BY DEF R!At, R!Nul, At, Nul, R!End

(* The text is never written: what the grammar says of it stays.           *)
LEMMA GrammarStays ==
    ASSUME text' = text
    PROVE  /\ \A a, b : R!Gap(a, b)' <=> R!Gap(a, b)
           /\ \A a, b : R!Takes(a, b)' <=> R!Takes(a, b)
           /\ \A a, b : R!KindOf(a, b)' = R!KindOf(a, b)
           /\ \A a : R!DeadEnd(a)' <=> R!DeadEnd(a)
           /\ R!ClearComments' <=> R!ClearComments
           /\ R!NoNul' <=> R!NoNul
           /\ R!End' = R!End
<1>1. \A a, b : R!Skipped(a, b)' <=> R!Skipped(a, b)
  BY DEF R!Skipped, R!LineComment, R!BlockComment, R!Deep, R!Opens, R!Closes, R!At, R!Nul
<1>2. R!End' = R!End  BY DEF R!End
<1>3. \A a : R!Opens(a)' <=> R!Opens(a)  BY DEF R!Opens, R!At, R!Nul
<1>4. \A a, b : R!Lexeme(a, b)' <=> R!Lexeme(a, b)
  BY DEF R!Lexeme, R!Word, R!Integer, R!Fraction, R!String, R!Closed, R!Escaped, R!Backslashes,
         R!All, R!Piece, R!At, R!Nul
<1>5. \A a : R!Passable(a)' <=> R!Passable(a)  BY <1>1, <1>2 DEF R!Passable
<1>6. \A a, b : R!Gap(a, b)' <=> R!Gap(a, b)  BY <1>1 DEF R!Gap
<1>7. \A a, b : R!Takes(a, b)' <=> R!Takes(a, b)  BY <1>2, <1>3, <1>4, <1>5 DEF R!Takes
<1>8. \A a : R!DeadEnd(a)' <=> R!DeadEnd(a)  BY <1>2, <1>3, <1>4, <1>5 DEF R!DeadEnd
<1>9. \A a, b : R!KindOf(a, b)' = R!KindOf(a, b)
  BY DEF R!KindOf, R!Word, R!Integer, R!Fraction, R!String, R!Closed, R!Escaped, R!Backslashes,
         R!All, R!Piece, R!At, R!Nul
<1>10. (R!ClearComments' <=> R!ClearComments) /\ (R!NoNul' <=> R!NoNul)
  BY DEF R!ClearComments, R!NoNul, R!Piece, R!End, R!At, R!Nul
<1> QED  BY <1>2, <1>6, <1>7, <1>8, <1>9, <1>10

(* A gap is as long as the blanks and comments that follow each other.     *)
LEMMA GapStarts ==
    ASSUME NEW a \in Nat PROVE R!Gap(a, a)
<1>1. {a} \in SUBSET (a .. a)  OBVIOUS
<1> QED  BY <1>1, Zenon DEF R!Gap

LEMMA GapExtends ==
    ASSUME NEW a \in Nat, NEW b \in Nat, NEW c \in Nat, R!Gap(a, b), b < c, R!Skipped(b, c)
    PROVE  R!Gap(a, c)
<1>1. PICK cuts \in SUBSET (a .. b) :
          /\ {a, b} \subseteq cuts
          /\ \A x \in cuts \ {b} : \E d \in cuts : x < d /\ R!Skipped(x, d)
  BY DEF R!Gap
<1>2. a <= b /\ cuts \cup {c} \in SUBSET (a .. c)
  <2>1. a <= b  BY <1>1
  <2> QED  BY <2>1
<1>3. {a, c} \subseteq cuts \cup {c}  BY <1>1
<1>4. \A x \in (cuts \cup {c}) \ {c} : \E d \in cuts \cup {c} : x < d /\ R!Skipped(x, d)
  BY <1>1
<1> QED  BY <1>2, <1>3, <1>4, Zenon DEF R!Gap
-----------------------------------------------------------------------------
(* Operators by their characters.                                          *)
LEMMA OneItem ==
    ASSUME NEW S, NEW s \in Seq(S), NEW c
    PROVE  s = <<c>> <=> Len(s) = 1 /\ s[1] = c
OBVIOUS

LEMMA TwoItems ==
    ASSUME NEW S, NEW s \in Seq(S), NEW c, NEW d
    PROVE  s = <<c, d>> <=> Len(s) = 2 /\ s[1] = c /\ s[2] = d
OBVIOUS

LEMMA PieceIsThere ==
    ASSUME text \in Seq(STRING), NEW a \in Nat, NEW b \in Nat, a <= b, b <= Len(text)
    PROVE  /\ R!Piece(a, b) \in Seq(STRING) /\ Len(R!Piece(a, b)) = b - a
           /\ \A i \in 1 .. b - a : R!Piece(a, b)[i] = At(a + i - 1)
BY DEF R!Piece, At

LEMMA OneCharacterOperators ==
    ASSUME NEW c PROVE <<c>> \in R!Operators <=> c \in DOMAIN Seconds
BY DEF R!Operators, Seconds

LEMMA TwoCharacterOperators ==
    ASSUME NEW c, NEW d
    PROVE  <<c, d>> \in R!Operators <=> c \in DOMAIN Seconds /\ d \in Seconds[c]
BY DEF R!Operators, Seconds
-----------------------------------------------------------------------------
(* Letters, digits, blanks and the characters of operators are apart.      *)
LEMMA CharactersDiffer ==
    ASSUME NEW c
    PROVE  /\ c \in Letters => c \notin Digits
           /\ c \in Letters \cup Digits =>
                 c \notin Blanks /\ c \notin DOMAIN Seconds /\ c \notin {"#", Quote, Nul, Bad}
           /\ c \in DOMAIN Seconds => c \notin Blanks /\ c \notin {"#", Quote, Nul, Bad}
           /\ c \in Blanks => c \notin {"#", Quote, Nul, Bad}
           /\ "." \in DOMAIN Seconds /\ "/" \in DOMAIN Seconds /\ "*" \in DOMAIN Seconds
<1>1. \A d \in DOMAIN Seconds : d \notin Blanks /\ d \notin {"#", Quote, Nul, Bad}
  BY DEF Seconds, Blanks, NewLine, Quote, Nul, Bad
<1>2. \A d \in Blanks : d \notin {"#", Quote, Nul, Bad}
  BY DEF Blanks, NewLine, Quote, Nul, Bad
<1>3. "." \in DOMAIN Seconds /\ "/" \in DOMAIN Seconds /\ "*" \in DOMAIN Seconds  BY DEF Seconds
<1> HIDE DEF Blanks, Quote, Nul, Bad
<1> QED  BY <1>1, <1>2, <1>3, LexerConstants

(* A piece is an operator exactly if the table of seconds says so.         *)
LEMMA OperatorPieces ==
    ASSUME text \in Seq(STRING), NEW a \in Nat, NEW b \in Nat, a <= b, b <= Len(text)
    PROVE  R!Piece(a, b) \in R!Operators <=>
              /\ At(a) \in DOMAIN Seconds
              /\ b = a + 1 \/ (b = a + 2 /\ At(a + 1) \in Seconds[At(a)])
<1> DEFINE s == R!Piece(a, b)
<1>1. /\ s \in Seq(STRING) /\ Len(s) = b - a
      /\ b - a >= 1 => s[1] = At(a)
      /\ b - a >= 2 => s[2] = At(a + 1)
  <2>1. /\ s \in Seq(STRING) /\ Len(s) = b - a
        /\ \A i \in 1 .. b - a : s[i] = At(a + i - 1)
    BY PieceIsThere
  <2> HIDE DEF s
  <2>2. ASSUME b - a >= 1 PROVE s[1] = At(a)
    <3>1. 1 \in 1 .. b - a /\ a + 1 - 1 = a  BY <2>2
    <3> QED  BY <2>1, <3>1
  <2>3. ASSUME b - a >= 2 PROVE s[2] = At(a + 1)
    <3>1. 2 \in 1 .. b - a /\ a + 2 - 1 = a + 1  BY <2>3
    <3> QED  BY <2>1, <3>1
  <2> QED  BY <2>1, <2>2, <2>3
<1>2. s \in R!Operators => (\E c : s = <<c>>) \/ (\E c, d : s = <<c, d>>)
  BY DEF R!Operators
<1> HIDE DEF s
<1>3. ASSUME NEW c PROVE s = <<c>> <=> b = a + 1 /\ At(a) = c
  <2>1. s = <<c>> <=> Len(s) = 1 /\ s[1] = c  BY <1>1, OneItem
  <2> QED  BY <1>1, <2>1
<1>4. ASSUME NEW c, NEW d PROVE s = <<c, d>> <=> b = a + 2 /\ At(a) = c /\ At(a + 1) = d
  <2>1. s \in Seq(STRING)  BY <1>1
  <2>2. s = <<c, d>> <=> Len(s) = 2 /\ s[1] = c /\ s[2] = d  BY <2>1, TwoItems
  <2> QED  BY <1>1, <2>2
<1>5. ASSUME s \in R!Operators
      PROVE  /\ At(a) \in DOMAIN Seconds
             /\ b = a + 1 \/ (b = a + 2 /\ At(a + 1) \in Seconds[At(a)])
  <2>1. CASE \E c : s = <<c>>  BY <1>3, <1>5, <2>1, OneCharacterOperators
  <2>2. CASE \E c, d : s = <<c, d>>
    <3>1. PICK c, d : s = <<c, d>>  BY <2>2
    <3>2. b = a + 2 /\ At(a) = c /\ At(a + 1) = d  BY <1>4, <3>1
    <3>3. c \in DOMAIN Seconds /\ d \in Seconds[c]  BY <1>5, <3>1, TwoCharacterOperators
    <3> QED  BY <3>2, <3>3
  <2> QED  BY <1>2, <1>5, <2>1, <2>2
<1>6. ASSUME At(a) \in DOMAIN Seconds, b = a + 1 PROVE s \in R!Operators
  <2>1. s = <<At(a)>>  BY <1>3, <1>6
  <2> QED  BY <1>6, <2>1, OneCharacterOperators
<1>7. ASSUME At(a) \in DOMAIN Seconds, b = a + 2, At(a + 1) \in Seconds[At(a)]
      PROVE  s \in R!Operators
  <2>1. s = <<At(a), At(a + 1)>>  BY <1>4, <1>7
  <2> QED  BY <1>7, <2>1, TwoCharacterOperators
<1> QED  BY <1>5, <1>6, <1>7 DEF s

(* What begins with a character can only be one kind of lexeme.            *)
LEMMA LexemeStarts ==
    ASSUME text \in Seq(STRING), NEW a \in Nat, NEW b \in Nat, a < b, b <= Len(text),
           R!Lexeme(a, b)
    PROVE  \/ At(a) \in Letters /\ R!Word(a, b)
           \/ At(a) \in Digits /\ (R!Integer(a, b) \/ R!Fraction(a, b))
           \/ At(a) = Quote /\ R!String(a, b)
           \/ At(a) \in DOMAIN Seconds /\ R!Piece(a, b) \in R!Operators
<1>1. CASE R!Word(a, b)  BY <1>1, SameCharacters DEF R!Word
<1>2. ASSUME NEW e \in Nat, a < e, R!Integer(a, e) PROVE At(a) \in Digits
  <2>1. a \in a .. e - 1  BY <1>2
  <2> QED  BY <1>2, <2>1, SameCharacters DEF R!Integer, R!All
<1>3. CASE R!Integer(a, b)  BY <1>2, <1>3
<1>4. CASE R!Fraction(a, b)
  <2>1. PICK dot \in (a + 1) .. (b - 2) : R!Integer(a, dot)  BY <1>4 DEF R!Fraction
  <2>2. dot \in Nat /\ a < dot  BY <2>1
  <2> QED  BY <1>2, <1>4, <2>1, <2>2
<1>5. CASE R!String(a, b)  BY <1>5, SameCharacters DEF R!String, Quote
<1>6. CASE R!Piece(a, b) \in R!Operators  BY <1>6, OperatorPieces
<1> QED  BY <1>1, <1>3, <1>4, <1>5, <1>6 DEF R!Lexeme

(* Blanks and comments begin with characters of their own.                 *)
LEMMA SkippedStarts ==
    ASSUME NEW a \in Nat, NEW b, R!Skipped(a, b)
    PROVE  \/ At(a) \in Blanks \/ At(a) = "#"
           \/ At(a) = "/" /\ At(a + 1) \in {"/", "*"}
BY SameCharacters DEF R!Skipped, R!LineComment, R!BlockComment, R!Opens, Blanks, NewLine

LEMMA StartsNothing ==
    ASSUME NEW a \in Nat, At(a) \notin Blanks, At(a) # "#",
           ~(At(a) = "/" /\ At(a + 1) \in {"/", "*"})
    PROVE  ~R!Passable(a) /\ ~R!Opens(a)
BY SkippedStarts, SameCharacters DEF R!Passable, R!Opens
-----------------------------------------------------------------------------
(* The lexemes that the loops of the lexer find are the longest ones.      *)
LEMMA NoOtherStart ==
    ASSUME NEW a \in Nat, NEW b \in Nat, a < b
    PROVE  /\ At(a) \notin Letters => ~R!Word(a, b)
           /\ At(a) \notin Digits => ~R!Integer(a, b) /\ ~R!Fraction(a, b)
           /\ At(a) # Quote => ~R!String(a, b)
<1>1. ASSUME At(a) \notin Digits PROVE \A e \in Nat : a < e => ~R!Integer(a, e)
  <2>1. \A e \in Nat : a < e => a \in a .. e - 1  OBVIOUS
  <2> QED  BY <1>1, <2>1, SameCharacters DEF R!Integer, R!All
<1>2. \A dot \in (a + 1) .. (b - 2) : dot \in Nat /\ a < dot  OBVIOUS
<1> QED  BY <1>1, <1>2, SameCharacters DEF R!Word, R!Fraction, R!String, Quote

LEMMA TakesWord ==
    ASSUME text \in Seq(STRING), NEW a \in Nat, NEW b \in Nat, a < b, b <= Len(text),
           R!Word(a, b), At(b) \notin Letters \cup Digits
    PROVE  /\ R!Takes(a, b)
           /\ R!KindOf(a, b) = IF Part(a, b) \in Keywords THEN "keyword" ELSE "identifier"
<1>1. At(a) \in Letters  BY SameCharacters DEF R!Word
<1>2. ~R!Passable(a) /\ ~R!Opens(a)
  <2>1. At(a) \notin Blanks /\ At(a) # "#" /\ At(a) # "/"  BY <1>1, CharactersDiffer
  <2> QED  BY <2>1, StartsNothing
<1>3. ASSUME NEW c \in (b + 1) .. R!End PROVE ~R!Lexeme(a, c)
  <2>1. c \in Nat /\ a < c /\ c <= Len(text) /\ b \in a .. c - 1  BY SameCharacters
  <2>2. ~R!Word(a, c)  BY <2>1, SameCharacters DEF R!Word, R!All
  <2>3. At(a) \notin Digits /\ At(a) # Quote /\ At(a) \notin DOMAIN Seconds
    BY <1>1, CharactersDiffer
  <2> QED  BY <2>1, <2>2, <2>3, LexemeStarts
<1>4. ~R!Integer(a, b) /\ ~R!Fraction(a, b) /\ ~R!String(a, b)
  <2>1. At(a) \notin Digits /\ At(a) # Quote  BY <1>1, CharactersDiffer
  <2> QED  BY <2>1, NoOtherStart
<1>5. R!KindOf(a, b) = IF Part(a, b) \in Keywords THEN "keyword" ELSE "identifier"
  BY <1>4 DEF R!KindOf, R!Piece, Part
<1> QED  BY <1>2, <1>3, <1>5 DEF R!Takes, R!Lexeme

LEMMA StartsWithDigit ==
    ASSUME NEW a \in Nat, NEW b, At(a) \in Digits
    PROVE  /\ ~R!Passable(a) /\ ~R!Opens(a) /\ ~R!Word(a, b)
           /\ At(a) \notin Letters /\ At(a) # Quote /\ At(a) \notin DOMAIN Seconds
<1>1. /\ At(a) \notin Blanks /\ At(a) # "#" /\ At(a) # "/"
      /\ At(a) \notin Letters /\ At(a) # Quote /\ At(a) \notin DOMAIN Seconds
  BY CharactersDiffer
<1> QED  BY <1>1, StartsNothing, SameCharacters DEF R!Word

LEMMA TakesInteger ==
    ASSUME text \in Seq(STRING), NEW a \in Nat, NEW b \in Nat, a < b, b <= Len(text),
           R!Integer(a, b), At(b) \notin Digits, ~(At(b) = "." /\ At(b + 1) \in Digits)
    PROVE  R!Takes(a, b) /\ R!KindOf(a, b) = "integer"
<1>1. \A p \in a .. b - 1 : At(p) \in Digits  BY SameCharacters DEF R!Integer, R!All
<1>2. At(a) \in Digits
  <2>1. a \in a .. b - 1  OBVIOUS
  <2> QED  BY <1>1, <2>1
<1>3. ASSUME NEW c \in (b + 1) .. R!End PROVE ~R!Lexeme(a, c)
  <2>1. c \in Nat /\ a < c /\ c <= Len(text) /\ b \in a .. c - 1  BY SameCharacters
  <2>2. ~R!Integer(a, c)  BY <2>1, SameCharacters DEF R!Integer, R!All
  <2>3. ~R!Fraction(a, c)
    <3> SUFFICES ASSUME R!Fraction(a, c) PROVE FALSE  OBVIOUS
    <3>1. PICK dot \in (a + 1) .. (c - 2) :
               At(dot) = "." /\ R!Integer(a, dot) /\ R!Integer(dot + 1, c)
      BY SameCharacters DEF R!Fraction
    <3>2. dot < b => dot \in a .. b - 1  BY <2>1
    <3>3. "." \notin Digits  BY CharactersDiffer
    <3>4. b < dot => b \in a .. dot - 1  OBVIOUS
    <3>5. ~(b < dot)  BY <3>1, <3>4, SameCharacters DEF R!Integer, R!All
    <3>6. dot = b  BY <1>1, <3>1, <3>2, <3>3, <3>5
    <3>7. b + 1 \in dot + 1 .. c - 1  BY <2>1, <3>6
    <3> QED  BY <3>1, <3>6, <3>7, SameCharacters DEF R!Integer, R!All
  <2> QED  BY <1>2, <2>1, <2>2, <2>3, LexemeStarts, StartsWithDigit
<1>4. ~R!Fraction(a, b)
  <2> SUFFICES ASSUME R!Fraction(a, b) PROVE FALSE  OBVIOUS
  <2>1. PICK dot \in (a + 1) .. (b - 2) : At(dot) = "."  BY SameCharacters DEF R!Fraction
  <2>2. dot \in a .. b - 1 /\ "." \notin Digits  BY CharactersDiffer
  <2> QED  BY <1>1, <2>1, <2>2
<1>5. ~R!Passable(a) /\ ~R!Opens(a) /\ ~R!Word(a, b) /\ ~R!String(a, b)
  BY <1>2, StartsWithDigit, NoOtherStart
<1> QED  BY <1>3, <1>4, <1>5 DEF R!Takes, R!Lexeme, R!KindOf

LEMMA TakesFraction ==
    ASSUME text \in Seq(STRING), NEW a \in Nat, NEW b \in Nat, b <= Len(text),
           NEW dot \in a + 1 .. b - 1, At(dot) = ".", R!Integer(a, dot), R!Integer(dot + 1, b),
           dot + 1 < b, At(b) \notin Digits
    PROVE  R!Takes(a, b) /\ R!KindOf(a, b) = "float"
<1>1. \A p \in a .. dot - 1 : At(p) \in Digits  BY SameCharacters DEF R!Integer, R!All
<1>2. At(a) \in Digits
  <2>1. a \in a .. dot - 1  OBVIOUS
  <2> QED  BY <1>1, <2>1
<1>3. "." \notin Digits  BY CharactersDiffer
<1>4. \A c \in Nat : dot < c => ~R!Integer(a, c)
  <2>1. \A c \in Nat : dot < c => dot \in a .. c - 1  OBVIOUS
  <2> QED  BY <1>3, <2>1, SameCharacters DEF R!Integer, R!All
<1>5. ASSUME NEW c \in (b + 1) .. R!End PROVE ~R!Lexeme(a, c)
  <2>1. c \in Nat /\ a < c /\ c <= Len(text) /\ dot < c  BY SameCharacters
  <2>2. ~R!Fraction(a, c)
    <3> SUFFICES ASSUME R!Fraction(a, c) PROVE FALSE  OBVIOUS
    <3>1. PICK d \in (a + 1) .. (c - 2) :
               At(d) = "." /\ R!Integer(a, d) /\ R!Integer(d + 1, c)
      BY SameCharacters DEF R!Fraction
    <3>2. ~(dot < d)  BY <1>4, <3>1
    <3>3. d < dot => d \in a .. dot - 1  OBVIOUS
    <3>4. d = dot  BY <1>1, <1>3, <3>1, <3>2, <3>3
    <3>5. b \in d + 1 .. c - 1  BY <2>1, <3>4
    <3> QED  BY <3>1, <3>5, SameCharacters DEF R!Integer, R!All
  <2> QED  BY <1>2, <1>4, <2>1, <2>2, LexemeStarts, StartsWithDigit
<1>6. R!Fraction(a, b)
  <2>1. dot \in (a + 1) .. (b - 2)  OBVIOUS
  <2> QED  BY <2>1, SameCharacters DEF R!Fraction
<1>7. ~R!Integer(a, b)
  <2>1. dot < b  OBVIOUS
  <2> QED  BY <1>4, <2>1
<1>8. ~R!Passable(a) /\ ~R!Opens(a) /\ ~R!Word(a, b) /\ ~R!String(a, b)
  <2>1. a < b  OBVIOUS
  <2> QED  BY <1>2, <2>1, StartsWithDigit, NoOtherStart
<1> QED  BY <1>5, <1>6, <1>7, <1>8 DEF R!Takes, R!Lexeme, R!KindOf

LEMMA TakesString ==
    ASSUME text \in Seq(STRING), NEW a \in Nat, NEW p \in Nat, a < p, p < Len(text),
           At(a) = Quote, At(p) = Quote, ~R!Escaped(a + 1, p),
           \A q \in a + 1 .. p - 1 : At(q) = Quote => R!Escaped(a + 1, q),
           \A q \in a + 1 .. p - 1 : R!Escaped(a + 1, q) => At(q) \in R!Escapes
    PROVE  R!Takes(a, p + 1) /\ R!KindOf(a, p + 1) = "string"
<1>1. (p + 1) - 1 = p /\ (p + 1) - 2 = p - 1 /\ (p + 1) - a >= 2  OBVIOUS
<1>2. R!Closed(a, p + 1)  BY <1>1, SameCharacters DEF R!Closed, Quote
<1>3. R!String(a, p + 1)
  BY <1>1, <1>2, SameCharacters DEF R!String, Quote
<1>4. /\ At(a) \notin Blanks /\ At(a) # "#" /\ At(a) # "/"
      /\ At(a) \notin Letters /\ At(a) \notin Digits /\ At(a) \notin DOMAIN Seconds
  <2>1. At(a) # "#" /\ At(a) # "/"  BY DEF Quote
  <2> QED  BY <2>1, CharactersDiffer
<1>5. ~R!Passable(a) /\ ~R!Opens(a)  BY <1>4, StartsNothing
<1>6. ASSUME NEW c \in ((p + 1) + 1) .. R!End PROVE ~R!Lexeme(a, c)
  <2>1. c \in Nat /\ a < c /\ c <= Len(text) /\ p \in a + 1 .. c - 2  BY SameCharacters
  <2>2. ~R!String(a, c)  BY <2>1, SameCharacters DEF R!String, Quote
  <2> QED  BY <1>4, <2>1, <2>2, LexemeStarts
<1>7. ~R!Word(a, p + 1) /\ ~R!Integer(a, p + 1) /\ ~R!Fraction(a, p + 1)
  <2>1. p + 1 \in Nat /\ a < p + 1  OBVIOUS
  <2> QED  BY <1>4, <2>1, NoOtherStart
<1> QED  BY <1>3, <1>5, <1>6, <1>7 DEF R!Takes, R!Lexeme, R!KindOf

(* An operator with its second character, if any, is the longest lexeme.   *)
LEMMA TakesOperator ==
    ASSUME text \in Seq(STRING), NEW a \in Nat, At(a) \in DOMAIN Seconds,
           ~(At(a) = "/" /\ At(a + 1) \in {"/", "*"})
    PROVE  /\ R!Takes(a, OperatorEnd(a)) /\ R!KindOf(a, OperatorEnd(a)) = "operator"
           /\ OperatorEnd(a) <= Len(text)
<1> DEFINE b == OperatorEnd(a)
<1>1. /\ At(a) \notin Blanks /\ At(a) # "#" /\ At(a) # Quote /\ At(a) # Nul
      /\ At(a) \notin Letters /\ At(a) \notin Digits
  BY CharactersDiffer
<1>2. \A p \in Nat : At(p) # Nul => p < Len(text)  BY DEF At
<1>3. At(a + 1) \in Seconds[At(a)] => At(a + 1) # Nul
  <2>1. \A c \in DOMAIN Seconds : Nul \notin Seconds[c]  BY DEF Seconds, Nul
  <2> QED  BY <2>1
<1>4. /\ b \in Nat /\ a < b /\ b <= Len(text)
      /\ b = a + 1 \/ (b = a + 2 /\ At(a + 1) \in Seconds[At(a)])
      /\ b = a + 1 => At(a + 1) \notin Seconds[At(a)]
  <2>1. Len(text) \in Nat  OBVIOUS
  <2> QED  BY <1>1, <1>2, <1>3, <2>1 DEF OperatorEnd
<1> HIDE DEF b
<1>5. R!Lexeme(a, b)  BY <1>4, OperatorPieces DEF R!Lexeme
<1>6. ~R!Passable(a) /\ ~R!Opens(a)  BY <1>1, StartsNothing
<1>7. ASSUME NEW c \in (b + 1) .. R!End PROVE ~R!Lexeme(a, c)
  <2>1. c \in Nat /\ a < c /\ a <= c /\ c <= Len(text) /\ b < c  BY <1>4, SameCharacters
  <2>2. R!Piece(a, c) \notin R!Operators  BY <1>4, <2>1, OperatorPieces
  <2> QED  BY <1>1, <2>1, <2>2, LexemeStarts
<1>8. ~R!Word(a, b) /\ ~R!Integer(a, b) /\ ~R!Fraction(a, b) /\ ~R!String(a, b)
  BY <1>1, <1>4, NoOtherStart
<1> QED  BY <1>4, <1>5, <1>6, <1>7, <1>8 DEF R!Takes, R!KindOf, b
-----------------------------------------------------------------------------
(* A quote begins no comment, and nothing but a string.                    *)
LEMMA QuoteStarts ==
    ASSUME NEW a \in Nat, At(a) = Quote
    PROVE  /\ ~R!Passable(a) /\ ~R!Opens(a)
           /\ At(a) \notin Letters /\ At(a) \notin Digits /\ At(a) \notin DOMAIN Seconds
<1>1. /\ At(a) \notin Blanks /\ At(a) # "#" /\ At(a) # "/"
      /\ At(a) \notin Letters /\ At(a) \notin Digits /\ At(a) \notin DOMAIN Seconds
  <2>1. At(a) # "#" /\ At(a) # "/"  BY DEF Quote
  <2> QED  BY <2>1, CharactersDiffer
<1> QED  BY <1>1, StartsNothing

(* A string without an end, or with an escape that means nothing, is no    *)
(* lexeme, and nothing else begins with its quote.                         *)
LEMMA StringHasNoEnd ==
    ASSUME text \in Seq(STRING), NEW a \in Nat, NEW p \in Nat, a + 1 <= p, p <= Len(text),
           At(a) = Quote,
           \A q \in a + 1 .. p - 1 : At(q) = Quote => R!Escaped(a + 1, q),
           \/ p = Len(text)
           \/ At(p) = "\\" /\ ~R!Escaped(a + 1, p) /\ At(p + 1) \notin R!Escapes
    PROVE  R!DeadEnd(a)
<1>1. ASSUME NEW b \in (a + 1) .. R!End PROVE ~R!Lexeme(a, b)
  <2>1. b \in Nat /\ a < b /\ b <= Len(text)  BY SameCharacters
  <2>2. ~R!String(a, b)
    <3> SUFFICES ASSUME R!String(a, b) PROVE FALSE  OBVIOUS
    <3>1. /\ b - a >= 2 /\ At(b - 1) = Quote /\ ~R!Escaped(a + 1, b - 1)
          /\ \A q \in (a + 1) .. (b - 2) : R!Escaped(a + 1, q) => At(q) \in R!Escapes
      BY SameCharacters DEF R!String, R!Closed, Quote
    <3>2. ~(b - 1 < p)
      <4>1. b - 1 < p => b - 1 \in a + 1 .. p - 1  BY <2>1, <3>1
      <4> QED  BY <3>1, <4>1
    <3>3. p # Len(text)  BY <2>1, <3>2
    <3>4. At(p) = "\\" /\ ~R!Escaped(a + 1, p) /\ At(p + 1) \notin R!Escapes  BY <3>3
    <3>5. R!Escaped(a + 1, p + 1)
      <4>1. a + 1 \in Nat  OBVIOUS
      <4> QED  BY <3>4, <4>1, EscapesAlternate
    <3>6. b - 1 # p  BY <3>1, <3>4 DEF Quote
    <3>7. b - 1 # p + 1  BY <3>1, <3>5
    <3>8. p + 1 \in (a + 1) .. (b - 2)  BY <2>1, <3>2, <3>6, <3>7
    <3> QED  BY <3>1, <3>4, <3>5, <3>8
  <2> QED  BY <2>1, <2>2, QuoteStarts, LexemeStarts
<1> QED  BY <1>1, QuoteStarts DEF R!DeadEnd

(* What no lexeme, no blank and no comment begins with.                    *)
LEMMA NothingStarts ==
    ASSUME text \in Seq(STRING), NEW a \in Nat,
           At(a) \notin Blanks \cup DOMAIN Seconds \cup Letters \cup Digits \cup {"#", Quote, Nul}
    PROVE  R!DeadEnd(a)
<1>1. At(a) # "/"  BY CharactersDiffer
<1>2. ~R!Passable(a)  BY <1>1, StartsNothing
<1>3. ASSUME NEW b \in (a + 1) .. R!End PROVE ~R!Lexeme(a, b)
  <2>1. b \in Nat /\ a < b /\ b <= Len(text)  BY SameCharacters
  <2> QED  BY <2>1, LexemeStarts
<1> QED  BY <1>2, <1>3 DEF R!DeadEnd
-----------------------------------------------------------------------------
(* Counting the delimiters of comments.                                    *)
Opened(a, b) == {p \in a .. b - 2 : R!Opens(p)}
Shut(a, b)   == {p \in a .. b - 2 : R!Closes(p)}

LEMMA OneMoreOfThem ==
    ASSUME NEW a \in Nat, NEW b \in Nat, a + 1 <= b
    PROVE  /\ Cardinality(Opened(a, b)) \in Nat /\ Cardinality(Shut(a, b)) \in Nat
           /\ Cardinality(Opened(a, b + 1)) =
                  Cardinality(Opened(a, b)) + (IF R!Opens(b - 1) THEN 1 ELSE 0)
           /\ Cardinality(Shut(a, b + 1)) =
                  Cardinality(Shut(a, b)) + (IF R!Closes(b - 1) THEN 1 ELSE 0)
<1>1. b - 2 \in Int /\ a \in Int  OBVIOUS
<1>2. IsFiniteSet(a .. b - 2)  BY <1>1, FS_Interval
<1>3. Opened(a, b) \in SUBSET (a .. b - 2) /\ Shut(a, b) \in SUBSET (a .. b - 2)
  BY DEF Opened, Shut
<1>4. /\ IsFiniteSet(Opened(a, b)) /\ IsFiniteSet(Shut(a, b))
      /\ Cardinality(Opened(a, b)) \in Nat /\ Cardinality(Shut(a, b)) \in Nat
  BY <1>2, <1>3, FS_Subset, FS_CardinalityType
<1>5. \A p : p \in a .. (b + 1) - 2 <=> p = b - 1 \/ p \in a .. b - 2  OBVIOUS
<1>6. b - 1 \notin a .. b - 2  OBVIOUS
<1>7. /\ R!Opens(b - 1) => Opened(a, b + 1) = Opened(a, b) \cup {b - 1}
      /\ ~R!Opens(b - 1) => Opened(a, b + 1) = Opened(a, b)
      /\ R!Closes(b - 1) => Shut(a, b + 1) = Shut(a, b) \cup {b - 1}
      /\ ~R!Closes(b - 1) => Shut(a, b + 1) = Shut(a, b)
  BY <1>5 DEF Opened, Shut
<1>8. b - 1 \notin Opened(a, b) /\ b - 1 \notin Shut(a, b)  BY <1>3, <1>6
<1>9. /\ Cardinality(Opened(a, b) \cup {b - 1}) = Cardinality(Opened(a, b)) + 1
      /\ Cardinality(Shut(a, b) \cup {b - 1}) = Cardinality(Shut(a, b)) + 1
  BY <1>4, <1>8, FS_AddElement
<1> QED  BY <1>4, <1>7, <1>9

LEMMA DeepIsCounted ==
    ASSUME NEW a \in Nat, NEW b \in Nat, a + 1 <= b
    PROVE  /\ R!Deep(a, b) \in Int
           /\ R!Opens(b - 1) => R!Deep(a, b + 1) = R!Deep(a, b) + 1
           /\ R!Closes(b - 1) => R!Deep(a, b + 1) = R!Deep(a, b) - 1
           /\ ~R!Opens(b - 1) /\ ~R!Closes(b - 1) => R!Deep(a, b + 1) = R!Deep(a, b)
<1>1. \A c : R!Deep(a, c) = Cardinality(Opened(a, c)) - Cardinality(Shut(a, c))
  BY DEF R!Deep, R!Cardinality, Cardinality, Opened, Shut
<1>2. ~(R!Opens(b - 1) /\ R!Closes(b - 1))  BY DEF R!Opens, R!Closes
<1> QED  BY <1>1, <1>2, OneMoreOfThem

LEMMA DeepAtFirst ==
    ASSUME NEW a \in Nat, R!Opens(a)
    PROVE  R!Deep(a, a + 2) = 1
<1>1. R!Deep(a, a + 1) = 0
  <2>1. a .. (a + 1) - 2 = {}  OBVIOUS
  <2>2. Opened(a, a + 1) = {} /\ Shut(a, a + 1) = {}  BY <2>1 DEF Opened, Shut
  <2>3. R!Deep(a, a + 1) = Cardinality(Opened(a, a + 1)) - Cardinality(Shut(a, a + 1))
    BY DEF R!Deep, R!Cardinality, Cardinality, Opened, Shut
  <2> QED  BY <2>2, <2>3, FS_EmptySet
<1>2. a + 1 \in Nat /\ (a + 1) - 1 = a /\ (a + 1) + 1 = a + 2  OBVIOUS
<1>3. R!Deep(a, (a + 1) + 1) = R!Deep(a, a + 1) + 1  BY <1>2, DeepIsCounted
<1> QED  BY <1>1, <1>2, <1>3
-----------------------------------------------------------------------------
(* What the lexer has made of the text so far when no error was filed: the *)
(* tokens are right, blanks and comments follow the last one up to the     *)
(* place it reads or the long token it is in, and that token is the        *)
(* beginning of a lexeme of its kind, or of a comment.                     *)
LongModes == {"identifier", "number", "fraction", "string", "line", "block"}

Between  == mode \in {"start", "eof"} => R!Gap(LastEnd, pos)
AtTheEnd == mode = "eof" => At(pos) = Nul
InLong   == mode \in LongModes => tokenStart < pos /\ R!Gap(LastEnd, tokenStart)
InWord   == mode = "identifier" => R!Word(tokenStart, pos)
InNumber == mode = "number" => R!Integer(tokenStart, pos)
InFraction == mode = "fraction" =>
    \E dot \in tokenStart + 1 .. pos - 1 :
        /\ At(dot) = "." /\ R!Integer(tokenStart, dot) /\ R!Integer(dot + 1, pos)
        /\ dot + 1 < pos \/ At(pos) \in Digits
InString == mode = "string" =>
    /\ At(tokenStart) = Quote /\ ~R!Escaped(tokenStart + 1, pos)
    /\ \A p \in tokenStart + 1 .. pos - 1 : R!Escaped(tokenStart + 1, p) => At(p) \in R!Escapes
InLine == mode = "line" =>
    /\ At(tokenStart) = "#" \/ (At(tokenStart) = "/" /\ At(tokenStart + 1) = "/")
    /\ \A p \in tokenStart .. pos - 1 : At(p) # NewLine
InBlock == mode = "block" =>
    /\ R!Opens(tokenStart) /\ tokenStart + 2 <= pos
    /\ depth = R!Deep(tokenStart, pos)
    /\ \A c \in tokenStart + 2 .. pos : R!Deep(tokenStart, c) > 0
    /\ ~R!Opens(pos - 1) /\ ~R!Closes(pos - 1)
Reading == /\ Between /\ AtTheEnd /\ InLong /\ InWord /\ InNumber /\ InFraction
           /\ InString /\ InLine /\ InBlock
Good    == ReadRight(Len(tokens)) /\ Reading

(* What it has made of it when an error was filed: there is a place behind *)
(* right tokens, blanks and comments where reading gets no further.        *)
Stopped == \E n \in 0 .. Len(tokens) :
                 /\ ReadRight(n)
                 /\ \E a \in 0 .. R!End : R!Gap(EndBefore(n + 1), a) /\ R!DeadEnd(a)

Clear == R!ClearComments /\ R!NoNul

LexemesInv ==
    /\ StringInv /\ complaints \in Nat /\ pos <= Len(text)
    /\ (complaints = 0 /\ Clear) => IF filed = <<>> THEN Good ELSE Stopped
-----------------------------------------------------------------------------
LEMMA LettersStay ==
    ASSUME text' = text
    PROVE  /\ \A p : At(p)' = At(p)
           /\ \A a, b : R!Word(a, b)' <=> R!Word(a, b)
           /\ \A a, b : R!Integer(a, b)' <=> R!Integer(a, b)
           /\ \A a : (R!Opens(a)' <=> R!Opens(a)) /\ (R!Closes(a)' <=> R!Closes(a))
           /\ \A a, b : R!Deep(a, b)' = R!Deep(a, b)
           /\ R!Escapes' = R!Escapes
BY DEF At, R!Word, R!Integer, R!All, R!Opens, R!Closes, R!Deep, R!At, R!Nul, R!Escapes

(* Right tokens stay right when more follow them.                          *)
LEMMA RightStays ==
    ASSUME LexTypes, text' = text, tokens' \in Seq(Token), Len(tokens') >= Len(tokens),
           \A i \in 1 .. Len(tokens) : tokens'[i] = tokens[i], NEW n \in 0 .. Len(tokens)
    PROVE  /\ ReadRight(n) => ReadRight(n)'
           /\ EndBefore(n + 1)' = EndBefore(n + 1)
<1>1. Len(tokens) \in Nat  BY DEF LexTypes
<1>2. ASSUME NEW m \in 0 .. Len(tokens) PROVE EndBefore(m + 1)' = EndBefore(m + 1)
  <2>1. m + 1 = 1 \/ (m + 1) - 1 \in 1 .. Len(tokens)  BY <1>1
  <2> QED  BY <2>1 DEF EndBefore
<1>3. ASSUME NEW i \in 1 .. n PROVE tokens'[i] = tokens[i] /\ EndBefore(i)' = EndBefore(i)
  <2>1. i - 1 \in 0 .. Len(tokens) /\ (i - 1) + 1 = i /\ i \in 1 .. Len(tokens)  BY <1>1
  <2>2. EndBefore((i - 1) + 1)' = EndBefore((i - 1) + 1)  BY <1>2, <2>1
  <2> QED  BY <2>1, <2>2
<1>4. ASSUME ReadRight(n) PROVE ReadRight(n)'
  <2> SUFFICES ASSUME NEW i \in 1 .. n
               PROVE  /\ R!Gap(EndBefore(i), tokens[i].start)
                      /\ R!Takes(tokens[i].start, tokens[i].end)
                      /\ tokens[i].kind = R!KindOf(tokens[i].start, tokens[i].end)
    BY <1>3, GrammarStays DEF ReadRight
  <2> QED  BY <1>4 DEF ReadRight
<1> QED  BY <1>2, <1>4

(* A dead end stays one, whatever is read and filed after it.              *)
LEMMA StoppedStays ==
    ASSUME LexTypes, text' = text, tokens' \in Seq(Token), Len(tokens') >= Len(tokens),
           \A i \in 1 .. Len(tokens) : tokens'[i] = tokens[i], Stopped
    PROVE  Stopped'
<1>1. PICK n \in 0 .. Len(tokens) :
          /\ ReadRight(n)
          /\ \E a \in 0 .. R!End : R!Gap(EndBefore(n + 1), a) /\ R!DeadEnd(a)
  BY DEF Stopped
<1>2. n \in 0 .. Len(tokens')  BY DEF LexTypes
<1>3. ReadRight(n)' /\ EndBefore(n + 1)' = EndBefore(n + 1)  BY <1>1, RightStays
<1>4. (\E a \in 0 .. R!End : R!Gap(EndBefore(n + 1), a) /\ R!DeadEnd(a))'
  BY <1>1, <1>3, GrammarStays
<1> QED  BY <1>2, <1>3, <1>4 DEF Stopped

LEMMA EndIsLast ==
    ASSUME LexTypes
    PROVE  EndBefore(Len(tokens) + 1) = LastEnd
<1>1. tokens = <<>> <=> Len(tokens) = 0  BY DEF LexTypes
<1>2. Len(tokens) \in Nat /\ (Len(tokens) + 1) - 1 = Len(tokens)  BY DEF LexTypes
<1> QED  BY <1>1, <1>2 DEF EndBefore, LastEnd

LEMMA StopsHere ==
    ASSUME LexTypes, ReadRight(Len(tokens)), NEW a \in Nat, a <= Len(text),
           R!Gap(LastEnd, a), R!DeadEnd(a)
    PROVE  Stopped
<1>1. Len(tokens) \in 0 .. Len(tokens)  BY DEF LexTypes
<1>2. a \in 0 .. R!End  BY SameCharacters DEF LexTypes
<1> QED  BY <1>1, <1>2, EndIsLast DEF Stopped

(* The two ways to go on between two steps of a long token, and the end of *)
(* a token.                                                                *)
LEMMA ReadsOn ==
    ASSUME LexTypes, Good, UNCHANGED <<text, tokens>>
    PROVE  ReadRight(Len(tokens))' /\ LastEnd' = LastEnd
<1>1. Len(tokens) \in 0 .. Len(tokens)  BY DEF LexTypes
<1>2. \A i \in 1 .. Len(tokens) : tokens'[i] = tokens[i]  OBVIOUS
<1>3. Len(tokens') >= Len(tokens) /\ tokens' \in Seq(Token) /\ Len(tokens)' = Len(tokens)
  BY <1>1 DEF LexTypes
<1>4. ReadRight(Len(tokens))  BY DEF Good
<1>5. \A n \in 0 .. Len(tokens) : ReadRight(n) => ReadRight(n)'
  BY <1>2, <1>3, RightStays
<1> QED  BY <1>1, <1>3, <1>4, <1>5 DEF LastEnd, ReadRight

LEMMA GapIsRead ==
    ASSUME LexTypes, Good, UNCHANGED <<text, tokens>>, mode' = "start", R!Gap(LastEnd, pos')
    PROVE  Good'
<1>1. ReadRight(Len(tokens))' /\ LastEnd' = LastEnd  BY ReadsOn
<1>2. R!Gap(LastEnd, pos)'  BY <1>1, GrammarStays
<1>3. Between'  BY <1>2 DEF Between
<1>4. mode' # "eof" /\ mode' \notin LongModes  BY DEF LongModes
<1>5. Reading'
  BY <1>3, <1>4 DEF Reading, AtTheEnd, InLong, InWord, InNumber, InFraction, InString, InLine,
                    InBlock, LongModes
<1> QED  BY <1>1, <1>5 DEF Good

LEMMA LongGoesOn ==
    ASSUME LexTypes, Good, UNCHANGED <<text, tokens>>, mode' \in LongModes,
           tokenStart' < pos', R!Gap(LastEnd, tokenStart'),
           InWord', InNumber', InFraction', InString', InLine', InBlock'
    PROVE  Good'
<1>1. ReadRight(Len(tokens))' /\ LastEnd' = LastEnd  BY ReadsOn
<1>2. R!Gap(LastEnd, tokenStart)'  BY <1>1, GrammarStays
<1>3. InLong'  BY <1>2 DEF InLong
<1>4. Between' /\ AtTheEnd'  BY DEF Between, AtTheEnd, LongModes
<1> QED  BY <1>1, <1>3, <1>4 DEF Good, Reading

LEMMA TokenIsRight ==
    ASSUME LexTypes, Good, text' = text, NEW kind \in Kinds, NEW start \in Nat, NEW end \in Nat,
           NEW name \in Nat \cup {NoName}, MakeToken(kind, start, end, name),
           R!Gap(LastEnd, start), R!Takes(start, end), R!KindOf(start, end) = kind
    PROVE  Good'
<1> DEFINE mark == isStartOfLine \/ NewLineIn(pos, end)
           new == [kind |-> kind, start |-> start, end |-> end, name |-> name,
                   isStartOfLine |-> mark]
<1>1. tokens' = Append(tokens, new) /\ pos' = end /\ mode' = "start"  BY DEF MakeToken
<1>2. new \in Token /\ new.kind = kind /\ new.start = start /\ new.end = end
  <2>1. mark \in BOOLEAN  BY DEF LexTypes
  <2> HIDE DEF mark
  <2> QED  BY <2>1 DEF Token
<1> HIDE DEF new
<1>3. /\ tokens \in Seq(Token) /\ Len(tokens) \in Nat
      /\ tokens' \in Seq(Token) /\ Len(tokens') = Len(tokens) + 1 /\ tokens' # <<>>
      /\ \A i \in 1 .. Len(tokens) : tokens'[i] = tokens[i]
      /\ tokens'[Len(tokens) + 1] = new
  <2>1. tokens \in Seq(Token)  BY DEF LexTypes
  <2> QED  BY <1>1, <1>2, <2>1, AppendPut
<1>4. \A n \in 0 .. Len(tokens) :
          (ReadRight(n) => ReadRight(n)') /\ EndBefore(n + 1)' = EndBefore(n + 1)
  <2>1. Len(tokens') >= Len(tokens)  BY <1>3
  <2> QED  BY <1>3, <2>1, RightStays
<1>5. Len(tokens) \in 0 .. Len(tokens)  BY <1>3
<1>6. ReadRight(Len(tokens)) /\ EndBefore(Len(tokens) + 1) = LastEnd
  BY EndIsLast DEF Good
<1>7. ASSUME NEW n, n = Len(tokens) PROVE ReadRight(n + 1)'
  <2>1. ReadRight(n)' /\ EndBefore(n + 1)' = LastEnd  BY <1>4, <1>5, <1>6, <1>7
  <2>2. tokens'[n + 1] = new  BY <1>3, <1>7
  <2>3. \A i \in 1 .. n + 1 : i = n + 1 \/ i \in 1 .. n  BY <1>3, <1>7
  <2>4. \A a, b : (R!Gap(a, b)' <=> R!Gap(a, b)) /\ (R!Takes(a, b)' <=> R!Takes(a, b))
                  /\ R!KindOf(a, b)' = R!KindOf(a, b)
    BY GrammarStays
  <2>5. /\ R!Gap(EndBefore(n + 1)', tokens'[n + 1].start)
        /\ R!Takes(tokens'[n + 1].start, tokens'[n + 1].end)
        /\ tokens'[n + 1].kind = R!KindOf(tokens'[n + 1].start, tokens'[n + 1].end)
    BY <1>2, <2>1, <2>2
  <2> QED  BY <2>1, <2>3, <2>4, <2>5 DEF ReadRight
<1>8. ReadRight(Len(tokens))'
  <2>1. \A n : n = Len(tokens) => ReadRight(n + 1)'  BY <1>7
  <2> QED  BY <1>3, <2>1 DEF ReadRight
<1>9. R!Gap(LastEnd, pos)'
  <2>1. LastEnd' = end  BY <1>2, <1>3 DEF LastEnd
  <2>2. R!Gap(end, end)  BY GapStarts
  <2> QED  BY <1>1, <2>1, <2>2, GrammarStays
<1>10. Reading'
  BY <1>1, <1>9 DEF Reading, Between, AtTheEnd, InLong, InWord, InNumber, InFraction, InString,
                    InLine, InBlock, LongModes
<1> QED  BY <1>8, <1>10 DEF Good
-----------------------------------------------------------------------------
LEMMA ThereIsMore ==
    ASSUME text \in Seq(STRING), NEW p \in Nat, At(p) # Nul
    PROVE  p + 1 <= Len(text)
BY DEF At

(* The lexer never reads past the end of the text.                         *)
LEMMA StaysInside ==
    ASSUME LexTypes, pos <= Len(text), Lex
    PROVE  pos' <= Len(text') /\ text' = text
<1>1. text \in Seq(STRING) /\ pos \in Nat /\ pos + 1 \in Nat /\ (pos + 1) + 1 = pos + 2
  BY DEF LexTypes
<1>2. /\ At(pos) # Nul => pos + 1 <= Len(text)
      /\ At(pos + 1) # Nul => pos + 2 <= Len(text)
  BY <1>1, ThereIsMore
<1>3. /\ Nul \notin Blanks /\ Nul \notin DOMAIN Seconds /\ Nul \notin Letters \cup Digits
      /\ Nul \notin DOMAIN Escapes /\ Nul # Quote /\ Nul # "#" /\ Nul # "\\"
      /\ Nul \notin {"*", "/"} /\ Nul # "."
  <2>1. Nul \notin DOMAIN Escapes /\ Nul # Quote /\ Nul # "#" /\ Nul # "\\"
        /\ Nul \notin {"*", "/"} /\ Nul # "."
    BY DEF Escapes, Nul, Quote
  <2> QED  BY <2>1, CharactersDiffer
<1>4. /\ After(pos) <= Len(text)
      /\ At(pos) # Nul => After(pos + 1) <= Len(text)
      /\ At(pos) # Nul => CommentStep(pos) <= Len(text)
  BY <1>1, <1>2 DEF After, CommentStep
<1>5. CASE SkipBlank
  BY <1>2, <1>3, <1>5 DEF SkipBlank, Opening, Read
<1>6. CASE LexOperator
  <2>1. At(pos) \in DOMAIN Seconds /\ ~(At(pos) = "/" /\ At(pos + 1) \in {"/", "*"})
    BY <1>6 DEF LexOperator, StartsComment
  <2>2. pos' = OperatorEnd(pos) /\ text' = text  BY <1>6 DEF LexOperator, MakeToken, Opening
  <2> QED  BY <1>1, <2>1, <2>2, TakesOperator
<1>7. CASE StartComment
  BY <1>2, <1>3, <1>7 DEF StartComment, StartsComment, Opening, Read
<1>8. CASE StartLongToken
  BY <1>2, <1>3, <1>8 DEF StartLongToken, Opening, Read
<1>9. CASE InvalidCharacter
  BY <1>4, <1>9 DEF InvalidCharacter, Opening, MakeToken, Abort
<1>10. CASE EndOfFile  BY <1>10 DEF EndOfFile, Opening
<1>11. CASE LexIdentifier
  BY <1>2, <1>3, <1>11 DEF LexIdentifier, Inside, MakeToken, Read
<1>12. CASE LexNumber
  BY <1>2, <1>3, <1>12 DEF LexNumber, MakeToken, Read
<1>13. CASE LexString
  BY <1>2, <1>3, <1>4, <1>13 DEF LexString, Inside, FinishString, MakeToken, Read, Abort
<1>14. CASE EatLineComment
  BY <1>2, <1>14 DEF EatLineComment, Inside, Read
<1>15. CASE LexBlockComment
  BY <1>4, <1>15 DEF LexBlockComment, Inside, Read
<1> QED
  BY <1>5, <1>6, <1>7, <1>8, <1>9, <1>10, <1>11, <1>12, <1>13, <1>14, <1>15 DEF Lex
-----------------------------------------------------------------------------
(* One lemma for each action that goes on while no error has been filed.   *)
Outcome == IF filed' = <<>> THEN Good' ELSE Stopped

LEMMA BlankIsSkipped ==
    ASSUME LexTypes, Good, filed = <<>>, SkipBlank
    PROVE  Outcome
<1>1. /\ mode = "start" /\ mode' = "start" /\ At(pos) \in Blanks /\ pos' = pos + 1
      /\ UNCHANGED <<text, tokens, filed>>
  BY DEF SkipBlank, Opening, Read
<1>2. pos \in Nat /\ LastEnd \in Nat  BY LastEndIsNumber DEF LexTypes
<1>3. R!Gap(LastEnd, pos)  BY <1>1 DEF Good, Reading, Between
<1>4. R!Skipped(pos, pos + 1)  BY <1>1, SameCharacters DEF R!Skipped, Blanks, NewLine
<1>5. pos + 1 \in Nat /\ pos < pos + 1  BY <1>2
<1>6. R!Gap(LastEnd, pos + 1)  BY <1>2, <1>3, <1>4, <1>5, GapExtends
<1> QED  BY <1>1, <1>6, GapIsRead DEF Outcome

LEMMA OperatorIsTaken ==
    ASSUME LexTypes, Good, filed = <<>>, LexOperator
    PROVE  Outcome
<1>1. /\ mode = "start" /\ UNCHANGED <<text, filed>>
      /\ At(pos) \in DOMAIN Seconds /\ ~(At(pos) = "/" /\ At(pos + 1) \in {"/", "*"})
      /\ MakeToken("operator", pos, OperatorEnd(pos), NoName)
  BY DEF LexOperator, Opening, StartsComment
<1>2. text \in Seq(STRING) /\ pos \in Nat  BY DEF LexTypes
<1>3. R!Gap(LastEnd, pos)  BY <1>1 DEF Good, Reading, Between
<1>4. R!Takes(pos, OperatorEnd(pos)) /\ R!KindOf(pos, OperatorEnd(pos)) = "operator"
  BY <1>1, <1>2, TakesOperator
<1>5. OperatorEnd(pos) \in Nat /\ "operator" \in Kinds /\ NoName \in Nat \cup {NoName}
  BY <1>2, PlacesAreAhead DEF Kinds
<1>6. Good'  BY <1>1, <1>2, <1>3, <1>4, <1>5, TokenIsRight
<1> QED  BY <1>1, <1>6 DEF Outcome

(* A character that begins nothing is a dead end.                          *)
LEMMA InvalidCharacterStops ==
    ASSUME LexTypes, Good, filed = <<>>, pos <= Len(text), InvalidCharacter
    PROVE  Outcome
<1>1. /\ mode = "start" /\ text' = text
      /\ At(pos) \notin Blanks \union DOMAIN Seconds \union Letters \union Digits
                        \union {"#", Quote, Nul}
  BY DEF InvalidCharacter, Opening
<1>2. CASE Abort
  <2>1. mode' = "aborted" /\ UNCHANGED <<tokens, filed>>  BY <1>2 DEF Abort
  <2>2. Good'
    BY <1>1, <2>1, ReadsOn DEF Good, Reading, Between, AtTheEnd, InLong, InWord, InNumber,
       InFraction, InString, InLine, InBlock, LongModes
  <2> QED  BY <2>1, <2>2 DEF Outcome
<1>3. CASE FileAt(After(pos))
  <2>1. filed' # <<>>  BY <1>3 DEF FileAt, File
  <2>2. text \in Seq(STRING) /\ pos \in Nat  BY DEF LexTypes
  <2>3. R!Gap(LastEnd, pos)  BY <1>1 DEF Good, Reading, Between
  <2>4. R!DeadEnd(pos)  BY <1>1, <2>2, NothingStarts
  <2> QED  BY <2>1, <2>2, <2>3, <2>4, StopsHere DEF Good, Outcome
<1> QED  BY <1>2, <1>3 DEF InvalidCharacter

LEMMA TheEndIsReached ==
    ASSUME LexTypes, Good, filed = <<>>, EndOfFile
    PROVE  Outcome
<1>1. /\ mode = "start" /\ mode' = "eof" /\ UNCHANGED <<text, tokens, filed, pos>>
      /\ At(pos) = Nul
  BY DEF EndOfFile, Opening
<1>2. ReadRight(Len(tokens))' /\ LastEnd' = LastEnd  BY <1>1, ReadsOn
<1>3. R!Gap(LastEnd, pos)  BY <1>1 DEF Good, Reading, Between
<1>4. Between' /\ AtTheEnd'
  BY <1>1, <1>2, <1>3, GrammarStays, LettersStay DEF Between, AtTheEnd
<1>5. Reading'
  BY <1>1, <1>4 DEF Reading, InLong, InWord, InNumber, InFraction, InString, InLine,
                    InBlock, LongModes
<1> QED  BY <1>1, <1>2, <1>5 DEF Good, Outcome

LEMMA TokenBegins ==
    ASSUME LexTypes, Good, filed = <<>>, StartLongToken
    PROVE  Outcome
<1>1. /\ mode = "start" /\ UNCHANGED <<text, tokens, filed>>
      /\ tokenStart' = pos /\ pos' = pos + 1
      /\ \/ At(pos) = Quote /\ mode' = "string"
         \/ At(pos) \in Letters /\ mode' = "identifier"
         \/ At(pos) \in Digits /\ mode' = "number"
  BY DEF StartLongToken, Opening, Read
<1>2. pos \in Nat /\ pos + 1 \in Nat  BY DEF LexTypes
<1>3. R!Gap(LastEnd, tokenStart')  BY <1>1 DEF Good, Reading, Between
<1>4. \A p : p \in pos .. (pos + 1) - 1 <=> p = pos  BY <1>2
<1>5. InWord'
  <2>1. At(pos) \in Letters => R!Word(pos, pos + 1)
    BY <1>4, SameCharacters DEF R!Word, R!All
  <2>2. mode' = "identifier" => At(pos) \in Letters  BY <1>1
  <2> QED  BY <1>1, <2>1, <2>2, LettersStay DEF InWord
<1>6. InNumber'
  <2>1. At(pos) \in Digits => R!Integer(pos, pos + 1)
    BY <1>4, SameCharacters DEF R!Integer, R!All
  <2>2. mode' = "number" => At(pos) \in Digits  BY <1>1
  <2> QED  BY <1>1, <2>1, <2>2, LettersStay DEF InNumber
<1>7. InString'
  <2>1. ~R!Escaped(pos + 1, pos + 1)  BY <1>2, EscapesAlternate
  <2>2. \A p : p \notin pos + 1 .. (pos + 1) - 1  BY <1>2
  <2>3. mode' = "string" => At(pos) = Quote  BY <1>1
  <2>4. \A a, p : R!Escaped(a, p)' <=> R!Escaped(a, p)  BY <1>1, TextStays
  <2> QED  BY <1>1, <2>1, <2>2, <2>3, <2>4, LettersStay DEF InString
<1>8. /\ mode' \in LongModes /\ tokenStart' < pos' /\ InFraction' /\ InLine' /\ InBlock'
  BY <1>1, <1>2 DEF LongModes, InFraction, InLine, InBlock
<1>9. Good'  BY <1>1, <1>3, <1>5, <1>6, <1>7, <1>8, LongGoesOn
<1> QED  BY <1>1, <1>9 DEF Outcome

(* A word goes on to the first character that is no letter and no digit.   *)
LEMMA WordIsRead ==
    ASSUME LexTypes, Good, filed = <<>>, pos <= Len(text), LexIdentifier
    PROVE  Outcome
<1>1. mode = "identifier" /\ UNCHANGED <<text, tokenStart, filed>>
  BY DEF LexIdentifier, Inside, Quiet
<1>2. /\ text \in Seq(STRING) /\ pos \in Nat /\ tokenStart \in Nat  BY DEF LexTypes
<1>3. tokenStart < pos /\ R!Gap(LastEnd, tokenStart) /\ R!Word(tokenStart, pos)
  BY <1>1 DEF Good, Reading, InLong, InWord, LongModes
<1>4. CASE At(pos) \in Letters \cup Digits /\ pos' = pos + 1 /\ UNCHANGED <<mode, tokens>>
  <2>1. R!Word(tokenStart, pos + 1)
    <3>1. \A p \in tokenStart .. (pos + 1) - 1 : p = pos \/ p \in tokenStart .. pos - 1
      BY <1>2
    <3> QED  BY <1>3, <1>4, <3>1, SameCharacters DEF R!Word, R!All
  <2>2. InWord'  BY <1>1, <1>4, <2>1, LettersStay DEF InWord
  <2>3. /\ mode' \in LongModes /\ tokenStart' < pos' /\ R!Gap(LastEnd, tokenStart')
    BY <1>1, <1>2, <1>3, <1>4 DEF LongModes
  <2>4. InNumber' /\ InFraction' /\ InString' /\ InLine' /\ InBlock'
    BY <1>1, <1>4 DEF InNumber, InFraction, InString, InLine, InBlock
  <2>5. Good'  BY <1>1, <1>4, <2>2, <2>3, <2>4, LongGoesOn
  <2> QED  BY <1>1, <2>5 DEF Outcome
<1> DEFINE kind == IF Part(tokenStart, pos) \in Keywords THEN "keyword" ELSE "identifier"
<1>5. CASE At(pos) \notin Letters \cup Digits /\ MakeToken(kind, tokenStart, pos, NoName)
  <2>1. R!Takes(tokenStart, pos) /\ R!KindOf(tokenStart, pos) = kind
    BY <1>2, <1>3, <1>5, TakesWord
  <2>2. kind \in Kinds /\ NoName \in Nat \cup {NoName}  BY DEF Kinds
  <2> HIDE DEF kind
  <2>3. Good'  BY <1>1, <1>2, <1>3, <1>5, <2>1, <2>2, TokenIsRight
  <2> QED  BY <1>1, <2>3 DEF Outcome
<1> QED  BY <1>4, <1>5 DEF LexIdentifier, Read
-----------------------------------------------------------------------------
LEMMA IntegerGrows ==
    ASSUME NEW a \in Nat, NEW p \in Nat, R!Integer(a, p), At(p) \in Digits
    PROVE  R!Integer(a, p + 1)
<1>1. \A q \in a .. (p + 1) - 1 : q = p \/ q \in a .. p - 1  OBVIOUS
<1> QED  BY <1>1, SameCharacters DEF R!Integer, R!All

LEMMA DigitIsRead ==
    ASSUME LexTypes, Good, filed = <<>>, mode \in {"number", "fraction"}, At(pos) \in Digits,
           UNCHANGED <<text, tokenStart, filed, tokens, mode>>, pos' = pos + 1
    PROVE  Outcome
<1>1. pos \in Nat /\ tokenStart \in Nat  BY DEF LexTypes
<1>2. tokenStart < pos /\ R!Gap(LastEnd, tokenStart)  BY DEF Good, Reading, InLong, LongModes
<1>3. InNumber'
  <2>1. mode = "number" => R!Integer(tokenStart, pos + 1)
    BY <1>1, IntegerGrows DEF Good, Reading, InNumber
  <2> QED  BY <2>1, LettersStay DEF InNumber
<1>4. InFraction'
  <2> SUFFICES ASSUME mode = "fraction"
               PROVE  \E dot \in tokenStart + 1 .. (pos + 1) - 1 :
                         /\ At(dot) = "." /\ R!Integer(tokenStart, dot)
                         /\ R!Integer(dot + 1, pos + 1) /\ dot + 1 < pos + 1
    BY LettersStay DEF InFraction
  <2>1. PICK dot \in tokenStart + 1 .. pos - 1 :
            At(dot) = "." /\ R!Integer(tokenStart, dot) /\ R!Integer(dot + 1, pos)
    BY DEF Good, Reading, InFraction
  <2>2. dot + 1 \in Nat /\ dot \in tokenStart + 1 .. (pos + 1) - 1 /\ dot + 1 < pos + 1
    BY <1>1
  <2>3. R!Integer(dot + 1, pos + 1)  BY <1>1, <2>1, <2>2, IntegerGrows
  <2> QED  BY <2>1, <2>2, <2>3
<1>5. /\ mode' \in LongModes /\ tokenStart' < pos' /\ R!Gap(LastEnd, tokenStart')
      /\ InWord' /\ InString' /\ InLine' /\ InBlock'
  BY <1>1, <1>2 DEF LongModes, InWord, InString, InLine, InBlock
<1>6. Good'  BY <1>3, <1>4, <1>5, LongGoesOn
<1> QED  BY <1>6 DEF Outcome

LEMMA DotIsRead ==
    ASSUME LexTypes, Good, filed = <<>>, mode = "number", At(pos) = ".", At(pos + 1) \in Digits,
           UNCHANGED <<text, tokenStart, filed, tokens>>, mode' = "fraction", pos' = pos + 1
    PROVE  Outcome
<1>1. pos \in Nat /\ tokenStart \in Nat  BY DEF LexTypes
<1>2. tokenStart < pos /\ R!Gap(LastEnd, tokenStart)  BY DEF Good, Reading, InLong, LongModes
<1>3. InFraction'
  <2>1. pos \in tokenStart + 1 .. (pos + 1) - 1  BY <1>1, <1>2
  <2>2. R!Integer(tokenStart, pos)  BY DEF Good, Reading, InNumber
  <2>3. R!Integer(pos + 1, pos + 1)
    <3>1. \A p : p \notin pos + 1 .. (pos + 1) - 1  BY <1>1
    <3> QED  BY <3>1 DEF R!Integer, R!All
  <2> QED  BY <2>1, <2>2, <2>3, LettersStay DEF InFraction
<1>4. /\ mode' \in LongModes /\ tokenStart' < pos' /\ R!Gap(LastEnd, tokenStart')
      /\ InWord' /\ InNumber' /\ InString' /\ InLine' /\ InBlock'
  BY <1>1, <1>2 DEF LongModes, InWord, InNumber, InString, InLine, InBlock
<1>5. Good'  BY <1>3, <1>4, LongGoesOn
<1> QED  BY <1>5 DEF Outcome

(* So does a number; a point only belongs to it when a digit follows.      *)
LEMMA NumberIsRead ==
    ASSUME LexTypes, Good, filed = <<>>, pos <= Len(text), LexNumber
    PROVE  Outcome
<1>1. mode \in {"number", "fraction"} /\ UNCHANGED <<text, tokenStart, filed>>
  BY DEF LexNumber, Quiet
<1>2. /\ text \in Seq(STRING) /\ pos \in Nat /\ tokenStart \in Nat  BY DEF LexTypes
<1>3. CASE At(pos) \in Digits /\ pos' = pos + 1 /\ UNCHANGED <<mode, tokens>>
  BY <1>1, <1>3, DigitIsRead
<1>4. CASE /\ mode = "number" /\ At(pos) = "." /\ At(pos + 1) \in Digits
           /\ pos' = pos + 1 /\ mode' = "fraction" /\ UNCHANGED tokens
  BY <1>1, <1>4, DotIsRead
<1> DEFINE kind == IF mode = "number" THEN "integer" ELSE "float"
<1>5. CASE /\ At(pos) \notin Digits /\ ~(mode = "number" /\ At(pos) = "." /\ At(pos + 1) \in Digits)
           /\ MakeToken(kind, tokenStart, pos, NoName)
  <2>1. tokenStart < pos /\ R!Gap(LastEnd, tokenStart)
    BY <1>1 DEF Good, Reading, InLong, LongModes
  <2>2. R!Takes(tokenStart, pos) /\ R!KindOf(tokenStart, pos) = kind
    <3>1. CASE mode = "number"
      <4>1. R!Integer(tokenStart, pos)  BY <3>1 DEF Good, Reading, InNumber
      <4> QED  BY <1>2, <1>5, <2>1, <3>1, <4>1, TakesInteger
    <3>2. CASE mode = "fraction"
      <4>1. PICK dot \in tokenStart + 1 .. pos - 1 :
                /\ At(dot) = "." /\ R!Integer(tokenStart, dot) /\ R!Integer(dot + 1, pos)
                /\ dot + 1 < pos \/ At(pos) \in Digits
        BY <3>2 DEF Good, Reading, InFraction
      <4> QED  BY <1>2, <1>5, <3>2, <4>1, TakesFraction
    <3> QED  BY <1>1, <3>1, <3>2
  <2>3. kind \in Kinds /\ NoName \in Nat \cup {NoName}  BY DEF Kinds
  <2> HIDE DEF kind
  <2>4. Good'  BY <1>1, <1>2, <1>5, <2>1, <2>2, <2>3, TokenIsRight
  <2> QED  BY <1>1, <2>4 DEF Outcome
<1> QED  BY <1>3, <1>4, <1>5 DEF LexNumber, Read
-----------------------------------------------------------------------------
(* One character of a string, or an escape.                                *)
LEMMA StringGoesOn ==
    ASSUME LexTypes, Good, filed = <<>>, mode = "string", UNCHANGED <<text, tokenStart>>,
           UNCHANGED <<mode, tokens, filed>>, NEW q \in Nat, pos' = q, q >= pos,
           ~R!Escaped(tokenStart + 1, q),
           \A p \in pos .. q - 1 : R!Escaped(tokenStart + 1, p) => At(p) \in R!Escapes
    PROVE  Outcome
<1>1. pos \in Nat /\ tokenStart \in Nat  BY DEF LexTypes
<1>2. tokenStart < pos /\ R!Gap(LastEnd, tokenStart)  BY DEF Good, Reading, InLong, LongModes
<1>3. InString'
  <2>1. /\ At(tokenStart) = Quote
        /\ \A p \in tokenStart + 1 .. pos - 1 : R!Escaped(tokenStart + 1, p) => At(p) \in R!Escapes
    BY DEF Good, Reading, InString
  <2>2. \A p \in tokenStart + 1 .. q - 1 : p \in tokenStart + 1 .. pos - 1 \/ p \in pos .. q - 1
    BY <1>1
  <2>3. \A p \in tokenStart + 1 .. q - 1 : R!Escaped(tokenStart + 1, p) => At(p) \in R!Escapes
    BY <2>1, <2>2
  <2>4. \A a, p : R!Escaped(a, p)' <=> R!Escaped(a, p)  BY TextStays
  <2> QED  BY <2>1, <2>3, <2>4, LettersStay DEF InString
<1>4. /\ mode' \in LongModes /\ tokenStart' < pos' /\ R!Gap(LastEnd, tokenStart')
      /\ InWord' /\ InNumber' /\ InFraction' /\ InLine' /\ InBlock'
  BY <1>1, <1>2 DEF LongModes, InWord, InNumber, InFraction, InLine, InBlock
<1>5. Good'  BY <1>3, <1>4, LongGoesOn
<1> QED  BY <1>5 DEF Outcome

(* A string ends with the first quote behind no backslash of its own.      *)
LEMMA StringIsTaken ==
    ASSUME LexTypes, StringRead, Good, R!NoNul, filed = <<>>, pos <= Len(text), LexString
    PROVE  Outcome
<1>1. mode = "string" /\ UNCHANGED <<text, tokenStart>>  BY DEF LexString, Inside
<1>2. /\ text \in Seq(STRING) /\ pos \in Nat /\ tokenStart \in Nat
      /\ pos + 1 \in Nat /\ (pos + 1) + 1 = pos + 2
  BY DEF LexTypes
<1>3. tokenStart < pos /\ R!Gap(LastEnd, tokenStart)
  BY <1>1 DEF Good, Reading, InLong, LongModes
<1> DEFINE a == tokenStart + 1
<1>4. /\ At(tokenStart) = Quote /\ ~R!Escaped(a, pos)
      /\ \A p \in a .. pos - 1 : R!Escaped(a, p) => At(p) \in R!Escapes
      /\ \A p \in a .. pos - 1 : At(p) = Quote => R!Escaped(a, p)
  BY <1>1 DEF Good, Reading, InString, StringRead
<1>5. a \in Nat /\ a <= pos  BY <1>2, <1>3
<1>6. /\ R!Escaped(a, pos + 1) <=> At(pos) = "\\"
      /\ R!Escaped(a, pos + 2) <=> At(pos + 1) = "\\" /\ ~R!Escaped(a, pos + 1)
  <2>1. a <= pos + 1  BY <1>2, <1>5
  <2> QED  BY <1>2, <1>4, <1>5, <2>1, EscapesAlternate
<1>7. DOMAIN Escapes = R!Escapes  BY DEF Escapes, R!Escapes, Quote
<1>8. CASE At(pos) = Quote /\ FinishString(pos + 1) /\ UNCHANGED filed
  <2>1. pos < Len(text)
    <3>1. At(pos) # Nul  BY <1>8 DEF Quote, Nul
    <3> QED  BY <3>1 DEF At
  <2>2. R!Takes(tokenStart, pos + 1) /\ R!KindOf(tokenStart, pos + 1) = "string"
    BY <1>2, <1>3, <1>4, <1>8, <2>1, TakesString
  <2>3. MakeToken("string", tokenStart, pos + 1, NameFor(literalBuffer))
    BY <1>8 DEF FinishString
  <2>4. "string" \in Kinds /\ NameFor(literalBuffer) \in Nat \cup {NoName}
    <3>1. literalBuffer \in Seq(Character)  BY DEF LexTypes
    <3> QED  BY <3>1, NamesAreOffsets DEF Kinds
  <2>5. Good'  BY <1>1, <1>2, <1>3, <2>2, <2>3, <2>4, TokenIsRight
  <2> QED  BY <1>8, <2>5 DEF Outcome
<1>9. CASE At(pos) = Nul /\ FileAt(pos)
  <2>1. filed' # <<>>  BY <1>9 DEF FileAt, File
  <2>2. pos = Len(text)
    <3>1. pos < Len(text) => pos \in 0 .. R!End - 1  BY <1>2, SameCharacters
    <3> QED  BY <1>2, <1>9, <3>1, SameCharacters DEF R!NoNul, R!Nul, Nul
  <2>3. R!DeadEnd(tokenStart)  BY <1>2, <1>3, <1>4, <1>5, <2>2, StringHasNoEnd
  <2>4. tokenStart <= Len(text)  BY <1>2, <1>3
  <2> QED  BY <1>2, <1>3, <2>1, <2>3, <2>4, StopsHere DEF Good, Outcome
<1>10. CASE /\ At(pos) = "\\" /\ At(pos + 1) \in DOMAIN Escapes /\ pos' = pos + 2
            /\ UNCHANGED <<mode, tokens, filed>>
  <2>1. ~R!Escaped(a, pos + 2)  BY <1>6, <1>10
  <2>2. \A p \in pos .. (pos + 2) - 1 : p = pos \/ p = pos + 1  BY <1>2
  <2>3. \A p \in pos .. (pos + 2) - 1 : R!Escaped(a, p) => At(p) \in R!Escapes
    BY <1>4, <1>7, <1>10, <2>2
  <2>4. pos + 2 \in Nat /\ pos + 2 >= pos  BY <1>2
  <2> QED  BY <1>1, <1>10, <2>1, <2>3, <2>4, StringGoesOn
<1>11. CASE At(pos) = "\\" /\ At(pos + 1) \notin DOMAIN Escapes /\ FileAt(After(pos + 1))
  <2>1. filed' # <<>>  BY <1>11 DEF FileAt, File
  <2>2. At(pos + 1) \notin R!Escapes  BY <1>7, <1>11
  <2>3. R!DeadEnd(tokenStart)  BY <1>2, <1>4, <1>5, <1>11, <2>2, StringHasNoEnd
  <2>4. tokenStart <= Len(text)  BY <1>2, <1>3
  <2> QED  BY <1>2, <1>3, <2>1, <2>3, <2>4, StopsHere DEF Good, Outcome
<1>12. CASE Abort
  <2>1. mode' = "aborted" /\ UNCHANGED <<tokens, filed>>  BY <1>12 DEF Abort
  <2>2. Good'
    BY <1>1, <2>1, ReadsOn DEF Good, Reading, Between, AtTheEnd, InLong, InWord, InNumber,
       InFraction, InString, InLine, InBlock, LongModes
  <2> QED  BY <2>1, <2>2 DEF Outcome
<1>13. CASE /\ At(pos) \notin {Quote, Nul, "\\", Bad} /\ pos' = pos + 1
            /\ UNCHANGED <<mode, tokens, filed>>
  <2>1. ~R!Escaped(a, pos + 1)  BY <1>6, <1>13
  <2>2. \A p \in pos .. (pos + 1) - 1 : p = pos  BY <1>2
  <2>3. \A p \in pos .. (pos + 1) - 1 : R!Escaped(a, p) => At(p) \in R!Escapes
    BY <1>4, <2>2
  <2>4. pos + 1 >= pos  BY <1>2
  <2> QED  BY <1>1, <1>2, <1>13, <2>1, <2>3, <2>4, StringGoesOn
<1> HIDE DEF a
<1> QED  BY <1>8, <1>9, <1>10, <1>11, <1>12, <1>13 DEF LexString, Read
-----------------------------------------------------------------------------
(* The delimiters of comments, character by character.                     *)
LEMMA Delimiters ==
    ASSUME NEW p
    PROVE  /\ R!Opens(p) <=> At(p) = "/" /\ At(p + 1) = "*"
           /\ R!Closes(p) <=> At(p) = "*" /\ At(p + 1) = "/"
BY SameCharacters DEF R!Opens, R!Closes

(* No delimiter begins with the character that a star or a slash takes     *)
(* along.                                                                  *)
LEMMA ClearOfOthers ==
    ASSUME text \in Seq(STRING), R!ClearComments, NEW p \in Nat, At(p) \in {"*", "/"}
    PROVE  ~R!Opens(p + 1) /\ ~R!Closes(p + 1)
<1> SUFFICES ASSUME R!Opens(p + 1) \/ R!Closes(p + 1) PROVE FALSE  OBVIOUS
<1>1. (p + 1) + 1 = p + 2 /\ p + 1 \in Nat /\ p + 2 \in Nat  OBVIOUS
<1>2. \/ At(p + 1) = "/" /\ At(p + 2) = "*"
      \/ At(p + 1) = "*" /\ At(p + 2) = "/"
  BY <1>1, Delimiters
<1>3. p + 2 < Len(text)  BY <1>1, <1>2 DEF At, Nul
<1>4. p \in 0 .. R!End - 3 /\ p + 3 <= Len(text)  BY <1>3, SameCharacters
<1> DEFINE s == R!Piece(p, p + 3)
<1>5. s \notin {<<"/", "*", "/">>, <<"*", "/", "*">>, <<"*", "*", "/">>, <<"/", "/", "*">>}
  BY <1>4 DEF R!ClearComments
<1>6. /\ s \in Seq(STRING) /\ Len(s) = 3
      /\ s[1] = At(p) /\ s[2] = At(p + 1) /\ s[3] = At(p + 2)
  <2>1. p + 3 \in Nat /\ p <= p + 3 /\ (p + 3) - p = 3  OBVIOUS
  <2>2. /\ s \in Seq(STRING) /\ Len(s) = 3 /\ \A i \in 1 .. 3 : s[i] = At(p + i - 1)
    BY <1>4, <2>1, PieceIsThere
  <2> HIDE DEF s
  <2>3. 1 \in 1 .. 3 /\ 2 \in 1 .. 3 /\ 3 \in 1 .. 3 /\ p + 1 - 1 = p /\ p + 2 - 1 = p + 1
        /\ p + 3 - 1 = p + 2
    OBVIOUS
  <2> QED  BY <2>2, <2>3
<1> HIDE DEF s
<1>7. s = <<At(p), At(p + 1), At(p + 2)>>  BY <1>6
<1> QED  BY <1>2, <1>5, <1>7

(* A comment begins.                                                       *)
LEMMA CommentBegins ==
    ASSUME LexTypes, Good, R!ClearComments, filed = <<>>, StartComment
    PROVE  Outcome
<1>1. /\ mode = "start" /\ UNCHANGED <<text, tokens, filed>> /\ tokenStart' = pos
      /\ At(pos) = "#" \/ (At(pos) = "/" /\ At(pos + 1) \in {"/", "*"})
      /\ pos' = IF At(pos) = "#" THEN pos + 1 ELSE pos + 2
      /\ IF At(pos) = "/" /\ At(pos + 1) = "*" THEN mode' = "block" /\ depth' = 1
                                               ELSE mode' = "line"
  BY DEF StartComment, StartsComment, Opening, Read
<1>2. text \in Seq(STRING) /\ pos \in Nat  BY DEF LexTypes
<1>3. R!Gap(LastEnd, tokenStart')  BY <1>1 DEF Good, Reading, Between
<1>4. CASE At(pos) = "/" /\ At(pos + 1) = "*"
  <2>1. R!Opens(pos)  BY <1>4, Delimiters
  <2>2. pos' = pos + 2 /\ mode' = "block" /\ depth' = 1  BY <1>1, <1>4
  <2>3. InBlock'
    <3>1. R!Deep(pos, pos + 2) = 1  BY <1>2, <2>1, DeepAtFirst
    <3>2. \A c \in pos + 2 .. pos + 2 : c = pos + 2  BY <1>2
    <3>3. (pos + 2) - 1 = pos + 1 /\ pos + 2 <= pos + 2  BY <1>2
    <3>4. ~R!Opens(pos + 1) /\ ~R!Closes(pos + 1)  BY <1>2, <1>4, ClearOfOthers
    <3>5. \A c \in pos + 2 .. pos + 2 : R!Deep(pos, c) > 0  BY <3>1, <3>2
    <3> QED  BY <1>1, <2>1, <2>2, <3>1, <3>3, <3>4, <3>5, LettersStay DEF InBlock
  <2>4. /\ mode' \in LongModes /\ tokenStart' < pos'
        /\ InWord' /\ InNumber' /\ InFraction' /\ InString' /\ InLine'
    BY <1>1, <1>2, <2>2 DEF LongModes, InWord, InNumber, InFraction, InString, InLine
  <2>5. Good'  BY <1>1, <1>3, <2>3, <2>4, LongGoesOn
  <2> QED  BY <1>1, <2>5 DEF Outcome
<1>5. CASE ~(At(pos) = "/" /\ At(pos + 1) = "*")
  <2>1. mode' = "line"  BY <1>1, <1>5
  <2>2. InLine'
    <3>1. \A p \in pos .. (pos + 1) - 1 : p = pos  BY <1>2
    <3>2. \A p \in pos .. (pos + 2) - 1 : p = pos \/ p = pos + 1  BY <1>2
    <3>3. \/ At(pos) = "#" /\ pos' = pos + 1
          \/ At(pos) = "/" /\ At(pos + 1) = "/" /\ pos' = pos + 2
      BY <1>1, <1>5
    <3>4. CASE At(pos) = "#" /\ pos' = pos + 1
      <4>1. \A p \in pos .. (pos + 1) - 1 : At(p) # NewLine  BY <3>1, <3>4 DEF NewLine
      <4> QED  BY <1>1, <2>1, <3>4, <4>1, LettersStay DEF InLine
    <3>5. CASE At(pos) = "/" /\ At(pos + 1) = "/" /\ pos' = pos + 2
      <4>1. \A p \in pos .. (pos + 2) - 1 : At(p) # NewLine  BY <3>2, <3>5 DEF NewLine
      <4> QED  BY <1>1, <2>1, <3>5, <4>1, LettersStay DEF InLine
    <3> QED  BY <3>3, <3>4, <3>5
  <2>3. /\ mode' \in LongModes /\ tokenStart' < pos'
        /\ InWord' /\ InNumber' /\ InFraction' /\ InString' /\ InBlock'
    BY <1>1, <1>2, <2>1 DEF LongModes, InWord, InNumber, InFraction, InString, InBlock
  <2>4. Good'  BY <1>1, <1>3, <2>2, <2>3, LongGoesOn
  <2> QED  BY <1>1, <2>4 DEF Outcome
<1> QED  BY <1>4, <1>5

(* A line comment is one more piece of the gap when its line ends.         *)
LEMMA LineIsSkipped ==
    ASSUME LexTypes, Good, filed = <<>>, EatLineComment
    PROVE  Outcome
<1>1. mode = "line" /\ UNCHANGED <<text, tokens, tokenStart, filed>>
  BY DEF EatLineComment, Inside, Quiet
<1>2. pos \in Nat /\ tokenStart \in Nat /\ LastEnd \in Nat  BY LastEndIsNumber DEF LexTypes
<1>3. /\ tokenStart < pos /\ R!Gap(LastEnd, tokenStart)
      /\ At(tokenStart) = "#" \/ (At(tokenStart) = "/" /\ At(tokenStart + 1) = "/")
      /\ \A p \in tokenStart .. pos - 1 : At(p) # NewLine
  BY <1>1 DEF Good, Reading, InLong, InLine, LongModes
<1>4. CASE At(pos) \in {NewLine, Nul} /\ mode' = "start" /\ pos' = pos
  <2>1. R!Skipped(tokenStart, pos)
    BY <1>3, <1>4, SameCharacters DEF R!Skipped, R!LineComment, R!Nul, Nul, NewLine
  <2>2. R!Gap(LastEnd, pos)  BY <1>2, <1>3, <2>1, GapExtends
  <2> QED  BY <1>1, <1>4, <2>2, GapIsRead DEF Outcome
<1>5. CASE At(pos) \notin {NewLine, Nul, Bad} /\ pos' = pos + 1 /\ mode' = mode
  <2>1. \A p \in tokenStart .. (pos + 1) - 1 : p = pos \/ p \in tokenStart .. pos - 1
    BY <1>2
  <2>2. \A p \in tokenStart .. (pos + 1) - 1 : At(p) # NewLine  BY <1>3, <1>5, <2>1
  <2>3. InLine'  BY <1>1, <1>3, <1>5, <2>2, LettersStay DEF InLine
  <2>4. /\ mode' \in LongModes /\ tokenStart' < pos' /\ R!Gap(LastEnd, tokenStart')
        /\ InWord' /\ InNumber' /\ InFraction' /\ InString' /\ InBlock'
    BY <1>1, <1>2, <1>3, <1>5 DEF LongModes, InWord, InNumber, InFraction, InString, InBlock
  <2>5. Good'  BY <1>1, <2>3, <2>4, LongGoesOn
  <2> QED  BY <1>1, <2>5 DEF Outcome
<1> QED  BY <1>4, <1>5 DEF EatLineComment, Read
-----------------------------------------------------------------------------
(* A comment that is open at the end of the text is a dead end.            *)
LEMMA CommentHasNoEnd ==
    ASSUME NEW a \in Nat, NEW p \in Nat, R!Opens(a), p = Len(text),
           \A c \in a + 2 .. p : R!Deep(a, c) > 0
    PROVE  R!DeadEnd(a)
<1>1. At(a) = "/" /\ At(a + 1) = "*"  BY Delimiters
<1>2. ASSUME NEW b \in (a + 1) .. R!End PROVE ~R!Skipped(a, b)
  <2>1. ~R!LineComment(a, b) /\ At(a) \notin {" ", "\t", "\n"}
    BY <1>1, SameCharacters DEF R!LineComment
  <2>2. ~R!BlockComment(a, b)
    <3>1. b > a + 3 => b \in a + 2 .. p  BY SameCharacters
    <3>2. b \in a + 2 .. p => R!Deep(a, b) # 0  OBVIOUS
    <3> QED  BY <3>1, <3>2 DEF R!BlockComment
  <2> QED  BY <2>1, <2>2, SameCharacters DEF R!Skipped
<1> QED  BY <1>2 DEF R!DeadEnd, R!Passable

(* What a turn of the loop reads: one delimiter, or characters that are in *)
(* none.                                                                   *)
LEMMA TurnIsCounted ==
    ASSUME text \in Seq(STRING), R!ClearComments, NEW a \in Nat, NEW p \in Nat, a + 2 <= p,
           depth = R!Deep(a, p), ~R!Opens(p - 1), ~R!Closes(p - 1)
    PROVE  LET q == CommentStep(p)
               d == DepthAfter(At(p), At(p + 1))
           IN  /\ q \in Nat /\ p < q /\ d = R!Deep(a, q) /\ ~R!Opens(q - 1) /\ ~R!Closes(q - 1)
               /\ \A c \in p + 1 .. q : R!Deep(a, c) = depth \/ c = q
               /\ d \in {depth - 1, depth, depth + 1} /\ depth \in Int
               /\ d = depth - 1 => R!Closes(p) /\ q = p + 2
<1> DEFINE q == CommentStep(p)
           d == DepthAfter(At(p), At(p + 1))
<1>1. p - 1 \in Nat /\ p + 1 \in Nat /\ (p + 1) - 1 = p /\ (p + 1) + 1 = p + 2 /\ p + 2 \in Nat
      /\ a + 1 <= p /\ a + 1 <= p + 1 /\ (p + 2) - 1 = p + 1
  OBVIOUS
<1>2. depth \in Int /\ R!Deep(a, p + 1) = depth  BY <1>1, DeepIsCounted
<1>3. /\ R!Opens(p) => R!Deep(a, p + 2) = depth + 1
      /\ R!Closes(p) => R!Deep(a, p + 2) = depth - 1
      /\ ~R!Opens(p) /\ ~R!Closes(p) => R!Deep(a, p + 2) = depth
  <2>1. /\ R!Opens((p + 1) - 1) => R!Deep(a, (p + 1) + 1) = R!Deep(a, p + 1) + 1
        /\ R!Closes((p + 1) - 1) => R!Deep(a, (p + 1) + 1) = R!Deep(a, p + 1) - 1
        /\ ~R!Opens((p + 1) - 1) /\ ~R!Closes((p + 1) - 1) =>
              R!Deep(a, (p + 1) + 1) = R!Deep(a, p + 1)
    BY <1>1, DeepIsCounted
  <2> QED  BY <1>1, <1>2, <2>1
<1>4. /\ R!Opens(p) => d = depth + 1
      /\ R!Closes(p) => d = depth - 1
      /\ ~R!Opens(p) /\ ~R!Closes(p) => d = depth
  BY Delimiters DEF DepthAfter
<1>5. \A c : c \in p + 1 .. p + 1 \/ c \in p + 1 .. p + 2 => c = p + 1 \/ c = p + 2
  OBVIOUS
<1>6. CASE q = p + 2 /\ At(p) \in {"*", "/"}
  <2>1. ~R!Opens(p + 1) /\ ~R!Closes(p + 1)  BY <1>6, ClearOfOthers
  <2> HIDE DEF q, d
  <2>2. d = R!Deep(a, q) /\ d \in {depth - 1, depth, depth + 1}
    BY <1>2, <1>3, <1>4, <1>6
  <2>3. d = depth - 1 => R!Closes(p)  BY <1>2, <1>4
  <2> QED  BY <1>1, <1>2, <1>5, <1>6, <2>1, <2>2, <2>3 DEF q, d
<1>7. CASE q = p + 1 /\ (At(p) \notin {"*", "/"} \/ At(p + 1) \in {Nul, Bad})
  <2>1. ~R!Opens(p) /\ ~R!Closes(p)  BY <1>7, Delimiters DEF Nul, Bad
  <2> HIDE DEF q, d
  <2>2. d = R!Deep(a, q) /\ d = depth /\ d # depth - 1  BY <1>2, <1>4, <1>7, <2>1
  <2> QED  BY <1>1, <1>2, <1>5, <1>7, <2>1, <2>2 DEF q, d
<1> QED  BY <1>1, <1>6, <1>7 DEF q, CommentStep, After
-----------------------------------------------------------------------------
(* A comment ends where as many are closed as were opened, and not before. *)
LEMMA BlockIsSkipped ==
    ASSUME LexTypes, Good, Clear, filed = <<>>, pos <= Len(text), LexBlockComment
    PROVE  Outcome
<1>1. mode = "block" /\ UNCHANGED <<text, tokens, tokenStart>>
  BY DEF LexBlockComment, Inside
<1>2. /\ text \in Seq(STRING) /\ pos \in Nat /\ tokenStart \in Nat /\ LastEnd \in Nat
  BY LastEndIsNumber DEF LexTypes
<1>3. /\ tokenStart < pos /\ R!Gap(LastEnd, tokenStart)
      /\ R!Opens(tokenStart) /\ tokenStart + 2 <= pos
      /\ depth = R!Deep(tokenStart, pos)
      /\ \A c \in tokenStart + 2 .. pos : R!Deep(tokenStart, c) > 0
      /\ ~R!Opens(pos - 1) /\ ~R!Closes(pos - 1)
  BY <1>1 DEF Good, Reading, InLong, InBlock, LongModes
<1>4. CASE At(pos) = Nul /\ FileAt(pos)
  <2>1. filed' # <<>>  BY <1>4 DEF FileAt, File
  <2>2. pos = Len(text)
    <3>1. pos < Len(text) => pos \in 0 .. R!End - 1  BY <1>2, SameCharacters
    <3> QED  BY <1>2, <1>4, <3>1, SameCharacters DEF Clear, R!NoNul, R!Nul, Nul
  <2>3. R!DeadEnd(tokenStart)  BY <1>2, <1>3, <2>2, CommentHasNoEnd
  <2>4. tokenStart <= Len(text)  BY <1>2, <1>3
  <2> QED  BY <1>2, <1>3, <2>1, <2>3, <2>4, StopsHere DEF Good, Outcome
<1>5. CASE mode' = "aborted" /\ UNCHANGED filed
  <2>1. Good'
    BY <1>1, <1>5, ReadsOn DEF Good, Reading, Between, AtTheEnd, InLong, InWord, InNumber,
       InFraction, InString, InLine, InBlock, LongModes
  <2> QED  BY <1>5, <2>1 DEF Outcome
<1>6. CASE /\ At(pos) \notin {Nul, Bad}
           /\ depth' = DepthAfter(At(pos), At(pos + 1))
           /\ mode' = (IF depth' = 0 THEN "start" ELSE mode)
           /\ pos' = CommentStep(pos) /\ UNCHANGED filed
  <2> DEFINE q == CommentStep(pos)
             d == DepthAfter(At(pos), At(pos + 1))
  <2>1. /\ q \in Nat /\ pos < q /\ d = R!Deep(tokenStart, q) /\ ~R!Opens(q - 1) /\ ~R!Closes(q - 1)
        /\ \A c \in pos + 1 .. q : R!Deep(tokenStart, c) = depth \/ c = q
        /\ d \in {depth - 1, depth, depth + 1} /\ depth \in Int
        /\ d = depth - 1 => R!Closes(pos) /\ q = pos + 2
    BY <1>2, <1>3, TurnIsCounted DEF Clear
  <2>2. pos' = q /\ depth' = d  BY <1>6
  <2> HIDE DEF q, d
  <2>3. depth > 0
    <3>1. pos \in tokenStart + 2 .. pos  BY <1>2, <1>3
    <3> QED  BY <1>3, <3>1
  <2>4. \A c \in tokenStart + 2 .. q :
            c \in tokenStart + 2 .. pos \/ c \in pos + 1 .. q
    BY <1>2, <2>1
  <2>5. \A c \in tokenStart + 2 .. q : R!Deep(tokenStart, c) > 0 \/ c = q
    BY <1>3, <2>1, <2>3, <2>4
  <2>6. CASE d = 0
    <3>1. R!Closes(pos) /\ q = pos + 2  BY <2>1, <2>3, <2>6
    <3>2. q - 2 = pos /\ q > tokenStart + 3 /\ tokenStart < q  BY <1>2, <1>3, <3>1
    <3>3. \A c \in tokenStart + 2 .. q - 1 : c \in tokenStart + 2 .. q /\ c # q  BY <1>2, <2>1
    <3>4. R!BlockComment(tokenStart, q)
      BY <1>3, <2>1, <2>5, <2>6, <3>1, <3>2, <3>3 DEF R!BlockComment
    <3>5. R!Gap(LastEnd, q)  BY <1>2, <1>3, <2>1, <3>2, <3>4, GapExtends DEF R!Skipped
    <3> QED  BY <1>1, <1>6, <2>2, <2>6, <3>5, GapIsRead DEF Outcome
  <2>7. CASE d # 0
    <3>1. d > 0  BY <2>1, <2>3, <2>7
    <3>2. \A c \in tokenStart + 2 .. q : R!Deep(tokenStart, c) > 0  BY <2>1, <2>5, <3>1
    <3>3. tokenStart + 2 <= q /\ tokenStart < q  BY <1>2, <1>3, <2>1
    <3>4. InBlock'  BY <1>1, <1>3, <2>1, <2>2, <3>2, <3>3, LettersStay DEF InBlock
    <3>5. mode' = "block"  BY <1>1, <1>6, <2>2, <2>7
    <3>6. /\ mode' \in LongModes /\ tokenStart' < pos' /\ R!Gap(LastEnd, tokenStart')
          /\ InWord' /\ InNumber' /\ InFraction' /\ InString' /\ InLine'
      BY <1>1, <1>3, <2>2, <3>3, <3>5 DEF LongModes, InWord, InNumber, InFraction, InString, InLine
    <3>7. Good'  BY <1>1, <3>4, <3>6, LongGoesOn
    <3> QED  BY <1>6, <3>7 DEF Outcome
  <2> QED  BY <2>6, <2>7
<1> QED  BY <1>4, <1>5, <1>6 DEF LexBlockComment, CommentEnds, Read

(* Every turn keeps what the lexer has made right, or meets a dead end.    *)
LEMMA LexGoesOn ==
    ASSUME LexTypes, StringRead, Good, Clear, filed = <<>>, pos <= Len(text), Lex
    PROVE  Outcome
BY BlankIsSkipped, OperatorIsTaken, CommentBegins, TokenBegins, InvalidCharacterStops,
   TheEndIsReached, WordIsRead, NumberIsRead, StringIsTaken, LineIsSkipped, BlockIsSkipped
   DEF Lex, Clear

(* No step takes a token or an error back.                                 *)
LEMMA NothingIsTakenBack ==
    ASSUME LexTypes, Lex
    PROVE  /\ \A i \in 1 .. Len(tokens) : tokens'[i] = tokens[i]
           /\ Len(tokens') >= Len(tokens)
           /\ filed # <<>> => filed' # <<>>
<1>1. tokens \in Seq(Token) /\ filed \in Seq(Diag) /\ Len(tokens) \in Nat  BY DEF LexTypes
<1>2. tokens' = tokens \/ \E t : tokens' = Append(tokens, t)
  BY DEF Lex, SkipBlank, LexOperator, StartComment, StartLongToken, InvalidCharacter, EndOfFile,
     LexIdentifier, LexNumber, LexString, EatLineComment, LexBlockComment, FinishString,
     MakeToken, Abort
<1>3. filed' = filed \/ \E d : filed' = Append(filed, d)
  BY DEF Lex, SkipBlank, LexOperator, StartComment, StartLongToken, InvalidCharacter, EndOfFile,
     LexIdentifier, LexNumber, LexString, EatLineComment, LexBlockComment, Quiet,
     FileAt, File, Abort
<1>4. \A t : /\ \A i \in 1 .. Len(tokens) : Append(tokens, t)[i] = tokens[i]
             /\ Len(Append(tokens, t)) >= Len(tokens)
  BY <1>1
<1>5. \A d : Append(filed, d) # <<>>  BY <1>1
<1> QED  BY <1>1, <1>2, <1>3, <1>4, <1>5
-----------------------------------------------------------------------------
LEMMA LexemesInit == Init => LexemesInv
<1> SUFFICES ASSUME Init PROVE LexemesInv  OBVIOUS
<1>1. /\ pos = 0 /\ mode = "start" /\ tokens = <<>> /\ filed = <<>> /\ complaints = 0
  BY DEF Init, LexInit
<1>2. StringInv  BY StringInvInit
<1>3. text \in Seq(STRING)  BY <1>2 DEF StringInv, LexInv, LexTypes
<1>4. Good
  <2>1. ReadRight(Len(tokens))  BY <1>1 DEF ReadRight
  <2>2. R!Gap(LastEnd, pos)  BY <1>1, GapStarts DEF LastEnd
  <2>3. Reading
    BY <1>1, <2>2 DEF Reading, Between, AtTheEnd, InLong, InWord, InNumber, InFraction, InString,
                      InLine, InBlock, LongModes
  <2> QED  BY <2>1, <2>3 DEF Good
<1> QED  BY <1>1, <1>2, <1>3, <1>4 DEF LexemesInv

LEMMA LexemesNext == LexemesInv /\ [Next]_vars => LexemesInv'
<1> SUFFICES ASSUME LexemesInv, [Next]_vars PROVE LexemesInv'  OBVIOUS
<1>1. StringInv'  BY StringInvNext DEF LexemesInv
<1>2. /\ StringInv /\ LexTypes /\ StringRead /\ complaints \in Nat /\ pos <= Len(text)
      /\ (complaints = 0 /\ Clear) => IF filed = <<>> THEN Good ELSE Stopped
  BY DEF LexemesInv, StringInv, LexInv
<1>3. tokens' \in Seq(Token)  BY <1>1 DEF StringInv, LexInv, LexTypes
<1>4. CASE LexStep
  <2>1. Lex /\ complaints' = complaints  BY <1>4 DEF LexStep
  <2>2. pos' <= Len(text') /\ text' = text  BY <1>2, <2>1, StaysInside
  <2>3. Clear' <=> Clear  BY <2>2, GrammarStays DEF Clear
  <2>4. ASSUME complaints' = 0, Clear' PROVE IF filed' = <<>> THEN Good' ELSE Stopped'
    <3>1. CASE filed = <<>>
      <4>1. Outcome  BY <1>2, <2>1, <2>3, <2>4, <3>1, LexGoesOn
      <4>2. Stopped => Stopped'  BY <1>2, <1>3, <2>1, <2>2, NothingIsTakenBack, StoppedStays
      <4> QED  BY <4>1, <4>2 DEF Outcome
    <3>2. CASE filed # <<>>
      <4>1. Stopped  BY <1>2, <2>1, <2>3, <2>4, <3>2
      <4> QED  BY <1>2, <1>3, <2>1, <2>2, <3>2, <4>1, NothingIsTakenBack, StoppedStays
    <3> QED  BY <3>1, <3>2
  <2> QED  BY <1>1, <1>2, <2>1, <2>2, <2>4 DEF LexemesInv
<1>5. CASE Complain \/ GiveUp
  <2>1. complaints' = complaints + 1 /\ UNCHANGED <<text, pos>>
    BY <1>5 DEF Complain, GiveUp, NothingIsRead
  <2>2. complaints' \in Nat /\ complaints' # 0  BY <1>2, <2>1
  <2> QED  BY <1>1, <1>2, <2>1, <2>2 DEF LexemesInv
<1>6. CASE ~LexStep /\ ~(Complain \/ GiveUp)
  <2>1. UNCHANGED <<text, pos, mode, tokenStart, depth, tokens, filed, complaints>>
    BY <1>6 DEF Next, Work, EndParse, StartReport, Show, FinishReport, vars, lexVars
  <2>2. Clear' <=> Clear  BY <2>1, GrammarStays DEF Clear
  <2>3. Good => Good'
    <3>1. ASSUME Good PROVE Good'
      <4>1. ReadRight(Len(tokens))' /\ LastEnd' = LastEnd  BY <1>2, <2>1, <3>1, ReadsOn
      <4>2. /\ \A a, b : R!Gap(a, b)' <=> R!Gap(a, b)
            /\ \A a, p : R!Escaped(a, p)' <=> R!Escaped(a, p)
        BY <2>1, GrammarStays, TextStays
      <4>3. Between' /\ AtTheEnd' /\ InLong'
        BY <2>1, <3>1, <4>1, <4>2, LettersStay DEF Good, Reading, Between, AtTheEnd, InLong
      <4>4. InWord' /\ InNumber' /\ InFraction'
        BY <2>1, <3>1, LettersStay DEF Good, Reading, InWord, InNumber, InFraction
      <4>5. InString' /\ InLine' /\ InBlock'
        BY <2>1, <3>1, <4>2, LettersStay DEF Good, Reading, InString, InLine, InBlock
      <4> QED  BY <4>1, <4>3, <4>4, <4>5 DEF Good, Reading
    <3> QED  BY <3>1
  <2>4. Stopped => Stopped'
    <3>1. Len(tokens') >= Len(tokens) /\ \A i \in 1 .. Len(tokens) : tokens'[i] = tokens[i]
      BY <1>2, <2>1 DEF LexTypes
    <3> QED  BY <1>2, <1>3, <2>1, <3>1, StoppedStays
  <2> QED  BY <1>1, <1>2, <2>1, <2>2, <2>3, <2>4 DEF LexemesInv
<1> QED  BY <1>4, <1>5, <1>6

(* The loops of the lexer find the longest lexemes from left to right and  *)
(* pass over blanks and comments only, for every text; an error is filed   *)
(* exactly where a text cannot be read on.                                 *)
THEOREM TokensAreRight == Spec => []TokensAreTheLexemes
<1>1. ASSUME LexemesInv PROVE TokensAreTheLexemes
  <2> SUFFICES ASSUME mode = "eof", complaints = 0, R!ClearComments, R!NoNul
               PROVE  IF filed = <<>>
                      THEN ReadRight(Len(tokens)) /\ R!Gap(EndBefore(Len(tokens) + 1), R!End)
                      ELSE Stopped
    BY DEF TokensAreTheLexemes, Stopped
  <2>1. /\ LexTypes /\ pos <= Len(text)
        /\ IF filed = <<>> THEN Good ELSE Stopped
    BY <1>1 DEF LexemesInv, Clear, StringInv, LexInv
  <2>2. CASE filed = <<>>
    <3>1. ReadRight(Len(tokens)) /\ R!Gap(LastEnd, pos) /\ At(pos) = Nul
      BY <2>1, <2>2 DEF Good, Reading, Between, AtTheEnd
    <3>2. pos = R!End
      <4>1. pos \in Nat /\ Len(text) \in Nat  BY <2>1 DEF LexTypes
      <4>2. pos < Len(text) => pos \in 0 .. R!End - 1  BY <4>1, SameCharacters
      <4> QED  BY <2>1, <3>1, <4>1, <4>2, SameCharacters DEF R!NoNul, R!Nul, Nul
    <3> QED  BY <2>1, <2>2, <3>1, <3>2, EndIsLast
  <2> QED  BY <2>1, <2>2
<1> QED  BY <1>1, LexemesInit, LexemesNext, PTL DEF Spec
=============================================================================

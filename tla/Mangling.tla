------------------------------ MODULE Mangling ------------------------------
(***************************************************************************)
(* Mangled names of functions and what the demangler makes of them.  Text  *)
(* is a sequence: of characters in a mangled name, of characters and fixed *)
(* words in a demangled one.  In a mangled name a wide character is its    *)
(* scalar value in six digits; nothing is said of the characters from 128  *)
(* to 255, which are counted as one and written as two.                    *)
(***************************************************************************)
EXTENDS SyntaxTree, TLC

CONSTANTS Spelling,    \* the characters of each name
          Scalar       \* the six digits of each wide character

Wide == DOMAIN Scalar

RECURSIVE Decimal(_)
Decimal(n) == IF n < 10 THEN <<ToString(n)>> ELSE Append(Decimal(n \div 10), ToString(n % 10))

DecimalDigits == {ToString(d) : d \in 0..9}
Digit(c)      == CHOOSE d \in 0..9 : ToString(d) = c

-----------------------------------------------------------------------------
(* Mangling. *)

EncodedCharacter(c) == IF c \in Wide THEN <<"%">> \o Scalar[c] ELSE <<c>>

(* The length printed is that of the encoded name.                         *)
MangleName(name) ==
    LET encoded == FlattenSeq([i \in DOMAIN Spelling[name] |-> EncodedCharacter(Spelling[name][i])])
    IN Decimal(Len(encoded)) \o encoded

RECURSIVE MangleType(_, _)

(* Mistake: the types of a list follow each other without a separator.     *)
MangleListTogether(nodes, head, start) ==
    LET types == ListFrom(nodes, head)
    IN IF types = <<>> THEN <<>>
       ELSE <<start>> \o FlattenSeq([i \in DOMAIN types |-> MangleType(nodes, types[i])]) \o <<"e">>

MangleList(nodes, head, start) ==
    LET types == ListFrom(nodes, head)
    IN IF types = <<>> THEN <<>>
       ELSE <<start>>
            \o FlattenSeq([i \in DOMAIN types |->
                               (IF i > 1 THEN <<"_">> ELSE <<>>) \o MangleType(nodes, types[i])])
            \o <<"e">>

MangleType(nodes, id) ==
    LET part(i) == MangleType(nodes, nodes[id].fields[i]) IN
    IF id = NoNode THEN <<"v">>
    ELSE CASE nodes[id].kind = "Any"      -> <<"N", "*">>
           [] nodes[id].kind = "Bool"     -> <<"N", "b">>
           [] nodes[id].kind = "String"   -> <<"N", "s">>
           [] nodes[id].kind = "Number"   -> <<"N", "d">>
           [] nodes[id].kind = "Void"     -> <<"v">>
           [] nodes[id].kind = "array"    -> <<"a", "t">> \o part(1) \o <<"e">>
           [] nodes[id].kind = "map"      -> <<"m", "t">> \o part(1) \o <<"_">> \o part(2) \o <<"e">>
           [] nodes[id].kind = "functype" -> <<"f">> \o MangleList(nodes, nodes[id].fields[2], "p") \o part(1)
           [] nodes[id].kind = "user"     -> <<"U">> \o MangleName(nodes[id].name)

MangleFuncName(nodes, id) ==
    LET type == nodes[nodes[id].type]
    IN <<"_", "O", "F">> \o MangleName(nodes[id].name)
       \o MangleList(nodes, type.fields[2], "p") \o MangleType(nodes, type.fields[1])

-----------------------------------------------------------------------------
(* Demangling: the recognizers of demangle.c over the state of its parser, *)
(* s, for the mangled name m.  A state that has failed no longer changes.  *)

Peek(m, s)    == IF ~s.failed /\ s.at <= Len(m) THEN m[s.at] ELSE "end"
Skip(m, s)    == IF s.failed \/ s.at > Len(m) THEN s ELSE [s EXCEPT !.at = @ + 1]
Fail(s)       == [s EXCEPT !.failed = TRUE]
Say(s, words) == IF s.failed THEN s ELSE [s EXCEPT !.out = @ \o words]
SkipIf(m, s, c) == IF Peek(m, s) = c THEN Skip(m, s) ELSE Fail(s)

RECURSIVE RecLength(_, _, _)
RecLength(m, s, length) ==
    IF Peek(m, s) \in DecimalDigits
    THEN RecLength(m, Skip(m, s), 10 * length + Digit(Peek(m, s)))
    ELSE [state |-> s, length |-> length]

RecScalar(m, s) ==
    LET digits == SubSeq(m, s.at + 1, s.at + 6) IN
    IF \E c \in Wide : Scalar[c] = digits
    THEN Say([s EXCEPT !.at = @ + 7], <<CHOOSE c \in Wide : Scalar[c] = digits>>)
    ELSE Fail(s)

RECURSIVE RecCharacters(_, _, _)
RecCharacters(m, s, left) ==
    IF left = 0 \/ s.failed THEN s
    ELSE IF Peek(m, s) = "%" THEN RecCharacters(m, RecScalar(m, s), left - 7)
    ELSE RecCharacters(m, Skip(m, Say(s, <<Peek(m, s)>>)), left - 1)

RecIdentifier(m, s) ==
    LET number == RecLength(m, s, 0) IN RecCharacters(m, number.state, number.length)

PrimitiveNamed == "*" :> "Any" @@ "b" :> "Bool" @@ "d" :> "Number" @@ "i" :> "Int" @@ "s" :> "String"

RecPrimitiveType(m, s) ==
    IF Peek(m, s) \in DOMAIN PrimitiveNamed
    THEN Skip(m, Say(s, <<PrimitiveNamed[Peek(m, s)]>>)) ELSE Fail(s)

RECURSIVE RecType(_, _), RecMoreTypes(_, _)

RecTypeList(m, s, start) ==
    SkipIf(m, RecMoreTypes(m, RecType(m, SkipIf(m, s, start))), "e")

RecMoreTypes(m, s) ==
    IF Peek(m, s) = "_" THEN RecMoreTypes(m, RecType(m, Say(Skip(m, s), <<", ">>))) ELSE s

RecParameters(m, s) ==
    LET opened == Say(s, <<"(">>) IN
    Say(IF Peek(m, s) = "p" THEN RecTypeList(m, opened, "p") ELSE opened, <<") -> ">>)

RecType(m, s) ==
    LET rest == Skip(m, s) IN
    CASE s.failed         -> s
      [] Peek(m, s) = "N" -> RecPrimitiveType(m, rest)
      [] Peek(m, s) = "U" -> RecIdentifier(m, rest)
      [] Peek(m, s) = "v" -> Say(rest, <<"Void">>)
      [] Peek(m, s) = "f" -> RecType(m, RecParameters(m, rest))
      [] Peek(m, s) = "a" -> Say(RecTypeList(m, Say(rest, <<"Array[">>), "t"), <<"]">>)
      [] Peek(m, s) = "m" -> Say(RecTypeList(m, Say(rest, <<"Map[">>), "t"), <<"]">>)
      [] OTHER            -> Fail(s)

RECURSIVE RecQualifiers(_, _)
RecQualifiers(m, s) ==
    IF Peek(m, s) \in DecimalDigits
    THEN RecQualifiers(m, RecIdentifier(m, Say(s, <<".">>))) ELSE s

RecFuncName(m, s) ==
    RecType(m, RecParameters(m, RecQualifiers(m, RecIdentifier(m, SkipIf(m, s, "F")))))

RecVariableName(m, s) == RecIdentifier(m, SkipIf(m, s, "V"))

(* A name that is of neither sort demangles to the empty text.             *)
Demangle(m) ==
    LET start == SkipIf(m, SkipIf(m, [at |-> 1, out |-> <<>>, failed |-> FALSE], "_"), "O")
    IN CASE Peek(m, start) = "F" -> RecFuncName(m, start)
         [] Peek(m, start) = "V" -> RecVariableName(m, start)
         [] OTHER                -> start
=============================================================================

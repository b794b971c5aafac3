---------------------------- MODULE ParserProofs ----------------------------
(***************************************************************************)
(* For every text: the parser reads inside it, and it neither gives a      *)
(* builder a node that is missing nor stops before the end of the text     *)
(* without an error reported.                                              *)
(*                                                                         *)
(* What each instruction finds on the stack and leaves there is a typing:  *)
(* it follows the recognizers, which are checked once each, and a step of  *)
(* the parser then keeps the values on the stack as they were typed.       *)
(***************************************************************************)
EXTENDS Parser, SequenceTheorems, WellFoundedInduction, TLAPS

(* Values: a node, missing only after an error; a node that may be         *)
(* missing; a list under construction; a token remembered.                 *)
Types   == {"node", "optional", "list", "symbol"}
Stack   == Seq(Types)
Results == {"node", "optional"}

(* Loops extend the list they find, recognizers add a node, which is as    *)
(* good as one that may be missing.                                        *)
Loops == {"ProgramItems", "BlockItems", "MoreExpressions", "MoreNames", "MoreTypes", "Parameters"}
Recognizers == {"TypeDecl", "VarDecl", "FuncDecl", "Block", "Statement", "IfStatement", "Term",
                "Typename", "Primitive", "FuncType", "ArrayType", "MapType"}

Call(name, from, to) ==
    \/ /\ name \in Loops
       /\ \E below \in Stack : from = Append(below, "list") /\ to = from
    \/ /\ name = "TypeMembers"
       /\ \E below \in Stack : from = Append(Append(below, "optional"), "list") /\ to = from
    \/ /\ name \in Recognizers
       /\ \E t \in Results : to = Append(from, t)

(* A node is made of the last n values; those the builder dereferences are *)
(* there.                                                                  *)
Made(kind, n, from, to) ==
    /\ kind \notin {"list", "symbol", "null"}
    /\ n \in 0..Len(from)
    /\ \A i \in Dereferenced(kind) : i \in 1..n /\ from[(Len(from) - n) + i] = "node"
    /\ \E t \in Results : to = Append(SubSeq(from, 1, Len(from) - n), t)

(* What an instruction other than a branch takes from the stack and puts   *)
(* on it.                                                                  *)
Plain(x, from, to) ==
    \/ x.do \in {"expect", "terminator", "take"} /\ to = from
    \/ x.do = "push" /\ x.value = Null /\ to = Append(from, "optional")
    \/ x.do = "push" /\ x.value = <<"list", <<>>>> /\ to = Append(from, "list")
    \/ x.do = "symbol" /\ to = Append(from, "symbol")
    \/ x.do = "report" /\ \E t \in Results : to = Append(from, t)
    \/ /\ x.do = "add"
       /\ \E below \in Stack, t \in Results :
             from = Append(Append(below, "list"), t) /\ to = Append(below, "list")
    \/ /\ x.do = "init"
       /\ \E below \in Stack :
             /\ from = Append(Append(Append(below, "optional"), "list"), "node")
             /\ to = Append(Append(below, "optional"), "list")
    \/ /\ x.do = "climb"
       /\ \E below \in Stack, t \in Results : from = Append(below, "node") /\ to = Append(below, t)
    \/ x.do = "make" /\ Made(x.kind, x.children, from, to)
    \/ x.do = "call" /\ Call(x.name, from, to)

(* A typing is a set of instructions with the stacks before and after;     *)
(* in a sound one, a branch has both its ways typed.                       *)
Instructions(typing) == {e[1] : e \in typing}

TypedIn(typing, items, from, to) ==
    /\ items \in Seq(Instructions(typing))
    /\ \E stack \in [1..(Len(items) + 1) -> Stack] :
          /\ stack[1] = from /\ stack[Len(items) + 1] = to
          /\ \A k \in 1..Len(items) : <<items[k], stack[k], stack[k + 1]>> \in typing

Sound(typing) ==
    \A e \in typing :
        \/ e[1].do # "when" /\ Plain(e[1], e[2], e[3])
        \/ /\ e[1].do = "when"
           /\ TypedIn(typing, e[1].then, e[2], e[3]) /\ TypedIn(typing, e[1].else, e[2], e[3])

Typed(items, from, to) == \E typing : Sound(typing) /\ TypedIn(typing, items, from, to)

-----------------------------------------------------------------------------
(* Typings put together.                                                   *)
LEMMA LargerTyping ==
    ASSUME NEW A, NEW B, A \subseteq B, NEW items, NEW from, NEW to, TypedIn(A, items, from, to)
    PROVE  TypedIn(B, items, from, to)
<1>1. Instructions(A) \subseteq Instructions(B)  BY DEF Instructions
<1>2. items \in Seq(Instructions(B))  BY <1>1, SeqMonotonic DEF TypedIn
<1> QED  BY <1>2 DEF TypedIn

LEMMA SoundUnion ==
    ASSUME NEW A, NEW B, Sound(A), Sound(B)
    PROVE  Sound(A \cup B)
<1> SUFFICES ASSUME NEW e \in A \cup B
             PROVE  \/ e[1].do # "when" /\ Plain(e[1], e[2], e[3])
                    \/ /\ e[1].do = "when"
                       /\ TypedIn(A \cup B, e[1].then, e[2], e[3])
                       /\ TypedIn(A \cup B, e[1].else, e[2], e[3])
  BY Zenon DEF Sound
<1>1. A \subseteq A \cup B /\ B \subseteq A \cup B  OBVIOUS
<1>2. CASE e \in A  BY <1>1, <1>2, LargerTyping, Zenon DEF Sound
<1>3. CASE e \in B  BY <1>1, <1>3, LargerTyping, Zenon DEF Sound
<1> QED  BY <1>2, <1>3

LEMMA TypedEnds ==
    ASSUME NEW items, NEW from, NEW to, Typed(items, from, to)
    PROVE  from \in Stack /\ to \in Stack /\ Len(items) \in Nat
           /\ \E T : items \in Seq(T)
<1>1. PICK A : Sound(A) /\ TypedIn(A, items, from, to)  BY DEF Typed
<1>2. items \in Seq(Instructions(A))  BY <1>1 DEF TypedIn
<1>3. Len(items) \in Nat  BY <1>2, LenProperties
<1>4. 1 \in 1..(Len(items) + 1) /\ Len(items) + 1 \in 1..(Len(items) + 1)  BY <1>3
<1> QED  BY <1>1, <1>2, <1>3, <1>4 DEF TypedIn

LEMMA TypedNothing ==
    ASSUME NEW from \in Stack
    PROVE  Typed(<<>>, from, from)
<1>1. Sound({})  BY DEF Sound
<1>2. TypedIn({}, <<>>, from, from)
  <2> DEFINE stack == [k \in 1..1 |-> from]
  <2>1. <<>> \in Seq(Instructions({})) /\ Len(<<>>) = 0  BY EmptySeq
  <2>2. stack \in [1..(Len(<<>>) + 1) -> Stack] /\ stack[1] = from /\ stack[Len(<<>>) + 1] = from
    BY <2>1
  <2>3. \A k \in 1..Len(<<>>) : <<<<>>[k], stack[k], stack[k + 1]>> \in {}  BY <2>1
  <2> QED  BY <2>1, <2>2, <2>3 DEF TypedIn
<1> QED  BY <1>1, <1>2 DEF Typed

LEMMA TypedIsOne ==
    ASSUME NEW x, NEW from \in Stack, NEW to \in Stack, NEW A, <<x, from, to>> \in A
    PROVE  TypedIn(A, <<x>>, from, to)
<1> DEFINE stack == [k \in 1..2 |-> IF k = 1 THEN from ELSE to]
<1>1. x \in Instructions(A)  BY DEF Instructions
<1>2. <<x>> \in Seq(Instructions(A)) /\ Len(<<x>>) = 1 /\ <<x>>[1] = x  BY <1>1
<1>3. stack \in [1..(Len(<<x>>) + 1) -> Stack] /\ stack[1] = from /\ stack[Len(<<x>>) + 1] = to
  BY <1>2
<1>4. \A k \in 1..Len(<<x>>) : <<<<x>>[k], stack[k], stack[k + 1]>> \in A  BY <1>2
<1> HIDE DEF stack
<1> QED  BY <1>2, <1>3, <1>4 DEF TypedIn

LEMMA TypedPlain ==
    ASSUME NEW x, NEW from \in Stack, NEW to \in Stack, x.do # "when", Plain(x, from, to)
    PROVE  Typed(<<x>>, from, to)
<1> DEFINE A == {<<x, from, to>>}
<1>1. Sound(A)
  <2> SUFFICES ASSUME NEW e \in A PROVE e[1].do # "when" /\ Plain(e[1], e[2], e[3])
    BY Zenon DEF Sound
  <2>1. e[1] = x /\ e[2] = from /\ e[3] = to  OBVIOUS
  <2> QED  BY <2>1, Zenon
<1>2. TypedIn(A, <<x>>, from, to)  BY TypedIsOne
<1> QED  BY <1>1, <1>2 DEF Typed

(* A branch is typed when both its ways are, from the same to the same.    *)
LEMMA TypedWhen ==
    ASSUME NEW kinds, NEW then, NEW else, NEW from, NEW to,
           Typed(then, from, to), Typed(else, from, to)
    PROVE  Typed(When(kinds, then, else), from, to)
<1> DEFINE x == [do |-> "when", kinds |-> kinds, then |-> then, else |-> else]
<1>1. PICK A : Sound(A) /\ TypedIn(A, then, from, to)  BY DEF Typed
<1>2. PICK B : Sound(B) /\ TypedIn(B, else, from, to)  BY DEF Typed
<1> DEFINE S == A \cup B
           W == S \cup {<<x, from, to>>}
<1>3. Sound(S) /\ A \subseteq W /\ B \subseteq W /\ S \subseteq W
  BY <1>1, <1>2, SoundUnion
<1>4. TypedIn(W, then, from, to) /\ TypedIn(W, else, from, to)
  BY <1>1, <1>2, <1>3, LargerTyping
<1>5. x.do = "when" /\ x.then = then /\ x.else = else  OBVIOUS
<1> HIDE DEF x, S
<1>6. Sound(W)
  <2> SUFFICES ASSUME NEW e \in W
               PROVE  \/ e[1].do # "when" /\ Plain(e[1], e[2], e[3])
                      \/ /\ e[1].do = "when"
                         /\ TypedIn(W, e[1].then, e[2], e[3])
                         /\ TypedIn(W, e[1].else, e[2], e[3])
    BY Zenon DEF Sound
  <2>1. CASE e \in S
    BY <1>3, <2>1, LargerTyping, Zenon DEF Sound
  <2>2. CASE e = <<x, from, to>>
    <3>1. e[1] = x /\ e[2] = from /\ e[3] = to  BY <2>2
    <3> QED  BY <1>4, <1>5, <3>1, Zenon
  <2> QED  BY <2>1, <2>2
<1>7. from \in Stack /\ to \in Stack  BY TypedEnds
<1>8. TypedIn(W, <<x>>, from, to)  BY <1>7, TypedIsOne
<1>9. When(kinds, then, else) = <<x>>  BY DEF When, x
<1> QED  BY <1>6, <1>8, <1>9 DEF Typed

LEMMA TypedThen ==
    ASSUME NEW a, NEW b, NEW from, NEW between, NEW to,
           Typed(a, from, between), Typed(b, between, to)
    PROVE  Typed(a \o b, from, to)
<1>1. PICK A : Sound(A) /\ TypedIn(A, a, from, between)  BY DEF Typed
<1>2. PICK B : Sound(B) /\ TypedIn(B, b, between, to)  BY DEF Typed
<1> DEFINE S == A \cup B
           I == Instructions(S)
<1>3. Sound(S) /\ A \subseteq S /\ B \subseteq S  BY <1>1, <1>2, SoundUnion
<1>4. TypedIn(S, a, from, between) /\ TypedIn(S, b, between, to)
  BY <1>1, <1>2, <1>3, LargerTyping
<1> HIDE DEF S
<1>5. a \in Seq(I) /\ b \in Seq(I)  BY <1>4 DEF TypedIn
<1>6. PICK u \in [1..(Len(a) + 1) -> Stack] :
          /\ u[1] = from /\ u[Len(a) + 1] = between
          /\ \A k \in 1..Len(a) : <<a[k], u[k], u[k + 1]>> \in S
  BY <1>4 DEF TypedIn
<1>7. PICK v \in [1..(Len(b) + 1) -> Stack] :
          /\ v[1] = between /\ v[Len(b) + 1] = to
          /\ \A k \in 1..Len(b) : <<b[k], v[k], v[k + 1]>> \in S
  BY <1>4 DEF TypedIn
<1> HIDE DEF I
<1> DEFINE m == Len(a)
           n == Len(b)
           c == a \o b
           w == [k \in 1..(Len(c) + 1) |-> IF k <= m THEN u[k] ELSE v[k - m]]
<1>8. m \in Nat /\ n \in Nat  BY <1>5, LenProperties
<1>9. c \in Seq(I) /\ Len(c) = m + n
      /\ \A k \in 1..(m + n) : c[k] = IF k <= m THEN a[k] ELSE b[k - m]
  BY <1>5, ConcatProperties
<1>10. \A k \in 1..(m + 1) : u[k] \in Stack  BY <1>6
<1>11. \A k \in 1..(n + 1) : v[k] \in Stack  BY <1>7
<1>12. u[1] = from /\ u[m + 1] = between /\ v[1] = between /\ v[n + 1] = to
       /\ (\A k \in 1..m : <<a[k], u[k], u[k + 1]>> \in S)
       /\ (\A k \in 1..n : <<b[k], v[k], v[k + 1]>> \in S)
  BY <1>6, <1>7
<1> HIDE DEF m, n, c
<1>13. w \in [1..(Len(c) + 1) -> Stack]  BY <1>8, <1>9, <1>10, <1>11
<1>14. w[1] = from
  <2>1. w[1] = IF 1 <= m THEN u[1] ELSE v[1 - m]  BY <1>8, <1>9
  <2>2. CASE m = 0  BY <1>12, <2>1, <2>2
  <2>3. CASE m # 0  BY <1>8, <1>12, <2>1, <2>3
  <2> QED  BY <2>2, <2>3
<1>15. w[Len(c) + 1] = to
  <2>1. w[Len(c) + 1] = v[(Len(c) + 1) - m] /\ (Len(c) + 1) - m = n + 1  BY <1>8, <1>9
  <2> QED  BY <1>12, <2>1
<1>16. ASSUME NEW k \in 1..Len(c) PROVE <<c[k], w[k], w[k + 1]>> \in S
  <2>0. k \in 1..(m + n) /\ k \in Nat  BY <1>8, <1>9
  <2>1. CASE k < m
    <3>1. c[k] = a[k] /\ w[k] = u[k] /\ w[k + 1] = u[k + 1] /\ k \in 1..m
      BY <1>8, <1>9, <2>0, <2>1
    <3> QED  BY <1>12, <3>1
  <2>2. CASE k = m
    <3>1. c[k] = a[k] /\ w[k] = u[k] /\ w[k + 1] = v[1] /\ k \in 1..m
      <4>1. (k + 1) - m = 1  BY <1>8, <2>2
      <4> QED  BY <1>8, <1>9, <2>0, <2>2, <4>1
    <3>2. u[k + 1] = v[1]  BY <1>12, <2>2
    <3> QED  BY <1>12, <3>1, <3>2
  <2>3. CASE k > m
    <3> DEFINE l == k - m
    <3>1. l \in 1..n /\ (k + 1) - m = l + 1  BY <1>8, <2>0, <2>3
    <3>2. c[k] = b[l] /\ w[k] = v[l] /\ w[k + 1] = v[l + 1]
      BY <1>8, <1>9, <2>0, <2>3, <3>1
    <3> HIDE DEF l
    <3> QED  BY <1>12, <3>1, <3>2
  <2> QED  BY <1>8, <2>0, <2>1, <2>2, <2>3
<1> HIDE DEF w
<1>17. TypedIn(S, c, from, to)  BY <1>9, <1>13, <1>14, <1>15, <1>16 DEF TypedIn, I
<1> QED  BY <1>3, <1>17 DEF Typed, c

(* The first instruction and the rest.                                     *)
LEMMA TypedHead ==
    ASSUME NEW items, NEW from, NEW to, Typed(items, from, to), items # <<>>
    PROVE  \E between \in Stack :
              /\ Typed(Tail(items), between, to)
              /\ \/ Head(items).do # "when" /\ Plain(Head(items), from, between)
                 \/ /\ Head(items).do = "when"
                    /\ Typed(Head(items).then, from, between)
                    /\ Typed(Head(items).else, from, between)
<1>1. PICK A : Sound(A) /\ TypedIn(A, items, from, to)  BY DEF Typed
<1> DEFINE I == Instructions(A)
<1>2. items \in Seq(I)  BY <1>1 DEF TypedIn
<1>3. PICK u \in [1..(Len(items) + 1) -> Stack] :
          /\ u[1] = from /\ u[Len(items) + 1] = to
          /\ \A k \in 1..Len(items) : <<items[k], u[k], u[k + 1]>> \in A
  BY <1>1 DEF TypedIn
<1> HIDE DEF I
<1> DEFINE n == Len(items)
           rest == Tail(items)
           v == [k \in 1..(Len(rest) + 1) |-> u[k + 1]]
<1>4. n \in Nat \ {0} /\ Head(items) = items[1]  BY <1>2, EmptySeq, LenProperties
<1>5. rest \in Seq(I) /\ Len(rest) = n - 1 /\ \A k \in 1..Len(rest) : rest[k] = items[k + 1]
  BY <1>2, HeadTailProperties
<1>6. u[1] = from /\ u[n + 1] = to /\ (\A k \in 1..(n + 1) : u[k] \in Stack)
      /\ (\A k \in 1..n : <<items[k], u[k], u[k + 1]>> \in A)
  BY <1>3
<1> HIDE DEF n, rest
<1>7. v \in [1..(Len(rest) + 1) -> Stack]  BY <1>4, <1>5, <1>6
<1>8. v[1] = u[2] /\ v[Len(rest) + 1] = to
  <2>1. 1 \in 1..(Len(rest) + 1) /\ Len(rest) + 1 \in 1..(Len(rest) + 1)
        /\ (Len(rest) + 1) + 1 = n + 1 /\ 1 + 1 = 2
    BY <1>4, <1>5
  <2> QED  BY <1>6, <2>1
<1>9. ASSUME NEW k \in 1..Len(rest) PROVE <<rest[k], v[k], v[k + 1]>> \in A
  <2>1. k + 1 \in 1..n /\ k \in 1..(Len(rest) + 1) /\ k + 1 \in 1..(Len(rest) + 1)
    BY <1>4, <1>5
  <2>2. rest[k] = items[k + 1] /\ v[k] = u[k + 1] /\ v[k + 1] = u[(k + 1) + 1]
    BY <1>5, <2>1
  <2> QED  BY <1>6, <2>1, <2>2
<1> HIDE DEF v
<1>10. TypedIn(A, rest, u[2], to)  BY <1>5, <1>7, <1>8, <1>9 DEF TypedIn, I
<1>11. Typed(rest, u[2], to)  BY <1>1, <1>10 DEF Typed
<1>12. <<items[1], from, u[2]>> \in A /\ u[2] \in Stack
  <2>1. 1 \in 1..n /\ 1 + 1 = 2 /\ 2 \in 1..(n + 1)  BY <1>4
  <2> QED  BY <1>6, <2>1
<1>13. \/ items[1].do # "when" /\ Plain(items[1], from, u[2])
       \/ /\ items[1].do = "when"
          /\ TypedIn(A, items[1].then, from, u[2]) /\ TypedIn(A, items[1].else, from, u[2])
  <2> DEFINE e == <<items[1], from, u[2]>>
  <2>1. e[1] = items[1] /\ e[2] = from /\ e[3] = u[2] /\ e \in A  BY <1>12
  <2> HIDE DEF e
  <2> QED  BY <1>1, <2>1, Zenon DEF Sound
<1>14. \/ items[1].do # "when" /\ Plain(items[1], from, u[2])
       \/ /\ items[1].do = "when"
          /\ Typed(items[1].then, from, u[2]) /\ Typed(items[1].else, from, u[2])
  BY <1>1, <1>13, Zenon DEF Typed
<1> QED  BY <1>4, <1>11, <1>12, <1>14 DEF rest

-----------------------------------------------------------------------------
(* The instructions one by one.                                            *)
LEMMA TypedLeaves ==
    ASSUME NEW from \in Stack
    PROVE  /\ \A kinds : Typed(ExpectAny(kinds), from, from)
           /\ \A kind : Typed(Expect(kind), from, from)
           /\ Typed(Terminator, from, from)
           /\ Typed(Take, from, from)
           /\ Typed(Symbol, from, Append(from, "symbol"))
           /\ Typed(Push(Null), from, Append(from, "optional"))
           /\ Typed(NewList, from, Append(from, "list"))
           /\ \A t \in Results : Typed(Report, from, Append(from, t))
<1>1. ASSUME NEW t \in Types PROVE Append(from, t) \in Stack  BY DEF Stack
<1>2. Results \subseteq Types /\ "symbol" \in Types /\ "list" \in Types /\ "optional" \in Types
  BY DEF Results, Types
<1>3. ASSUME NEW kinds PROVE Typed(ExpectAny(kinds), from, from)
  <2> DEFINE x == [do |-> "expect", kinds |-> kinds]
  <2>1. x.do = "expect"  OBVIOUS
  <2> HIDE DEF x
  <2>2. Typed(<<x>>, from, from)  BY <2>1, TypedPlain DEF Plain
  <2> QED  BY <2>2 DEF ExpectAny, x
<1>4. \A kind : Typed(Expect(kind), from, from)  BY <1>3 DEF Expect
<1>5. Typed(Terminator, from, from)
  <2> DEFINE x == [do |-> "terminator"]
  <2>1. x.do = "terminator"  OBVIOUS
  <2> HIDE DEF x
  <2>2. Typed(<<x>>, from, from)  BY <2>1, TypedPlain DEF Plain
  <2> QED  BY <2>2 DEF Terminator, x
<1>6. Typed(Take, from, from)
  <2> DEFINE x == [do |-> "take"]
  <2>1. x.do = "take"  OBVIOUS
  <2> HIDE DEF x
  <2>2. Typed(<<x>>, from, from)  BY <2>1, TypedPlain DEF Plain
  <2> QED  BY <2>2 DEF Take, x
<1>7. Typed(Symbol, from, Append(from, "symbol"))
  <2> DEFINE x == [do |-> "symbol"]
  <2>1. x.do = "symbol"  OBVIOUS
  <2> HIDE DEF x
  <2>2. Typed(<<x>>, from, Append(from, "symbol"))  BY <1>1, <1>2, <2>1, TypedPlain DEF Plain
  <2> QED  BY <2>2 DEF Symbol, x
<1>8. Typed(Push(Null), from, Append(from, "optional"))
  <2> DEFINE x == [do |-> "push", value |-> Null]
  <2>1. x.do = "push" /\ x.value = Null  OBVIOUS
  <2> HIDE DEF x
  <2>2. Typed(<<x>>, from, Append(from, "optional"))  BY <1>1, <1>2, <2>1, TypedPlain DEF Plain
  <2> QED  BY <2>2 DEF Push, x
<1>9. Typed(NewList, from, Append(from, "list"))
  <2> DEFINE x == [do |-> "push", value |-> <<"list", <<>>>>]
  <2>1. x.do = "push" /\ x.value = <<"list", <<>>>>  OBVIOUS
  <2> HIDE DEF x
  <2>2. Typed(<<x>>, from, Append(from, "list"))  BY <1>1, <1>2, <2>1, TypedPlain DEF Plain
  <2> QED  BY <2>2 DEF NewList, Push, x
<1>10. ASSUME NEW t \in Results PROVE Typed(Report, from, Append(from, t))
  <2> DEFINE x == [do |-> "report"]
  <2>1. x.do = "report"  OBVIOUS
  <2> HIDE DEF x
  <2>2. Typed(<<x>>, from, Append(from, t))  BY <1>1, <1>2, <2>1, TypedPlain DEF Plain
  <2> QED  BY <2>2 DEF Report, x
<1> QED  BY <1>3, <1>4, <1>5, <1>6, <1>7, <1>8, <1>9, <1>10

LEMMA TypedAdd ==
    ASSUME NEW below \in Stack, NEW t \in Results
    PROVE  Typed(Add, Append(Append(below, "list"), t), Append(below, "list"))
<1> DEFINE x    == [do |-> "add"]
           to   == Append(below, "list")
           from == Append(to, t)
<1>1. to \in Stack /\ from \in Stack  BY DEF Stack, Types, Results
<1>2. x.do = "add"  OBVIOUS
<1> HIDE DEF x
<1>3. Plain(x, from, to)  BY <1>2, Zenon DEF Plain
<1> HIDE DEF from, to
<1>4. Typed(<<x>>, from, to)  BY <1>1, <1>2, <1>3, TypedPlain
<1> QED  BY <1>4 DEF Add, x, from, to

LEMMA TypedSetInit ==
    ASSUME NEW below \in Stack
    PROVE  Typed(SetInit, Append(Append(Append(below, "optional"), "list"), "node"),
                 Append(Append(below, "optional"), "list"))
<1> DEFINE x    == [do |-> "init"]
           to   == Append(Append(below, "optional"), "list")
           from == Append(to, "node")
<1>1. to \in Stack /\ from \in Stack  BY DEF Stack, Types
<1>2. x.do = "init"  OBVIOUS
<1> HIDE DEF x
<1>3. Plain(x, from, to)  BY <1>2, Zenon DEF Plain
<1> HIDE DEF from, to
<1>4. Typed(<<x>>, from, to)  BY <1>1, <1>2, <1>3, TypedPlain
<1> QED  BY <1>4 DEF SetInit, x, from, to

LEMMA TypedClimb ==
    ASSUME NEW below \in Stack, NEW t \in Results, NEW prec
    PROVE  Typed(Climb(prec), Append(below, "node"), Append(below, t))
<1> DEFINE x    == [do |-> "climb", prec |-> prec]
           from == Append(below, "node")
           to   == Append(below, t)
<1>1. to \in Stack /\ from \in Stack  BY DEF Stack, Types, Results
<1>2. x.do = "climb"  OBVIOUS
<1> HIDE DEF x
<1>3. Plain(x, from, to)  BY <1>2, Zenon DEF Plain
<1> HIDE DEF from, to
<1>4. Typed(<<x>>, from, to)  BY <1>1, <1>2, <1>3, TypedPlain
<1> QED  BY <1>4 DEF Climb, x, from, to

LEMMA TypedCall ==
    ASSUME NEW name, NEW from \in Stack, NEW to \in Stack, Call(name, from, to)
    PROVE  Typed(Rec(name), from, to)
<1> DEFINE x == [do |-> "call", name |-> name]
<1>1. x.do = "call" /\ x.name = name  OBVIOUS
<1> HIDE DEF x
<1>2. Plain(x, from, to)  BY <1>1, Zenon DEF Plain
<1>3. Typed(<<x>>, from, to)  BY <1>1, <1>2, TypedPlain
<1> QED  BY <1>3 DEF Rec, x

LEMMA TypedMake ==
    ASSUME NEW kind, NEW n, NEW from \in Stack, NEW to \in Stack, Made(kind, n, from, to)
    PROVE  Typed(Make(kind, n), from, to)
<1> DEFINE x == [do |-> "make", kind |-> kind, children |-> n]
<1>1. x.do = "make" /\ x.kind = kind /\ x.children = n  OBVIOUS
<1> HIDE DEF x
<1>2. Plain(x, from, to)  BY <1>1, Zenon DEF Plain
<1>3. Typed(<<x>>, from, to)  BY <1>1, <1>2, TypedPlain
<1> QED  BY <1>3 DEF Make, x

(* A token or a value and one more, or two, made into a node.              *)
LEMMA TypedMake0 ==
    ASSUME NEW kind, kind \notin {"list", "symbol", "null"}, Dereferenced(kind) = {},
           NEW below \in Stack, NEW t \in Results
    PROVE  Typed(Make(kind, 0), below, Append(below, t))
<1>1. Append(below, t) \in Stack /\ SubSeq(below, 1, Len(below) - 0) = below
      /\ Len(below) \in Nat
  BY DEF Stack, Types, Results
<1>2. Made(kind, 0, below, Append(below, t))  BY <1>1 DEF Made
<1> QED  BY <1>1, <1>2, TypedMake

LEMMA TypedMake1 ==
    ASSUME NEW kind, kind \notin {"list", "symbol", "null"},
           NEW below \in Stack, NEW a \in Types, NEW t \in Results,
           Dereferenced(kind) \subseteq {1}, 1 \in Dereferenced(kind) => a = "node"
    PROVE  Typed(Make(kind, 1), Append(below, a), Append(below, t))
<1> DEFINE from == Append(below, a)
<1>1. from \in Stack /\ Append(below, t) \in Stack /\ Len(from) = Len(below) + 1
      /\ Len(below) \in Nat /\ from[Len(below) + 1] = a
  BY DEF Stack, Types, Results
<1>2. SubSeq(from, 1, Len(from) - 1) = below  BY DEF Stack
<1> HIDE DEF from
<1>3. (Len(from) - 1) + 1 = Len(below) + 1 /\ 1 \in 0..Len(from)  BY <1>1
<1>4. Made(kind, 1, from, Append(below, t))  BY <1>1, <1>2, <1>3 DEF Made
<1> QED  BY <1>1, <1>4, TypedMake DEF from

LEMMA TypedMake2 ==
    ASSUME NEW kind, kind \notin {"list", "symbol", "null"},
           NEW below \in Stack, NEW a \in Types, NEW b \in Types, NEW t \in Results,
           Dereferenced(kind) \subseteq {1, 2},
           1 \in Dereferenced(kind) => a = "node", 2 \in Dereferenced(kind) => b = "node"
    PROVE  Typed(Make(kind, 2), Append(Append(below, a), b), Append(below, t))
<1> DEFINE from == Append(Append(below, a), b)
<1>1. from \in Stack /\ Append(below, t) \in Stack /\ Len(from) = Len(below) + 2
      /\ Len(below) \in Nat /\ from[Len(below) + 1] = a /\ from[Len(below) + 2] = b
  BY DEF Stack, Types, Results
<1>2. SubSeq(from, 1, Len(from) - 2) = below  BY DEF Stack
<1> HIDE DEF from
<1>3. (Len(from) - 2) + 1 = Len(below) + 1 /\ (Len(from) - 2) + 2 = Len(below) + 2
      /\ 2 \in 0..Len(from)
  BY <1>1
<1>4. Made(kind, 2, from, Append(below, t))  BY <1>1, <1>2, <1>3 DEF Made
<1> QED  BY <1>1, <1>4, TypedMake DEF from

LEMMA TypedMake3 ==
    ASSUME NEW kind, kind \notin {"list", "symbol", "null"}, Dereferenced(kind) = {},
           NEW below \in Stack, NEW a \in Types, NEW b \in Types, NEW c \in Types,
           NEW t \in Results
    PROVE  Typed(Make(kind, 3), Append(Append(Append(below, a), b), c), Append(below, t))
<1> DEFINE from == Append(Append(Append(below, a), b), c)
<1>1. from \in Stack /\ Append(below, t) \in Stack /\ Len(from) = Len(below) + 3
      /\ Len(below) \in Nat
  BY DEF Stack, Types, Results
<1>2. SubSeq(from, 1, Len(from) - 3) = below  BY DEF Stack
<1> HIDE DEF from
<1>3. Made(kind, 3, from, Append(below, t))  BY <1>1, <1>2 DEF Made
<1> QED  BY <1>1, <1>3, TypedMake DEF from

LEMMA TypedMake4 ==
    ASSUME NEW kind, kind \notin {"list", "symbol", "null"}, Dereferenced(kind) = {},
           NEW below \in Stack, NEW a \in Types, NEW b \in Types, NEW c \in Types,
           NEW d \in Types, NEW t \in Results
    PROVE  Typed(Make(kind, 4), Append(Append(Append(Append(below, a), b), c), d),
                 Append(below, t))
<1> DEFINE from == Append(Append(Append(Append(below, a), b), c), d)
<1>1. from \in Stack /\ Append(below, t) \in Stack /\ Len(from) = Len(below) + 4
      /\ Len(below) \in Nat
  BY DEF Stack, Types, Results
<1>2. SubSeq(from, 1, Len(from) - 4) = below  BY DEF Stack
<1> HIDE DEF from
<1>3. Made(kind, 4, from, Append(below, t))  BY <1>1, <1>2 DEF Made
<1> QED  BY <1>1, <1>3, TypedMake DEF from

LEMMA Taller ==
    ASSUME NEW from \in Stack, NEW t \in Types \cup Results
    PROVE  Append(from, t) \in Stack
BY DEF Stack, Types, Results

LEMMA TypedRec ==
    ASSUME NEW name \in Recognizers, NEW from \in Stack, NEW t \in Results
    PROVE  Typed(Rec(name), from, Append(from, t))
<1>1. Append(from, t) \in Stack  BY Taller
<1> QED  BY <1>1, TypedCall DEF Call

LEMMA TypedLoop ==
    ASSUME NEW name \in Loops, NEW below \in Stack
    PROVE  Typed(Rec(name), Append(below, "list"), Append(below, "list"))
<1>1. Append(below, "list") \in Stack  BY Taller DEF Types
<1> QED  BY <1>1, TypedCall DEF Call

-----------------------------------------------------------------------------
LEMMA TypedExpression ==
    ASSUME NEW from \in Stack, NEW t \in Results, NEW prec
    PROVE  Typed(RecExpression(prec), from, Append(from, t))
<1>1. Typed(Rec("Term"), from, Append(from, "node"))  BY TypedRec DEF Recognizers, Results
<1>2. Typed(Climb(prec), Append(from, "node"), Append(from, t))  BY TypedClimb
<1> QED  BY <1>1, <1>2, TypedThen DEF RecExpression

LEMMA TypedForLoop ==
    ASSUME NEW from \in Stack, NEW t \in Results
    PROVE  Typed(RecForLoop, from, Append(from, t))
<1> DEFINE a == Append(from, "symbol")
           b == Append(a, "node")
           c == Append(b, "node")
<1>1. a \in Stack /\ b \in Stack /\ c \in Stack  BY Taller DEF Types
<1>2. Typed(Make("for", 3), c, Append(from, t))
  BY TypedMake3 DEF Dereferenced, Types
<1>3. Typed(Symbol, from, a)  BY TypedLeaves
<1>4. Typed(Expect("for"), from, from) /\ Typed(Expect("identifier"), a, a) /\ Typed(Expect("in"), a, a)
  BY <1>1, TypedLeaves
<1>5. Typed(RecExpression(0), a, b)  BY <1>1, TypedExpression DEF Results
<1>6. Typed(Rec("Block"), b, c)  BY <1>1, TypedRec DEF Recognizers, Results
<1> HIDE DEF a, b, c
<1> QED  BY <1>2, <1>3, <1>4, <1>5, <1>6, TypedThen, Zenon DEF RecForLoop

-----------------------------------------------------------------------------
(* Recognizers of types.                                                   *)
LEMMA TypedType ==
    ASSUME NEW from \in Stack, NEW t \in Results
    PROVE  Typed(RecType, from, Append(from, t))
<1> DEFINE a == Append(from, "node")
<1>1. Typed(Take, from, from)  BY TypedLeaves
<1>2. Typed(Rec("Typename"), from, a)  BY TypedRec DEF Recognizers, Results
<1>3. Typed(Make("maybe", 1), a, Append(from, t)) /\ Typed(Make("required", 1), a, Append(from, t))
  BY TypedMake1 DEF Dereferenced, Types
<1> HIDE DEF a
<1> QED  BY <1>1, <1>2, <1>3, TypedThen, TypedWhen, Zenon DEF RecType

LEMMA TypedPrimitive ==
    ASSUME NEW from \in Stack, NEW t \in Results
    PROVE  Typed(RecPrimitive, from, Append(from, t))
<1> DEFINE a == Append(from, "symbol")
<1>1. a \in Stack  BY Taller DEF Types
<1>2. Typed(Make("primitive", 1), a, Append(from, t))
  BY TypedMake1 DEF Dereferenced, Types
<1>3. Typed(Symbol, from, a) /\ Typed(Report, from, Append(from, t))  BY TypedLeaves
<1>4. Typed(ExpectAny(Primitives), a, a)  BY <1>1, TypedLeaves
<1> HIDE DEF a
<1> QED  BY <1>2, <1>3, <1>4, TypedThen, TypedWhen, Zenon DEF RecPrimitive

(* The items of a list, and what stands before each of them.               *)
LEMMA TypedMore ==
    ASSUME NEW below \in Stack, NEW item, NEW name \in Loops,
           Typed(item, Append(below, "list"), Append(Append(below, "list"), "node"))
    PROVE  Typed(More(item, name), Append(below, "list"), Append(below, "list"))
<1> DEFINE a == Append(below, "list")
           b == Append(a, "node")
<1>1. a \in Stack  BY Taller DEF Types
<1>2. Typed(Take, a, a) /\ Typed(<<>>, a, a)  BY <1>1, TypedLeaves, TypedNothing
<1>3. Typed(Add, b, a)  BY TypedAdd DEF Results
<1>4. Typed(Rec(name), a, a)  BY TypedLoop
<1>5. Typed(item, a, b)  OBVIOUS
<1> HIDE DEF a, b
<1>6. Typed(More(item, name), a, a)
  BY <1>2, <1>3, <1>4, <1>5, TypedThen, TypedWhen, Zenon DEF More
<1> QED  BY <1>6 DEF a

LEMMA TypedItem ==
    ASSUME NEW below \in Stack, NEW name \in Recognizers, NEW loop \in Loops
    PROVE  Typed(Then(name, loop), Append(below, "list"), Append(below, "list"))
<1> DEFINE a == Append(below, "list")
           b == Append(a, "node")
<1>1. a \in Stack  BY Taller DEF Types
<1>2. Typed(Terminator, a, a)  BY <1>1, TypedLeaves
<1>3. Typed(Add, b, a)  BY TypedAdd DEF Results
<1>4. Typed(Rec(loop), a, a)  BY TypedLoop
<1>5. Typed(Rec(name), a, b)  BY <1>1, TypedRec DEF Results
<1> HIDE DEF a, b
<1>6. Typed(Then(name, loop), a, a)
  BY <1>2, <1>3, <1>4, <1>5, TypedThen, Zenon DEF Then
<1> QED  BY <1>6 DEF a

LEMMA TypedFuncType ==
    ASSUME NEW from \in Stack, NEW t \in Results
    PROVE  Typed(RecFuncType, from, Append(from, t))
<1> DEFINE a == Append(from, "list")
           b == Append(a, "node")
<1>1. a \in Stack /\ b \in Stack  BY Taller DEF Types
<1>2. Typed(Make("functype", 2), b, Append(from, t))
  BY TypedMake2 DEF Dereferenced, Types
<1>3. Typed(Expect("("), from, from) /\ Typed(NewList, from, a)  BY TypedLeaves
<1>4. Typed(Expect(")"), a, a) /\ Typed(Expect("->"), a, a)  BY <1>1, TypedLeaves
<1>5. Typed(RecType, a, b)  BY <1>1, TypedType DEF Results
<1>6. Typed(Add, b, a)  BY TypedAdd DEF Results
<1>7. Typed(Rec("MoreTypes"), a, a)  BY TypedLoop DEF Loops
<1>8. Typed(<<>>, a, a)  BY <1>1, TypedNothing
<1> HIDE DEF a, b
<1>9. Typed(When(TypeStarts, RecType \o Add \o Rec("MoreTypes"), <<>>), a, a)
  BY <1>5, <1>6, <1>7, <1>8, TypedThen, TypedWhen, Zenon
<1> QED  BY <1>2, <1>3, <1>4, <1>5, <1>9, TypedThen, Zenon DEF RecFuncType

LEMMA TypedArrayType ==
    ASSUME NEW from \in Stack, NEW t \in Results
    PROVE  Typed(RecArrayType, from, Append(from, t))
<1> DEFINE a == Append(from, "node")
<1>1. a \in Stack  BY Taller DEF Types
<1>2. Typed(Make("array", 1), a, Append(from, t))  BY TypedMake1 DEF Dereferenced, Types
<1>3. Typed(Expect("Array"), from, from) /\ Typed(Expect("["), from, from)  BY TypedLeaves
<1>4. Typed(RecType, from, a)  BY TypedType DEF Results
<1>5. Typed(Expect("]"), a, a)  BY <1>1, TypedLeaves
<1> HIDE DEF a
<1> QED  BY <1>2, <1>3, <1>4, <1>5, TypedThen, Zenon DEF RecArrayType

LEMMA TypedMapType ==
    ASSUME NEW from \in Stack, NEW t \in Results
    PROVE  Typed(RecMapType, from, Append(from, t))
<1> DEFINE a == Append(from, "node")
           b == Append(a, "node")
<1>1. a \in Stack /\ b \in Stack  BY Taller DEF Types
<1>2. Typed(Make("map", 2), b, Append(from, t))  BY TypedMake2 DEF Dereferenced, Types
<1>3. Typed(Expect("Map"), from, from) /\ Typed(Expect("["), from, from)  BY TypedLeaves
<1>4. Typed(Rec("Primitive"), from, a)  BY TypedRec DEF Recognizers, Results
<1>5. Typed(Expect(":"), a, a) /\ Typed(Expect("]"), b, b)  BY <1>1, TypedLeaves
<1>6. Typed(RecType, a, b)  BY <1>1, TypedType DEF Results
<1> HIDE DEF a, b
<1> QED  BY <1>2, <1>3, <1>4, <1>5, <1>6, TypedThen, Zenon DEF RecMapType

LEMMA TypedTypename ==
    ASSUME NEW from \in Stack, NEW t \in Results
    PROVE  Typed(RecTypename, from, Append(from, t))
<1> DEFINE a == Append(from, "symbol")
           b == Append(from, t)
<1>1. a \in Stack  BY Taller DEF Types
<1>2. Typed(Make("user", 1), a, b)  BY TypedMake1 DEF Dereferenced, Types
<1>3. Typed(Symbol, from, a) /\ Typed(Report, from, b)  BY TypedLeaves
<1>4. Typed(Expect("identifier"), a, a)  BY <1>1, TypedLeaves
<1>5. \A name \in {"Primitive", "FuncType", "ArrayType", "MapType"} : Typed(Rec(name), from, b)
  BY TypedRec DEF Recognizers
<1>6. /\ Typed(Rec("Primitive"), from, b) /\ Typed(Rec("FuncType"), from, b)
      /\ Typed(Rec("ArrayType"), from, b) /\ Typed(Rec("MapType"), from, b)
  BY <1>5
<1> HIDE DEF a, b
<1>7. Typed(Symbol \o Expect("identifier") \o Make("user", 1), from, b)
  BY <1>2, <1>3, <1>4, TypedThen, Zenon
<1>8. Typed(RecTypename, from, b)  BY <1>3, <1>6, <1>7, TypedWhen, Zenon DEF RecTypename
<1> QED  BY <1>8 DEF b

-----------------------------------------------------------------------------
(* Recognizers of expressions.                                             *)
LEMMA TypedName ==
    ASSUME NEW from \in Stack, NEW t \in Results
    PROVE  Typed(RecName, from, Append(from, t)) /\ Typed(RecFieldAccess, from, Append(from, t))
<1> DEFINE a == Append(from, "symbol")
<1>1. a \in Stack  BY Taller DEF Types
<1>2. Typed(Make("name", 1), a, Append(from, t))  BY TypedMake1 DEF Dereferenced, Types
<1>3. Typed(Symbol, from, a)  BY TypedLeaves
<1>4. Typed(Expect("identifier"), a, a)  BY <1>1, TypedLeaves
<1> HIDE DEF a
<1> QED  BY <1>2, <1>3, <1>4, TypedThen, Zenon DEF RecName, RecFieldAccess

LEMMA TypedExprList ==
    ASSUME NEW from \in Stack
    PROVE  Typed(RecExprList, from, Append(from, "list"))
<1> DEFINE a == Append(from, "list")
           b == Append(a, "node")
<1>1. a \in Stack  BY Taller DEF Types
<1>2. Typed(NewList, from, a)  BY TypedLeaves
<1>3. Typed(RecExpression(0), a, b)  BY <1>1, TypedExpression DEF Results
<1>4. Typed(Add, b, a)  BY TypedAdd DEF Results
<1>5. Typed(Rec("MoreExpressions"), a, a)  BY TypedLoop DEF Loops
<1> HIDE DEF a, b
<1>6. Typed(RecExprList, from, a)
  BY <1>2, <1>3, <1>4, <1>5, TypedThen, Zenon DEF RecExprList
<1> QED  BY <1>6 DEF a

LEMMA TypedFuncCall ==
    ASSUME NEW from \in Stack
    PROVE  Typed(RecFuncCall, from, Append(from, "list"))
<1> DEFINE a == Append(from, "list")
<1>1. a \in Stack  BY Taller DEF Types
<1>2. Typed(NewList, from, a) /\ Typed(RecExprList, from, a)  BY TypedLeaves, TypedExprList
<1>3. Typed(Expect(")"), a, a)  BY <1>1, TypedLeaves
<1> HIDE DEF a
<1>4. Typed(RecFuncCall, from, a)  BY <1>2, <1>3, TypedThen, TypedWhen, Zenon DEF RecFuncCall
<1> QED  BY <1>4 DEF a

LEMMA TypedInitExpr ==
    ASSUME NEW from \in Stack, NEW t \in Results
    PROVE  Typed(RecInitExpr, from, Append(from, t))
<1> DEFINE a == Append(from, "node")
           b == Append(a, "list")
<1>1. a \in Stack /\ b \in Stack  BY Taller DEF Types
<1>2. Typed(Make("init", 2), b, Append(from, t))  BY TypedMake2 DEF Dereferenced, Types
<1>3. Typed(Expect("init"), from, from)  BY TypedLeaves
<1>4. Typed(Rec("Typename"), from, a)  BY TypedRec DEF Recognizers, Results
<1>5. Typed(Take, a, a) /\ Typed(NewList, a, b)  BY <1>1, TypedLeaves
<1>6. Typed(RecExprList, a, b)  BY <1>1, TypedExprList
<1>7. Typed(Expect(")"), b, b)  BY <1>1, TypedLeaves
<1> HIDE DEF a, b
<1>8. Typed(When({"("}, Take \o RecExprList \o Expect(")"), NewList), a, b)
  BY <1>5, <1>6, <1>7, TypedThen, TypedWhen, Zenon
<1> QED  BY <1>2, <1>3, <1>4, <1>8, TypedThen, Zenon DEF RecInitExpr

LEMMA TypedLambda ==
    ASSUME NEW from \in Stack, NEW t \in Results
    PROVE  Typed(RecLambda, from, Append(from, t))
<1> DEFINE a == Append(from, "list")
           b == Append(a, "node")
<1>1. a \in Stack /\ b \in Stack  BY Taller DEF Types
<1>2. Typed(Make("lambda", 2), b, Append(from, t))  BY TypedMake2 DEF Dereferenced, Types
<1>3. Typed(Expect("\\"), from, from) /\ Typed(NewList, from, a)  BY TypedLeaves
<1>4. Typed(RecName, a, b) /\ Typed(RecExpression(0), a, b)
  BY <1>1, TypedName, TypedExpression DEF Results
<1>5. Typed(Add, b, a)  BY TypedAdd DEF Results
<1>6. Typed(Rec("MoreNames"), a, a)  BY TypedLoop DEF Loops
<1>7. Typed(Expect("->"), a, a)  BY <1>1, TypedLeaves
<1> HIDE DEF a, b
<1> QED  BY <1>2, <1>3, <1>4, <1>5, <1>6, <1>7, TypedThen, Zenon DEF RecLambda

LEMMA TypedOperand ==
    ASSUME NEW from \in Stack, NEW t \in Results
    PROVE  Typed(RecOperand, from, Append(from, t))
<1> DEFINE a == Append(from, "symbol")
           b == Append(from, t)
<1>1. a \in Stack /\ b \in Stack  BY Taller DEF Types
<1>2. Typed(Make("constant", 1), a, b)  BY TypedMake1 DEF Dereferenced, Types
<1>3. Typed(Symbol, from, a) /\ Typed(Report, from, b) /\ Typed(Take, from, from)
  BY TypedLeaves
<1>4. Typed(Take, a, a) /\ Typed(Expect(")"), b, b)  BY <1>1, TypedLeaves
<1>5. /\ Typed(RecExpression(0), from, b) /\ Typed(RecLambda, from, b)
      /\ Typed(RecInitExpr, from, b) /\ Typed(RecName, from, b)
  BY TypedExpression, TypedLambda, TypedInitExpr, TypedName
<1> HIDE DEF a, b
<1>6. Typed(Take \o RecExpression(0) \o Expect(")"), from, b)
  BY <1>3, <1>4, <1>5, TypedThen, Zenon
<1>7. Typed(Symbol \o Take \o Make("constant", 1), from, b)
  BY <1>2, <1>3, <1>4, TypedThen, Zenon
<1>8. Typed(RecOperand, from, b)
  BY <1>3, <1>5, <1>6, <1>7, TypedWhen, Zenon DEF RecOperand
<1> QED  BY <1>8 DEF b

LEMMA TypedTerm ==
    ASSUME NEW from \in Stack, NEW t \in Results
    PROVE  Typed(RecTerm, from, Append(from, t))
<1> DEFINE a == Append(from, "symbol")
           b == Append(a, "node")
<1>1. a \in Stack /\ b \in Stack  BY Taller DEF Types
<1>2. Typed(Make("unary", 2), b, Append(from, t))  BY TypedMake2 DEF Dereferenced, Types
<1>3. Typed(Symbol, from, a)  BY TypedLeaves
<1>4. Typed(Take, a, a)  BY <1>1, TypedLeaves
<1>5. Typed(RecOperand, a, b) /\ Typed(RecOperand, from, Append(from, t))
  BY <1>1, TypedOperand DEF Results
<1> HIDE DEF a, b
<1> QED  BY <1>2, <1>3, <1>4, <1>5, TypedThen, TypedWhen, Zenon DEF RecTerm

(* What follows an expression at an operator makes one expression of it.   *)
LEMMA TypedOperation ==
    ASSUME NEW below \in Stack, NEW op \in BinaryOps
    PROVE  Typed(Operation(op), Append(below, "node"), Append(below, "node"))
<1> DEFINE a == Append(below, "node")
           b == Append(a, "node")
           c == Append(a, "list")
           next == IF RightAssoc(op) THEN Precedence(op) ELSE Precedence(op) + 1
<1>1. a \in Stack /\ b \in Stack  BY Taller DEF Types
<1>2. op \notin {"list", "symbol", "null", "maybe", "required", "call", "unary", "apply", "index"}
  BY DEF BinaryOps, OperatorsAt
<1>3. /\ \A kind \in {op, ".", "index", "apply"} : Typed(Make(kind, 2), b, a)
      /\ Typed(Make("call", 2), c, a)
  BY <1>2, TypedMake2 DEF Dereferenced, Types, Results
<1>4. /\ \A prec : Typed(RecExpression(prec), a, b)
      /\ Typed(RecFieldAccess, a, b) /\ Typed(RecFuncCall, a, c)
  BY <1>1, TypedExpression, TypedName, TypedFuncCall DEF Results
<1>5. Typed(Expect("]"), b, b)  BY <1>1, TypedLeaves
<1> HIDE DEF a, b, c
<1>6. Typed(RecSubscript, a, b)  BY <1>4, <1>5, TypedThen, Zenon DEF RecSubscript
<1>7. /\ Typed(RecFuncCall \o Make("call", 2), a, a)
      /\ Typed(RecSubscript \o Make("index", 2), a, a)
      /\ Typed(RecFieldAccess \o Make(".", 2), a, a)
      /\ Typed(RecExpression(next) \o Make("apply", 2), a, a)
      /\ Typed(RecExpression(next) \o Make(op, 2), a, a)
  BY <1>3, <1>4, <1>6, TypedThen
<1>8. \/ Operation(op) = RecFuncCall \o Make("call", 2)
      \/ Operation(op) = RecSubscript \o Make("index", 2)
      \/ Operation(op) = RecFieldAccess \o Make(".", 2)
      \/ Operation(op) = RecExpression(next) \o Make("apply", 2)
      \/ Operation(op) = RecExpression(next) \o Make(op, 2)
  BY DEF Operation
<1>9. Typed(Operation(op), a, a)  BY <1>7, <1>8
<1> QED  BY <1>9 DEF a

-----------------------------------------------------------------------------
(* Recognizers of statements.                                              *)
LEMMA TypedBlock ==
    ASSUME NEW from \in Stack, NEW t \in Results
    PROVE  Typed(RecBlock, from, Append(from, t))
<1> DEFINE a == Append(from, "list")
<1>1. a \in Stack  BY Taller DEF Types
<1>2. Typed(Make("block", 1), a, Append(from, t))  BY TypedMake1 DEF Dereferenced, Types
<1>3. Typed(NewList, from, a)  BY TypedLeaves
<1>4. Typed(Expect("{"), a, a) /\ Typed(Expect("}"), a, a)  BY <1>1, TypedLeaves
<1>5. Typed(Rec("BlockItems"), a, a)  BY TypedLoop DEF Loops
<1> HIDE DEF a
<1> QED  BY <1>2, <1>3, <1>4, <1>5, TypedThen, Zenon DEF RecBlock

LEMMA TypedItems ==
    ASSUME NEW below \in Stack
    PROVE  /\ Typed(BlockItems, Append(below, "list"), Append(below, "list"))
           /\ Typed(ProgramItems, Append(below, "list"), Append(below, "list"))
<1> DEFINE a == Append(below, "list")
<1>1. Typed(<<>>, a, a)  BY Taller, TypedNothing DEF Types
<1>2. /\ Typed(Then("VarDecl", "BlockItems"), a, a)
      /\ Typed(Then("FuncDecl", "BlockItems"), a, a)
      /\ Typed(Then("Statement", "BlockItems"), a, a)
      /\ Typed(Then("VarDecl", "ProgramItems"), a, a)
      /\ Typed(Then("TypeDecl", "ProgramItems"), a, a)
      /\ Typed(Then("FuncDecl", "ProgramItems"), a, a)
      /\ Typed(Then("Statement", "ProgramItems"), a, a)
  BY TypedItem DEF Recognizers, Loops
<1> HIDE DEF a
<1>3. Typed(BlockItems, a, a) /\ Typed(ProgramItems, a, a)
  BY <1>1, <1>2, TypedWhen, Zenon DEF BlockItems, ProgramItems
<1> QED  BY <1>3 DEF a

LEMMA TypedIfStatement ==
    ASSUME NEW from \in Stack, NEW t \in Results
    PROVE  Typed(RecIfStatement, from, Append(from, t))
<1> DEFINE a == Append(from, "node")
           b == Append(a, "node")
           c == Append(b, "optional")
<1>1. a \in Stack /\ b \in Stack /\ c \in Stack  BY Taller DEF Types
<1>2. Typed(Make("if", 3), c, Append(from, t))  BY TypedMake3 DEF Dereferenced, Types
<1>3. Typed(Expect("if"), from, from)  BY TypedLeaves
<1>4. Typed(RecExpression(0), from, a)  BY TypedExpression DEF Results
<1>5. Typed(Rec("Block"), a, b) /\ Typed(Rec("Block"), b, c) /\ Typed(Rec("IfStatement"), b, c)
  BY <1>1, TypedRec DEF Recognizers, Results
<1>6. Typed(Take, b, b) /\ Typed(Push(Null), b, c) /\ Typed(Report, b, c)
  BY <1>1, TypedLeaves DEF Results
<1> HIDE DEF a, b, c
<1>7. Typed(Take \o When({"{"}, Rec("Block"), When({"if"}, Rec("IfStatement"), Report)), b, c)
  BY <1>5, <1>6, TypedThen, TypedWhen, Zenon
<1>8. Typed(When({"else"}, Take \o When({"{"}, Rec("Block"),
                                   When({"if"}, Rec("IfStatement"), Report)),
                 Push(Null)), b, c)
  BY <1>6, <1>7, TypedWhen, Zenon
<1> QED  BY <1>2, <1>3, <1>4, <1>5, <1>8, TypedThen, Zenon DEF RecIfStatement

LEMMA TypedWhileLoop ==
    ASSUME NEW from \in Stack, NEW t \in Results
    PROVE  Typed(RecWhileLoop, from, Append(from, t))
<1> DEFINE a == Append(from, "node")
           b == Append(a, "node")
<1>1. a \in Stack /\ b \in Stack  BY Taller DEF Types
<1>2. Typed(Make("while", 2), b, Append(from, t))  BY TypedMake2 DEF Dereferenced, Types
<1>3. Typed(Expect("while"), from, from)  BY TypedLeaves
<1>4. Typed(RecExpression(0), from, a)  BY TypedExpression DEF Results
<1>5. Typed(Rec("Block"), a, b)  BY <1>1, TypedRec DEF Recognizers, Results
<1> HIDE DEF a, b
<1> QED  BY <1>2, <1>3, <1>4, <1>5, TypedThen, Zenon DEF RecWhileLoop

LEMMA TypedStatement ==
    ASSUME NEW from \in Stack, NEW t \in Results
    PROVE  Typed(RecStatement, from, Append(from, t))
<1> DEFINE a == Append(from, "optional")
           b == Append(from, t)
<1>1. /\ Typed(Make("return", 1), a, b)
      /\ Typed(Make("break", 0), from, b) /\ Typed(Make("continue", 0), from, b)
  BY TypedMake0, TypedMake1 DEF Dereferenced, Types
<1>2. /\ Typed(Expect("return"), from, from) /\ Typed(Take, from, from)
      /\ Typed(Push(Null), from, a) /\ Typed(Report, from, b)
  BY TypedLeaves
<1>3. Typed(RecExpression(0), from, a) /\ Typed(RecExpression(0), from, b)
  BY TypedExpression DEF Results
<1>4. Typed(Rec("Block"), from, b) /\ Typed(Rec("IfStatement"), from, b)
  BY TypedRec DEF Recognizers
<1>5. Typed(RecForLoop, from, b) /\ Typed(RecWhileLoop, from, b)
  BY TypedForLoop, TypedWhileLoop
<1> HIDE DEF a, b
<1>6. Typed(RecConditional, from, b)
  BY <1>2, <1>4, <1>5, TypedWhen, Zenon DEF RecConditional
<1>7. Typed(RecFlowStatement, from, b)
  BY <1>1, <1>2, TypedThen, TypedWhen, Zenon DEF RecFlowStatement
<1>8. Typed(RecReturnStatement, from, b)
  BY <1>1, <1>2, <1>3, TypedThen, TypedWhen, Zenon DEF RecReturnStatement
<1>9. Typed(RecStatement, from, b)
  BY <1>2, <1>3, <1>4, <1>6, <1>7, <1>8, TypedWhen, Zenon DEF RecStatement
<1> QED  BY <1>9 DEF b

-----------------------------------------------------------------------------
(* Recognizers of declarations.                                            *)
LEMMA TypedVarDecl ==
    ASSUME NEW from \in Stack, NEW t \in Results
    PROVE  Typed(RecVarDecl, from, Append(from, t))
<1> DEFINE a == Append(from, "symbol")
           b == Append(a, "optional")
           c == Append(from, t)
           d == Append(c, "node")
<1>1. a \in Stack /\ b \in Stack /\ c \in Stack /\ d \in Stack  BY Taller DEF Types
<1>2. Typed(Make("var", 2), b, c) /\ Typed(Make("=", 2), d, c)
  BY TypedMake2 DEF Dereferenced, Types, Results
<1>3. Typed(Expect("var"), from, from) /\ Typed(Symbol, from, a)  BY TypedLeaves
<1>4. Typed(Expect("identifier"), a, a) /\ Typed(Take, a, a) /\ Typed(Push(Null), a, b)
      /\ Typed(Take, c, c) /\ Typed(<<>>, c, c)
  BY <1>1, TypedLeaves, TypedNothing
<1>5. Typed(RecType, a, b) /\ Typed(RecExpression(0), c, d)
  BY <1>1, TypedType, TypedExpression DEF Results
<1> HIDE DEF a, b, c, d
<1>6. Typed(When({":"}, Take \o RecType, Push(Null)), a, b)
  BY <1>4, <1>5, TypedThen, TypedWhen, Zenon
<1>7. Typed(When({"="}, Take \o RecExpression(0) \o Make("=", 2), <<>>), c, c)
  BY <1>2, <1>4, <1>5, TypedThen, TypedWhen, Zenon
<1>8. Typed(RecVarDecl, from, c)
  BY <1>2, <1>3, <1>4, <1>6, <1>7, TypedThen, Zenon DEF RecVarDecl
<1> QED  BY <1>8 DEF c

LEMMA TypedParameters ==
    ASSUME NEW below \in Stack
    PROVE  Typed(RecParameters, Append(below, "list"), Append(below, "list"))
<1> DEFINE a == Append(below, "list")
           b == Append(a, "symbol")
           c == Append(b, "node")
           d == Append(a, "node")
<1>1. a \in Stack /\ b \in Stack /\ c \in Stack /\ d \in Stack  BY Taller DEF Types
<1>2. Typed(Make("var", 2), c, d)  BY <1>1, TypedMake2 DEF Dereferenced, Types, Results
<1>3. Typed(Symbol, a, b) /\ Typed(Expect("identifier"), b, b) /\ Typed(Expect(":"), b, b)
      /\ Typed(Take, a, a) /\ Typed(<<>>, a, a)
  BY <1>1, TypedLeaves, TypedNothing
<1>4. Typed(RecType, b, c)  BY <1>1, TypedType DEF Results
<1>5. Typed(Add, d, a)  BY TypedAdd DEF Results
<1>6. Typed(Rec("Parameters"), a, a)  BY TypedLoop DEF Loops
<1> HIDE DEF a, b, c, d
<1>7. Typed(Parameter, a, d)  BY <1>2, <1>3, <1>4, TypedThen, Zenon DEF Parameter
<1>8. Typed(When({","}, Take \o Rec("Parameters"), <<>>), a, a)
  BY <1>3, <1>6, TypedThen, TypedWhen, Zenon
<1>9. Typed(RecParameters, a, a)
  BY <1>5, <1>7, <1>8, TypedThen, Zenon DEF RecParameters
<1> QED  BY <1>9 DEF a

LEMMA TypedFuncDecl ==
    ASSUME NEW from \in Stack, NEW t \in Results
    PROVE  Typed(RecFuncDecl, from, Append(from, t))
<1> DEFINE a == Append(from, "symbol")
           b == Append(a, "list")
           c == Append(b, "optional")
           d == Append(c, "node")
<1>1. a \in Stack /\ b \in Stack /\ c \in Stack /\ d \in Stack  BY Taller DEF Types
<1>2. Typed(Make("fun", 4), d, Append(from, t))  BY TypedMake4 DEF Dereferenced, Types
<1>3. Typed(Expect("fun"), from, from) /\ Typed(Symbol, from, a)  BY TypedLeaves
<1>4. Typed(Expect("identifier"), a, a) /\ Typed(Expect("="), a, a) /\ Typed(Take, a, a)
      /\ Typed(NewList, a, b) /\ Typed(Expect(")"), b, b) /\ Typed(<<>>, b, b)
      /\ Typed(Take, b, b) /\ Typed(Push(Null), b, c)
  BY <1>1, TypedLeaves, TypedNothing
<1>5. Typed(Rec("Parameters"), b, b)  BY <1>1, TypedLoop DEF Loops
<1>6. Typed(RecType, b, c)  BY <1>1, TypedType DEF Results
<1>7. Typed(Rec("Block"), c, d)  BY <1>1, TypedRec DEF Recognizers, Results
<1> HIDE DEF a, b, c, d
<1>8. Typed(When({"identifier"}, Rec("Parameters"), <<>>), b, b)
  BY <1>4, <1>5, TypedWhen, Zenon
<1>9. Typed(When({"("}, Take \o NewList \o When({"identifier"}, Rec("Parameters"), <<>>)
                        \o Expect(")"), NewList), a, b)
  BY <1>4, <1>8, TypedThen, TypedWhen, Zenon
<1>10. Typed(When({"->"}, Take \o RecType, Push(Null)), b, c)
  BY <1>4, <1>6, TypedThen, TypedWhen, Zenon
<1>11. Typed(RecFuncLiteral, a, Append(from, t))
  BY <1>2, <1>7, <1>9, <1>10, TypedThen, Zenon DEF RecFuncLiteral
<1> QED  BY <1>3, <1>4, <1>11, TypedThen, Zenon DEF RecFuncDecl

(* The members of a type go to the list, an initialiser below it.          *)
LEMMA TypedMembers ==
    ASSUME NEW below \in Stack
    PROVE  LET a == Append(Append(below, "optional"), "list")
           IN  Typed(Rec("TypeMembers"), a, a) /\ Typed(TypeMembers, a, a)
<1> DEFINE a == Append(Append(below, "optional"), "list")
           b == Append(a, "node")
<1>1. a \in Stack  BY Taller DEF Types
<1>2. Typed(Rec("TypeMembers"), a, a)  BY <1>1, TypedCall DEF Call
<1>3. Typed(Rec("VarDecl"), a, b) /\ Typed(Rec("Block"), a, b)
  BY <1>1, TypedRec DEF Recognizers, Results
<1>4. Typed(Expect("init"), a, a) /\ Typed(Terminator, a, a) /\ Typed(<<>>, a, a)
  BY <1>1, TypedLeaves, TypedNothing
<1>5. Typed(Add, b, a)  BY Taller, TypedAdd DEF Types, Results
<1>6. Typed(SetInit, b, a)  BY TypedSetInit
<1> HIDE DEF a, b
<1>7. Typed(RecTypeInitDecl \o SetInit, a, a)
  BY <1>3, <1>4, <1>6, TypedThen, Zenon DEF RecTypeInitDecl
<1>8. Typed(When({"var"}, Rec("VarDecl") \o Add, When({"init"}, RecTypeInitDecl \o SetInit, <<>>)),
            a, a)
  BY <1>3, <1>4, <1>5, <1>7, TypedThen, TypedWhen, Zenon
<1>9. Typed(When({"var", "init"}, Rec("TypeMembers"), <<>>), a, a)
  BY <1>2, <1>4, TypedWhen, Zenon
<1>10. Typed(TypeMembers, a, a)  BY <1>4, <1>8, <1>9, TypedThen, Zenon DEF TypeMembers
<1> QED  BY <1>2, <1>10 DEF a

LEMMA TypedTypeDecl ==
    ASSUME NEW from \in Stack, NEW t \in Results
    PROVE  Typed(RecTypeDecl, from, Append(from, t))
<1> DEFINE a == Append(from, "symbol")
           b == Append(a, "optional")
           c == Append(b, "list")
<1>1. a \in Stack /\ b \in Stack /\ c \in Stack  BY Taller DEF Types
<1>2. Typed(Make("type", 3), c, Append(from, t))  BY TypedMake3 DEF Dereferenced, Types
<1>3. Typed(Expect("type"), from, from) /\ Typed(Symbol, from, a)  BY TypedLeaves
<1>4. Typed(Expect("identifier"), a, a) /\ Typed(Push(Null), a, b) /\ Typed(NewList, b, c)
      /\ Typed(Expect("{"), c, c) /\ Typed(Expect("}"), c, c)
  BY <1>1, TypedLeaves
<1>5. Typed(Rec("TypeMembers"), c, c)  BY <1>1, TypedMembers
<1> HIDE DEF a, b, c
<1> QED  BY <1>2, <1>3, <1>4, <1>5, TypedThen, Zenon DEF RecTypeDecl

-----------------------------------------------------------------------------
(* Every recognizer does what its callers rely on.                         *)
LEMMA TypedBody ==
    ASSUME NEW name, NEW from \in Stack, NEW to \in Stack, Call(name, from, to)
    PROVE  Typed(Body(name), from, to)
<1>1. CASE name \in Loops
  <2>1. PICK below \in Stack : from = Append(below, "list") /\ to = from
    BY <1>1 DEF Call, Loops, Recognizers
  <2>2. Typed(ProgramItems, from, to) /\ Typed(BlockItems, from, to)
        /\ Typed(RecParameters, from, to)
    BY <2>1, TypedItems, TypedParameters
  <2>3. Typed(RecExpression(0), from, Append(from, "node"))
        /\ Typed(RecName, from, Append(from, "node")) /\ Typed(RecType, from, Append(from, "node"))
    BY TypedExpression, TypedName, TypedType DEF Results
  <2>4. Typed(More(RecExpression(0), "MoreExpressions"), from, to)
        /\ Typed(More(RecName, "MoreNames"), from, to) /\ Typed(More(RecType, "MoreTypes"), from, to)
    BY <2>1, <2>3, TypedMore DEF Loops
  <2> QED  BY <1>1, <2>2, <2>4 DEF Body, Loops
<1>2. CASE name = "TypeMembers"
  <2>1. PICK below \in Stack : from = Append(Append(below, "optional"), "list") /\ to = from
    BY <1>2 DEF Call, Loops, Recognizers
  <2> QED  BY <1>2, <2>1, TypedMembers DEF Body
<1>3. CASE name \in Recognizers
  <2>1. PICK t \in Results : to = Append(from, t)
    BY <1>3 DEF Call, Loops, Recognizers
  <2>2. /\ Typed(RecTypeDecl, from, to) /\ Typed(RecVarDecl, from, to)
        /\ Typed(RecFuncDecl, from, to) /\ Typed(RecBlock, from, to)
        /\ Typed(RecStatement, from, to) /\ Typed(RecIfStatement, from, to)
        /\ Typed(RecTerm, from, to) /\ Typed(RecTypename, from, to)
        /\ Typed(RecPrimitive, from, to) /\ Typed(RecFuncType, from, to)
        /\ Typed(RecArrayType, from, to) /\ Typed(RecMapType, from, to)
    BY <2>1, TypedTypeDecl, TypedVarDecl, TypedFuncDecl, TypedBlock, TypedStatement,
       TypedIfStatement, TypedTerm, TypedTypename, TypedPrimitive, TypedFuncType,
       TypedArrayType, TypedMapType
  <2> QED  BY <1>3, <2>2 DEF Body, Recognizers
<1> QED  BY <1>1, <1>2, <1>3 DEF Call

-----------------------------------------------------------------------------
(* The values on the stack are as they were typed: a node typed as there   *)
(* is missing only after an error.                                         *)
Matches(value, t, errors) ==
    /\ value[1] = "list" <=> t = "list"
    /\ value[1] = "symbol" <=> t = "symbol"
    /\ t = "node" /\ errors = 0 => value[1] # "null"

Fits(values, stack, errors) ==
    /\ \E V : values \in Seq(V)
    /\ Len(values) = Len(stack)
    /\ \A i \in 1..Len(stack) : Matches(values[i], stack[i], errors)

LEMMA MatchesResult ==
    ASSUME NEW value, NEW a \in Results, NEW t \in Results, NEW errors,
           Matches(value, a, errors), a = "node" \/ errors # 0
    PROVE  Matches(value, t, errors)
BY DEF Matches, Results

LEMMA FitsMore ==
    ASSUME NEW values, NEW stack, NEW errors, NEW more,
           Fits(values, stack, errors), more = errors \/ more # 0
    PROVE  Fits(values, stack, more)
<1>1. ASSUME NEW i \in 1..Len(stack) PROVE Matches(values[i], stack[i], more)
  <2>1. Matches(values[i], stack[i], errors)  BY DEF Fits
  <2> QED  BY <2>1 DEF Matches
<1> QED  BY <1>1 DEF Fits

LEMMA FitsPush ==
    ASSUME NEW values, NEW stack \in Stack, NEW errors, NEW value, NEW t \in Types,
           Fits(values, stack, errors), Matches(value, t, errors)
    PROVE  Fits(Append(values, value), Append(stack, t), errors)
<1>1. PICK V : values \in Seq(V)  BY DEF Fits
<1> DEFINE W == V \cup {value}
           n == Len(values)
           taller == Append(stack, t)
           longer == Append(values, value)
<1>2. values \in Seq(W) /\ n \in Nat  BY <1>1, SeqMonotonic, LenProperties
<1>3. longer \in Seq(W) /\ Len(longer) = n + 1 /\ longer[n + 1] = value
      /\ \A i \in 1..n : longer[i] = values[i]
  BY <1>2, AppendProperties
<1>4. n = Len(stack) /\ \A i \in 1..n : Matches(values[i], stack[i], errors)  BY DEF Fits
<1>5. Len(taller) = n + 1 /\ taller[n + 1] = t /\ \A i \in 1..n : taller[i] = stack[i]
  BY <1>4, AppendProperties DEF Stack
<1> HIDE DEF n, taller, longer, W
<1>6. ASSUME NEW i \in 1..(n + 1) PROVE Matches(longer[i], taller[i], errors)
  <2>1. CASE i = n + 1  BY <1>3, <1>5, <2>1
  <2>2. CASE i # n + 1
    <3>1. i \in 1..n  BY <1>2, <2>2
    <3> QED  BY <1>3, <1>4, <1>5, <3>1
  <2> QED  BY <2>1, <2>2
<1>7. Fits(longer, taller, errors)  BY <1>3, <1>5, <1>6 DEF Fits
<1> QED  BY <1>7 DEF longer, taller

LEMMA FitsShort ==
    ASSUME NEW values, NEW stack \in Stack, NEW errors, NEW k \in 0..Len(stack),
           Fits(values, stack, errors)
    PROVE  Fits(SubSeq(values, 1, k), SubSeq(stack, 1, k), errors)
<1>1. PICK V : values \in Seq(V)  BY DEF Fits
<1>2. Len(stack) \in Nat /\ Len(values) = Len(stack)  BY LenProperties DEF Fits, Stack
<1>3. (\A i \in 1..k : values[i] \in V) /\ (\A i \in 1..k : stack[i] \in Types)
  BY <1>1, <1>2, ElementOfSeq DEF Stack
<1>4. /\ SubSeq(values, 1, k) \in Seq(V) /\ Len(SubSeq(values, 1, k)) = k
      /\ \A i \in 1..k : SubSeq(values, 1, k)[i] = values[i]
  BY <1>2, <1>3, SubSeqProperties
<1>5. /\ Len(SubSeq(stack, 1, k)) = k
      /\ \A i \in 1..k : SubSeq(stack, 1, k)[i] = stack[i]
  BY <1>2, <1>3, SubSeqProperties
<1>6. \A i \in 1..k : Matches(values[i], stack[i], errors)  BY <1>2 DEF Fits
<1> QED  BY <1>4, <1>5, <1>6 DEF Fits

(* What is under the top value.                                            *)
LEMMA FitsPop ==
    ASSUME NEW values, NEW stack \in Stack, NEW errors, NEW t \in Types,
           Fits(values, Append(stack, t), errors)
    PROVE  LET n == Len(values)
           IN  /\ n \in Nat \ {0} /\ n = Len(stack) + 1
               /\ Matches(values[n], t, errors)
               /\ Fits(SubSeq(values, 1, n - 1), stack, errors)
<1> DEFINE n == Len(values)
           taller == Append(stack, t)
<1>1. /\ taller \in Stack /\ Len(taller) = Len(stack) + 1 /\ taller[Len(stack) + 1] = t
      /\ Len(stack) \in Nat /\ \A i \in 1..Len(stack) : taller[i] = stack[i]
  BY AppendProperties, LenProperties DEF Stack
<1>2. SubSeq(taller, 1, Len(stack)) = stack  BY DEF Stack
<1>3. n = Len(stack) + 1 /\ n \in Nat \ {0} /\ n - 1 = Len(stack) /\ n \in 1..Len(taller)
      /\ Len(stack) \in 0..Len(taller)
  BY <1>1 DEF Fits
<1> HIDE DEF taller
<1>4. Fits(values, taller, errors)  BY DEF taller
<1>5. Matches(values[n], t, errors)  BY <1>1, <1>3, <1>4 DEF Fits
<1>6. Fits(SubSeq(values, 1, Len(stack)), stack, errors)  BY <1>1, <1>2, <1>3, <1>4, FitsShort
<1> QED  BY <1>3, <1>5, <1>6

(* An item goes to the list under it, an initialiser under the list.       *)
LEMMA FitsAdd ==
    ASSUME NEW values, NEW below \in Stack, NEW errors, NEW t \in Results,
           Fits(values, Append(Append(below, "list"), t), errors)
    PROVE  LET n == Len(values)
           IN  Fits(SubSeq(values, 1, n - 2) \o <<ListAdd(values[n - 1], values[n])>>,
                    Append(below, "list"), errors)
<1> DEFINE n == Len(values)
           rest == SubSeq(values, 1, n - 1)
           list == ListAdd(values[n - 1], values[n])
<1>1. PICK V : values \in Seq(V)  BY DEF Fits
<1>2. Append(below, "list") \in Stack /\ t \in Types /\ "list" \in Types
  BY Taller DEF Types, Results
<1>3. n \in Nat \ {0} /\ n = Len(Append(below, "list")) + 1 /\ Fits(rest, Append(below, "list"), errors)
  BY <1>2, FitsPop
<1>4. Len(rest) = n - 1 /\ \A i \in 1..(n - 1) : rest[i] = values[i]
  BY <1>1, <1>3, SubSeqProperties
<1> HIDE DEF rest
<1>5. /\ Len(rest) \in Nat \ {0} /\ Matches(rest[Len(rest)], "list", errors)
      /\ Fits(SubSeq(rest, 1, Len(rest) - 1), below, errors)
  BY <1>2, <1>3, FitsPop
<1>6. n - 1 \in 1..(n - 1) /\ Len(rest) - 1 = n - 2  BY <1>3, <1>4, <1>5
<1>7. values[n - 1][1] = "list"  BY <1>4, <1>5, <1>6 DEF Matches
<1>8. SubSeq(rest, 1, n - 2) = SubSeq(values, 1, n - 2)
  BY <1>1, <1>3, <1>4, <1>5 DEF rest
<1>9. list[1] = "list"  BY <1>7 DEF ListAdd
<1>10. Matches(list, "list", errors)  BY <1>9 DEF Matches
<1> HIDE DEF list
<1>11. Fits(Append(SubSeq(values, 1, n - 2), list), Append(below, "list"), errors)
  BY <1>2, <1>5, <1>6, <1>8, <1>10, FitsPush
<1>12. Append(SubSeq(values, 1, n - 2), list) = SubSeq(values, 1, n - 2) \o <<list>>
  <2>1. n - 2 \in Int /\ \A i \in 1..(n - 2) : values[i] \in V
    BY <1>1, <1>3, ElementOfSeq
  <2>2. SubSeq(values, 1, n - 2) \in Seq(V)  BY <1>3, <2>1, SubSeqProperties
  <2>3. SubSeq(values, 1, n - 2) \in Seq(V \cup {list})  BY <2>2, SeqMonotonic
  <2> HIDE DEF n
  <2> QED  BY <2>3, AppendIsConcat
<1> QED  BY <1>11, <1>12 DEF list

LEMMA FitsInit ==
    ASSUME NEW values, NEW below \in Stack, NEW errors,
           Fits(values, Append(Append(Append(below, "optional"), "list"), "node"), errors)
    PROVE  LET n == Len(values)
           IN  Fits(SubSeq(values, 1, n - 3) \o <<values[n], values[n - 1]>>,
                    Append(Append(below, "optional"), "list"), errors)
<1> DEFINE n == Len(values)
           m == Len(below)
           from == Append(Append(Append(below, "optional"), "list"), "node")
           to == Append(Append(below, "optional"), "list")
           rest == SubSeq(values, 1, n - 3)
           two == <<values[n], values[n - 1]>>
           new == rest \o two
<1>1. PICK V : values \in Seq(V)  BY DEF Fits
<1>2. /\ m \in Nat /\ Len(from) = m + 3 /\ Len(to) = m + 2
      /\ \A i \in 1..m : from[i] = below[i] /\ to[i] = below[i]
      /\ from[m + 2] = "list" /\ from[m + 3] = "node"
      /\ to[m + 1] = "optional" /\ to[m + 2] = "list"
  BY DEF Stack, Types
<1> HIDE DEF from, to
<1>3. Fits(values, from, errors)  BY DEF from
<1>4. n = m + 3 /\ \A i \in 1..(m + 3) : Matches(values[i], from[i], errors)
  BY <1>2, <1>3 DEF Fits
<1>5. /\ rest \in Seq(V) /\ Len(rest) = m /\ \A i \in 1..m : rest[i] = values[i]
  <2>1. n - 3 = m /\ \A i \in 1..m : values[i] \in V  BY <1>1, <1>2, <1>4, ElementOfSeq
  <2> QED  BY <1>2, <2>1, SubSeqProperties
<1>6. two \in Seq(V) /\ Len(two) = 2 /\ two[1] = values[m + 3] /\ two[2] = values[m + 2]
  <2>1. n \in 1..n /\ n - 1 \in 1..n /\ n = m + 3 /\ n - 1 = m + 2  BY <1>2, <1>4
  <2>2. values[n] \in V /\ values[n - 1] \in V  BY <1>1, <2>1, ElementOfSeq
  <2> HIDE DEF n
  <2> QED  BY <2>1, <2>2
<1> HIDE DEF rest, two, n, m
<1>7. new \in Seq(V) /\ Len(new) = m + 2
      /\ \A i \in 1..(m + 2) : new[i] = IF i <= m THEN rest[i] ELSE two[i - m]
  <2>1. new \in Seq(V) /\ Len(new) = Len(rest) + Len(two)
        /\ \A i \in 1..(Len(rest) + Len(two)) :
              new[i] = IF i <= Len(rest) THEN rest[i] ELSE two[i - Len(rest)]
    BY <1>5, <1>6, ConcatProperties, Zenon
  <2> HIDE DEF new
  <2> QED  BY <1>2, <1>5, <1>6, <2>1
<1> HIDE DEF new
<1>8. new[m + 1] = values[m + 3] /\ new[m + 2] = values[m + 2]
      /\ \A i \in 1..m : new[i] = values[i]
  <2>1. m + 1 \in 1..(m + 2) /\ m + 2 \in 1..(m + 2) /\ (m + 1) - m = 1 /\ (m + 2) - m = 2
        /\ ~(m + 1 <= m) /\ ~(m + 2 <= m) /\ \A i \in 1..m : i \in 1..(m + 2) /\ i <= m
    BY <1>2
  <2>2. new[m + 1] = two[1] /\ new[m + 2] = two[2]  BY <1>7, <2>1
  <2> QED  BY <1>5, <1>6, <1>7, <2>1, <2>2
<1>9. ASSUME NEW i \in 1..(m + 2) PROVE Matches(new[i], to[i], errors)
  <2>1. CASE i = m + 1
    <3>1. Matches(values[m + 3], "node", errors)  BY <1>2, <1>4
    <3>2. Matches(values[m + 3], "optional", errors)  BY <3>1 DEF Matches
    <3> QED  BY <1>2, <1>8, <2>1, <3>2
  <2>2. CASE i = m + 2
    <3>1. Matches(values[m + 2], "list", errors)  BY <1>2, <1>4
    <3> QED  BY <1>2, <1>8, <2>2, <3>1
  <2>3. CASE i \in 1..m
    <3>1. i \in 1..(m + 3)  BY <1>2
    <3> QED  BY <1>2, <1>4, <1>8, <2>3, <3>1
  <2> QED  BY <1>2, <2>1, <2>2, <2>3
<1>10. Fits(new, to, errors)  BY <1>2, <1>7, <1>9 DEF Fits
<1>11. new = SubSeq(values, 1, Len(values) - 3) \o <<values[Len(values)], values[Len(values) - 1]>>
  BY DEF new, rest, two, n
<1> QED  BY <1>10, <1>11 DEF to

LEMMA NodeKind ==
    ASSUME NEW kind, kind \notin {"required", "apply"}, NEW n \in Nat, NEW children,
           children = [i \in 1..n |-> children[i]]
    PROVE  Node(kind, children)[1] = kind
<1> DEFINE W == {kind} \cup {children[i] : i \in 1..n}
           first == <<kind>>
<1>1. first \in Seq(W) /\ Len(first) = 1 /\ first[1] = kind  OBVIOUS
<1>2. children \in Seq(W) /\ Len(children) = n
  <2>1. children \in [1..n -> W]  OBVIOUS
  <2> HIDE DEF W
  <2> QED  BY <2>1
<1>3. Node(kind, children) = first \o children  BY DEF Node
<1> HIDE DEF first, W
<1>4. 1 \in 1..(Len(first) + Len(children)) /\ 1 <= Len(first)  BY <1>1, <1>2
<1>5. (first \o children)[1] = IF 1 <= Len(first) THEN first[1] ELSE children[1 - Len(first)]
  BY <1>1, <1>2, <1>4, ConcatProperties, Zenon
<1> QED  BY <1>1, <1>3, <1>4, <1>5

(* Without an error, the children a builder reads are there, and what it   *)
(* builds is a node.                                                       *)
LEMMA FitsMake ==
    ASSUME NEW values, NEW from \in Stack, NEW to, NEW errors \in Nat, NEW kind, NEW n,
           Fits(values, from, errors), Made(kind, n, from, to)
    PROVE  LET kept     == Len(values) - n
               children == [i \in 1..n |-> Stored(values[kept + i])]
           IN  /\ (\E i \in Dereferenced(kind) : children[i] = Null) => errors > 0
               /\ Fits(SubSeq(values, 1, kept) \o <<Node(kind, children)>>, to, errors)
<1> DEFINE kept     == Len(values) - n
           children == [i \in 1..n |-> Stored(values[kept + i])]
           node     == Node(kind, children)
           rest     == SubSeq(values, 1, kept)
<1>1. PICK V : values \in Seq(V)  BY DEF Fits
<1>2. PICK t \in Results : to = Append(SubSeq(from, 1, Len(from) - n), t)  BY DEF Made
<1>3. Len(values) = Len(from) /\ Len(from) \in Nat /\ n \in 0..Len(from)
      /\ kept \in 0..Len(from) /\ kept = Len(from) - n
  BY LenProperties DEF Fits, Made, Stack
<1>4. ASSUME NEW i \in Dereferenced(kind)
      PROVE  /\ i \in 1..n /\ children[i] = values[kept + i]
             /\ Matches(values[kept + i], "node", errors)
             /\ errors = 0 => children[i] # Null
  <2>1. i \in 1..n /\ from[(Len(from) - n) + i] = "node" /\ (Len(from) - n) + i \in 1..Len(from)
    BY <1>3 DEF Made
  <2>2. Matches(values[(Len(from) - n) + i], "node", errors)  BY <2>1 DEF Fits
  <2>3. Matches(values[kept + i], "node", errors)  BY <1>3, <2>2
  <2>4. children[i] = Stored(values[kept + i])  BY <2>1
  <2>5. Stored(values[kept + i]) = values[kept + i]  BY <2>3 DEF Matches, Stored
  <2>6. Null[1] = "null"  BY DEF Null
  <2> HIDE DEF children
  <2> QED  BY <2>1, <2>3, <2>4, <2>5, <2>6 DEF Matches
<1>5. Matches(node, t, errors)
  <2>1. CASE kind = "required"
    <3>1. 1 \in Dereferenced(kind)  BY <2>1 DEF Dereferenced
    <3>2. node = children[1]  BY <2>1 DEF Node
    <3>3. Matches(node, "node", errors)  BY <1>4, <3>1, <3>2
    <3> HIDE DEF node
    <3> QED  BY <3>3 DEF Matches, Results
  <2>2. CASE kind = "apply"
    <3>1. node = <<"call", children[2], IF children[1] = Null THEN <<>> ELSE <<children[1]>>>>
      BY <2>2 DEF Node
    <3>2. node[1] = "call"  BY <3>1
    <3> HIDE DEF node
    <3> QED  BY <3>2 DEF Matches, Results
  <2>3. CASE kind \notin {"required", "apply"}
    <3>1. n \in Nat /\ DOMAIN children = 1..n /\ children = [i \in 1..n |-> children[i]]
      BY <1>3
    <3> HIDE DEF children
    <3>2. node[1] = kind  BY <2>3, <3>1, NodeKind
    <3> HIDE DEF node
    <3>3. node[1] \notin {"list", "symbol", "null"}  BY <3>2 DEF Made
    <3> QED  BY <3>3 DEF Matches, Results
  <2> QED  BY <2>1, <2>2, <2>3
<1> HIDE DEF node, children
<1>6. Fits(rest, SubSeq(from, 1, kept), errors) /\ SubSeq(from, 1, kept) \in Stack
  <2>1. \A i \in 1..kept : from[i] \in Types  BY <1>3, ElementOfSeq DEF Stack
  <2>2. SubSeq(from, 1, kept) \in Stack  BY <1>3, <2>1, SubSeqProperties DEF Stack
  <2> QED  BY <1>3, <2>2, FitsShort
<1>7. Fits(Append(rest, node), Append(SubSeq(from, 1, kept), t), errors)
  BY <1>5, <1>6, FitsPush DEF Results, Types
<1>8. Append(rest, node) = rest \o <<node>>
  <2>1. \A i \in 1..kept : values[i] \in V  BY <1>1, <1>3, ElementOfSeq
  <2>2. rest \in Seq(V)  BY <1>3, <2>1, SubSeqProperties
  <2>3. rest \in Seq(V \cup {node})  BY <2>2, SeqMonotonic
  <2> HIDE DEF rest
  <2> QED  BY <2>3, AppendIsConcat
<1>9. (\E i \in Dereferenced(kind) : children[i] = Null) => errors > 0  BY <1>4
<1> QED  BY <1>2, <1>3, <1>7, <1>8, <1>9 DEF node, children

-----------------------------------------------------------------------------
(* What is left to do is typed down to the module it ends in.              *)
Closing == Expect("eof") \o Make("module", 1)

OnCourse(list, values, errors) ==
    \E items, stack : /\ list = items \o Closing
                      /\ Typed(items, stack, <<"list">>)
                      /\ Fits(values, stack, errors)

LEMMA OneItem ==
    ASSUME NEW x
    PROVE  /\ <<x>> \in Seq({x}) /\ <<x>> # <<>>
           /\ Head(<<x>>) = x /\ Tail(<<x>>) = <<>> /\ <<>> \o <<x>> = <<x>>
<1> DEFINE c == <<x>>
<1>1. c \in Seq({x}) /\ Len(c) = 1 /\ c[1] = x  OBVIOUS
<1> HIDE DEF c
<1>2. c # <<>> /\ Head(c) = x  BY <1>1
<1>3. Tail(c) \in Seq({x}) /\ Len(Tail(c)) = 0  BY <1>1, <1>2, HeadTailProperties
<1>4. Tail(c) = <<>>  BY <1>3, EmptySeq
<1>5. <<>> \o c = c  BY <1>1, ConcatEmptySeq
<1> QED  BY <1>1, <1>2, <1>4, <1>5 DEF c

LEMMA ClosingIs ==
    /\ Closing # <<>> /\ Len(Closing) = 2 /\ \E T : Closing \in Seq(T)
    /\ Head(Closing).do = "expect" /\ Head(Closing).kinds = {"eof"}
    /\ Tail(Closing) = Make("module", 1)
<1> DEFINE x == [do |-> "expect", kinds |-> {"eof"}]
           y == [do |-> "make", kind |-> "module", children |-> 1]
<1>1. x.do = "expect" /\ x.kinds = {"eof"}  OBVIOUS
<1>2. Closing = <<x>> \o <<y>> /\ Make("module", 1) = <<y>>
  BY DEF Closing, Expect, ExpectAny, Make
<1> HIDE DEF x, y
<1> DEFINE c == <<x>> \o <<y>>
           S == {x, y}
<1>3. c \in Seq(S) /\ Len(c) = 2 /\ c[1] = x /\ c[2] = y
  <2>1. <<x>> \in Seq(S) /\ Len(<<x>>) = 1 /\ <<x>>[1] = x
        /\ <<y>> \in Seq(S) /\ Len(<<y>>) = 1 /\ <<y>>[1] = y
    OBVIOUS
  <2>2. c \in Seq(S) /\ Len(c) = 1 + 1
        /\ \A i \in 1..(1 + 1) : c[i] = IF i <= 1 THEN <<x>>[i] ELSE <<y>>[i - 1]
    BY <2>1, ConcatProperties
  <2> HIDE DEF c
  <2>3. 1 \in 1..(1 + 1) /\ 2 \in 1..(1 + 1) /\ 2 - 1 = 1 /\ 1 + 1 = 2 /\ ~(2 <= 1)  OBVIOUS
  <2> QED  BY <2>1, <2>2, <2>3
<1> HIDE DEF c
<1>4. Head(c) = x /\ c # <<>>  BY <1>3
<1>5. Tail(c) = <<y>>
  <2>1. Tail(c) \in Seq(S) /\ Len(Tail(c)) = 1 /\ Tail(c)[1] = y
    BY <1>3, <1>4, HeadTailProperties
  <2> DEFINE a == Tail(c)
             b == <<y>>
  <2>2. b \in Seq(S) /\ Len(b) = 1 /\ b[1] = y  OBVIOUS
  <2>3. a \in Seq(S) /\ Len(a) = 1 /\ a[1] = y  BY <2>1
  <2> HIDE DEF S, a, b
  <2>4. Len(a) = Len(b) /\ \A i \in 1..Len(a) : a[i] = b[i]  BY <2>2, <2>3
  <2>5. a = b  BY <2>2, <2>3, <2>4, SeqEqual
  <2> QED  BY <2>5 DEF a, b
<1> QED  BY <1>1, <1>2, <1>3, <1>4, <1>5 DEF c

LEMMA TypedFromNothing ==
    ASSUME NEW from, NEW to, Typed(<<>>, from, to)
    PROVE  from = to
<1>1. Len(<<>>) = 0  OBVIOUS
<1> QED  BY <1>1 DEF Typed, TypedIn

(* More before what is left to do.                                         *)
LEMMA Continues ==
    ASSUME NEW more, NEW items, NEW from, NEW to, NEW values, NEW errors,
           Typed(more, from, to), Typed(items, to, <<"list">>), Fits(values, from, errors)
    PROVE  OnCourse(more \o (items \o Closing), values, errors)
<1>1. Typed(more \o items, from, <<"list">>)  BY TypedThen
<1>2. (more \o items) \o Closing = more \o (items \o Closing)
  <2>1. PICK R : more \in Seq(R)  BY TypedEnds
  <2>2. PICK S : items \in Seq(S)  BY TypedEnds
  <2>3. PICK T : Closing \in Seq(T)  BY ClosingIs
  <2> DEFINE U == R \cup S \cup T
  <2>4. R \subseteq U /\ S \subseteq U /\ T \subseteq U  OBVIOUS
  <2> HIDE DEF U
  <2>5. more \in Seq(U) /\ items \in Seq(U) /\ Closing \in Seq(U)
    BY <2>1, <2>2, <2>3, <2>4, SeqMonotonic
  <2> QED  BY <2>5, ConcatAssociative
<1> QED  BY <1>1, <1>2 DEF OnCourse

(* The first thing left to do, and what comes after it.                    *)
Followed(list, from) ==
    \E items : \E to \in Stack :
       /\ Tail(list) = items \o Closing
       /\ Typed(items, to, <<"list">>)
       /\ \/ Head(list).do # "when" /\ Plain(Head(list), from, to)
          \/ /\ Head(list).do = "when"
             /\ Typed(Head(list).then, from, to) /\ Typed(Head(list).else, from, to)

LEMMA FirstOfCourse ==
    ASSUME NEW list, NEW values, NEW errors, OnCourse(list, values, errors)
    PROVE  \E from \in Stack :
              /\ Fits(values, from, errors)
              /\ \/ list = Closing /\ from = <<"list">>
                 \/ list # <<>> /\ Followed(list, from)
              /\ \A more : Typed(more, from, from) => OnCourse(more \o list, values, errors)
<1>1. PICK items, from : list = items \o Closing /\ Typed(items, from, <<"list">>)
                         /\ Fits(values, from, errors)
  BY DEF OnCourse
<1>2. from \in Stack  BY <1>1, TypedEnds
<1>3. \A more : Typed(more, from, from) => OnCourse(more \o list, values, errors)
  BY <1>1, Continues
<1>4. PICK S : items \in Seq(S)  BY <1>1, TypedEnds
<1>5. PICK T : Closing \in Seq(T)  BY ClosingIs
<1> DEFINE U == S \cup T
<1>6. S \subseteq U /\ T \subseteq U  OBVIOUS
<1> HIDE DEF U
<1>7. items \in Seq(U) /\ Closing \in Seq(U)  BY <1>4, <1>5, <1>6, SeqMonotonic
<1>8. CASE items = <<>>
  <2>1. list = Closing  BY <1>1, <1>7, <1>8, ConcatEmptySeq
  <2>2. from = <<"list">>  BY <1>1, <1>8, TypedFromNothing
  <2> QED  BY <1>1, <1>2, <1>3, <2>1, <2>2
<1>9. CASE items # <<>>
  <2>1. PICK between \in Stack :
           /\ Typed(Tail(items), between, <<"list">>)
           /\ \/ Head(items).do # "when" /\ Plain(Head(items), from, between)
              \/ /\ Head(items).do = "when"
                 /\ Typed(Head(items).then, from, between)
                 /\ Typed(Head(items).else, from, between)
    BY <1>1, <1>9, TypedHead
  <2>2. list # <<>> /\ Head(list) = Head(items) /\ Tail(list) = Tail(items) \o Closing
    BY <1>1, <1>7, <1>9
  <2>3. Followed(list, from)  BY <2>1, <2>2 DEF Followed
  <2> QED  BY <1>1, <1>2, <1>3, <2>2, <2>3
<1> QED  BY <1>8, <1>9

-----------------------------------------------------------------------------
(* The invariant: the parser stands at a token of its text; a recovery and *)
(* a failure come after an error; and until a failure, what is left to do  *)
(* is typed from the values there are to the one module.                   *)
Places == source \in Sources /\ pos \in 1..Len(Text) /\ Text[pos] # NewLine

Errors == /\ diags \in 0..MaxDiags
          /\ recovering => diags # 0
          /\ status \in {"crashed", "aborted"} => diags # 0

AtEnd == diags = 0 => ~recovering /\ Current = "eof"

Course ==
    \/ todo = Rec("Program") /\ vals = <<>>
    \/ OnCourse(todo, vals, diags)
    \/ todo = Make("module", 1) /\ Fits(vals, <<"list">>, diags) /\ AtEnd
    \/ todo = <<>> /\ Len(vals) = 1 /\ Root[1] = "module" /\ AtEnd

ParserInvariant ==
    /\ Places /\ Errors
    /\ status \in {"crashed", "aborted"} \/ Course
    /\ status = "done" => todo = <<>>

-----------------------------------------------------------------------------
(* The next token: the text goes on to its end of file.                    *)
LEMMA NextIsAToken ==
    ASSUME Places
    PROVE  /\ NextPos \in 1..Len(Text) /\ Text[NextPos] # NewLine
           /\ Current = "eof" => NextPos = pos
<1>1. /\ Len(Text) \in Nat \ {0} /\ Text[Len(Text)] # NewLine
      /\ Kind(Text[Len(Text)]) = "eof"
  BY ParserConstants DEF Places, Text, NewLine
<1>2. CASE Current = "eof"  BY <1>2 DEF Places, NextPos
<1>3. CASE Current # "eof"
  <2> DEFINE n == Len(Text)
             ahead == {p \in (pos + 1)..n : Text[p] # NewLine}
             Found(p) == Text[p] # NewLine /\ \A q \in (pos + 1)..(p - 1) : Text[q] = NewLine
  <2>1. pos \in 1..n /\ pos # n  BY <1>1, <1>3 DEF Places, Current
  <2>2. n \in ahead /\ ahead \subseteq Nat  BY <1>1, <2>1
  <2>3. PICK m \in ahead : \A p \in ahead : ~ (<<p, m>> \in OpToRel(<, Nat))
    BY <2>2, NatLessThanWellFounded, WFMin, Zenon
  <2>4. \A p \in (pos + 1)..n : p < m => Text[p] = NewLine  BY <2>2, <2>3 DEF OpToRel
  <2>5. m \in (pos + 1)..n /\ Text[m] # NewLine /\ n \in Nat  BY <1>1, <2>3
  <2> HIDE DEF n, ahead
  <2>6. \A q \in (pos + 1)..(m - 1) : q \in (pos + 1)..n /\ q < m  BY <2>1, <2>5
  <2>7. m \in (pos + 1)..n /\ Found(m)  BY <2>4, <2>5, <2>6
  <2>8. NextPos = CHOOSE p \in (pos + 1)..n : Found(p)  BY <1>3 DEF NextPos, n
  <2> HIDE DEF Found
  <2>9. NextPos \in (pos + 1)..n /\ Found(NextPos)  BY <2>7, <2>8
  <2> QED  BY <1>3, <2>1, <2>5, <2>9 DEF Found, n
<1> QED  BY <1>2, <1>3

LEMMA StartIsAToken ==
    ASSUME Init
    PROVE  ParserInvariant
<1>1. Len(Text) \in Nat \ {0} /\ Text[1] # NewLine
  BY ParserConstants DEF Init, Text, NewLine
<1>2. Places  BY <1>1 DEF Init, Places
<1>3. Errors  BY ParserConstants DEF Init, Errors
<1>4. Course  BY DEF Init, Course
<1> QED  BY <1>2, <1>3, <1>4 DEF Init, ParserInvariant

LEMMA PlacesKept ==
    ASSUME Places, [Next]_vars
    PROVE  Places'
<1>1. source' = source /\ (pos' = pos \/ pos' = NextPos)
  BY DEF Next, ExpectStep, ExpectTerminator, TakeStep, WhenStep, CallStep, ClimbStep,
         ReportStep, ValueStep, MakeStep, Finish, NextToken, vars, control
<1>2. Text' = Text  BY <1>1 DEF Text
<1>3. CASE pos' = pos  BY <1>1, <1>2, <1>3 DEF Places
<1>4. CASE pos' = NextPos  BY <1>1, <1>2, <1>4, NextIsAToken DEF Places
<1> QED  BY <1>1, <1>3, <1>4

(* A parser at the end of its text stays there.                            *)
LEMMA EndKept ==
    ASSUME Places, AtEnd, source' = source, pos' = pos \/ pos' = NextPos,
           diags' = diags \/ diags' # 0, diags' = 0 => diags = 0,
           recovering' = recovering \/ recovering' = FALSE
    PROVE  AtEnd'
<1>1. Current = "eof" => Current' = "eof"
  <2>1. Current = "eof" => pos' = pos  BY NextIsAToken
  <2> QED  BY <2>1 DEF Current, Text
<1> QED  BY <1>1 DEF AtEnd

(* Errors are counted, or the parser aborts with the manager full.         *)
LEMMA Counted ==
    ASSUME Errors, FileError
    PROVE  diags' \in 0..MaxDiags /\ diags' # 0 /\ status' \in {status, "aborted"}
BY ParserConstants DEF Errors, FileError

LEMMA ErrorsKept ==
    ASSUME Errors, [Next]_vars, MakeStep /\ status' = "crashed" => diags # 0
    PROVE  Errors'
<1>1. CASE ExpectStep
  <2>1. CASE FileError /\ recovering' = TRUE  BY <2>1, Counted DEF Errors
  <2>2. CASE diags' = diags /\ status' = status /\ (recovering' = FALSE \/ recovering' = recovering)
    BY <2>2 DEF Errors
  <2> QED  BY <1>1, <2>1, <2>2 DEF ExpectStep
<1>2. CASE ExpectTerminator
  <2>1. CASE FileError /\ recovering' = recovering  BY <2>1, Counted DEF Errors
  <2>2. CASE diags' = diags /\ status' = status /\ (recovering' = FALSE \/ recovering' = recovering)
    BY <2>2 DEF Errors
  <2> QED  BY <1>2, <2>1, <2>2 DEF ExpectTerminator
<1>3. CASE TakeStep \/ WhenStep \/ CallStep \/ ClimbStep \/ ValueStep \/ UNCHANGED vars
  BY <1>3 DEF Errors, TakeStep, WhenStep, CallStep, ClimbStep, ValueStep, vars, control
<1>4. CASE ReportStep
  <2>1. FileError /\ recovering' = recovering  BY <1>4 DEF ReportStep
  <2> QED  BY <2>1, Counted DEF Errors
<1>5. CASE MakeStep
  <2>1. diags' = diags /\ recovering' = recovering /\ status' \in {status, "crashed"}
    BY <1>5 DEF MakeStep
  <2> QED  BY <1>5, <2>1 DEF Errors
<1>6. CASE Finish  BY <1>6 DEF Finish, Errors
<1> QED  BY <1>1, <1>2, <1>3, <1>4, <1>5, <1>6 DEF Next

(* A step in the middle of the text.                                       *)
LEMMA StepOnCourse ==
    ASSUME Errors, Next, status = "running", todo # <<>>,
           NEW from \in Stack, Fits(vals, from, diags), Followed(todo, from),
           OnCourse(todo, vals, diags),
           \A more : Typed(more, from, from) => OnCourse(more \o todo, vals, diags)
    PROVE  /\ \/ status' \in {"running", "aborted"}
              \/ status' = "crashed" /\ MakeStep /\ diags # 0
           /\ status' \in {"crashed", "aborted"} \/ OnCourse(todo', vals', diags')
<1> DEFINE x == Head(todo)
<1>1. PICK items : \E to \in Stack :
          /\ Tail(todo) = items \o Closing
          /\ Typed(items, to, <<"list">>)
          /\ \/ x.do # "when" /\ Plain(x, from, to)
             \/ x.do = "when" /\ Typed(x.then, from, to) /\ Typed(x.else, from, to)
  BY DEF Followed
<1>2. PICK to \in Stack :
          /\ Tail(todo) = items \o Closing
          /\ Typed(items, to, <<"list">>)
          /\ \/ x.do # "when" /\ Plain(x, from, to)
             \/ x.do = "when" /\ Typed(x.then, from, to) /\ Typed(x.else, from, to)
  BY <1>1
<1> HIDE DEF x
<1>3. ASSUME NEW values, NEW errors, Fits(values, to, errors)
      PROVE  OnCourse(<<>> \o Tail(todo), values, errors)
  BY <1>2, <1>3, TypedNothing, Continues
<1>4. ASSUME diags' = diags \/ diags' # 0
      PROVE  Fits(vals, from, diags') /\ OnCourse(todo, vals, diags')
  <2>1. Fits(vals, from, diags')  BY <1>4, FitsMore
  <2>2. OnCourse(todo, vals, diags')  BY <1>4, FitsMore DEF OnCourse
  <2> QED  BY <2>1, <2>2
<1>5. CASE ExpectStep \/ ExpectTerminator \/ TakeStep
  <2>1. /\ x.do \in {"expect", "terminator", "take"} /\ vals' = vals
        /\ todo' = todo \/ todo' = <<>> \o Tail(todo)
    BY <1>5 DEF ExpectStep, ExpectTerminator, TakeStep, Doing, Continue, x
  <2>2. (diags' = diags /\ status' = status) \/ FileError
    BY <1>5 DEF ExpectStep, ExpectTerminator, TakeStep
  <2>3. (diags' = diags \/ diags' # 0) /\ status' \in {"running", "aborted"}
    BY <2>2, Counted
  <2>4. to = from  BY <1>2, <2>1 DEF Plain
  <2> QED  BY <1>3, <1>4, <2>1, <2>3, <2>4
<1>6. CASE WhenStep
  <2>1. /\ x.do = "when" /\ vals' = vals /\ diags' = diags /\ status' = status
        /\ todo' = x.then \o Tail(todo) \/ todo' = x.else \o Tail(todo)
    BY <1>6 DEF WhenStep, Doing, Continue, x
  <2> QED  BY <1>2, <2>1, Continues
<1>7. CASE CallStep
  <2>1. /\ x.do = "call" /\ vals' = vals /\ diags' = diags /\ status' = status
        /\ todo' = Body(x.name) \o Tail(todo)
    BY <1>7 DEF CallStep, Doing, Continue, x
  <2>2. Typed(Body(x.name), from, to)  BY <1>2, <2>1, TypedBody DEF Plain
  <2> QED  BY <1>2, <2>1, <2>2, Continues
<1>8. CASE ClimbStep
  <2>1. /\ x.do = "climb" /\ vals' = vals /\ diags' = diags /\ status' = status
        /\ \/ Current \in BinaryOps /\ todo' = Operation(Current) \o todo
           \/ todo' = <<>> \o Tail(todo)
    BY <1>8 DEF ClimbStep, Doing, Continue, Climbs, x
  <2>2. PICK below \in Stack, t \in Results :
           from = Append(below, "node") /\ to = Append(below, t)
    BY <1>2, <2>1 DEF Plain
  <2>3. CASE Current \in BinaryOps /\ todo' = Operation(Current) \o todo
    <3>1. Typed(Operation(Current), from, from)  BY <2>2, <2>3, TypedOperation
    <3> QED  BY <2>1, <2>3, <3>1
  <2>4. CASE todo' = <<>> \o Tail(todo)
    <3> DEFINE n == Len(vals)
    <3>1. /\ n \in Nat \ {0} /\ n = Len(below) + 1
          /\ Matches(vals[n], "node", diags)
          /\ Fits(SubSeq(vals, 1, n - 1), below, diags)
      BY <2>2, FitsPop DEF Types
    <3>2. Matches(vals[n], t, diags)  BY <3>1, MatchesResult DEF Results
    <3>3. Fits(Append(SubSeq(vals, 1, n - 1), vals[n]), to, diags)
      BY <2>2, <3>1, <3>2, FitsPush DEF Types, Results
    <3>4. Append(SubSeq(vals, 1, n - 1), vals[n]) = vals
      <4>1. PICK V : vals \in Seq(V)  BY DEF Fits
      <4>2. SubSeq(vals, 1, n) = vals
        BY <4>1
      <4> QED  BY <3>1, <4>1
    <3> QED  BY <1>3, <2>1, <2>4, <3>3, <3>4
  <2> QED  BY <2>1, <2>3, <2>4
<1>9. CASE ReportStep
  <2>1. x.do = "report" /\ vals' = Append(vals, Null) /\ todo' = <<>> \o Tail(todo) /\ FileError
    BY <1>9 DEF ReportStep, Doing, Continue, x
  <2>2. PICK t \in Results : to = Append(from, t)  BY <1>2, <2>1 DEF Plain
  <2>3. diags' # 0 /\ status' \in {"running", "aborted"}  BY <2>1, Counted
  <2>4. Matches(Null, t, diags')  BY <2>3 DEF Matches, Null, Results
  <2>5. Fits(vals', to, diags')  BY <1>4, <2>1, <2>2, <2>3, <2>4, FitsPush DEF Results, Types
  <2> QED  BY <1>3, <2>1, <2>3, <2>5
<1>10. CASE ValueStep
  <2>1. todo' = <<>> \o Tail(todo) /\ diags' = diags /\ status' = status
    BY <1>10 DEF ValueStep, Continue
  <2>2. CASE x.do = "push"
    <3>1. vals' = Append(vals, x.value)  BY <1>10, <2>2 DEF ValueStep, Doing, x
    <3>2. \/ x.value = Null /\ to = Append(from, "optional")
          \/ x.value = <<"list", <<>>>> /\ to = Append(from, "list")
      BY <1>2, <2>2 DEF Plain
    <3>3. Matches(Null, "optional", diags) /\ Matches(<<"list", <<>>>>, "list", diags)
      BY DEF Matches, Null
    <3>4. Fits(vals', to, diags)  BY <3>1, <3>2, <3>3, FitsPush DEF Types
    <3> QED  BY <1>3, <2>1, <3>4
  <2>3. CASE x.do = "symbol"
    <3>1. vals' = Append(vals, <<"symbol", Text[pos]>>)  BY <1>10, <2>3 DEF ValueStep, Doing, x
    <3>2. to = Append(from, "symbol")  BY <1>2, <2>3 DEF Plain
    <3>3. Matches(<<"symbol", Text[pos]>>, "symbol", diags)  BY DEF Matches
    <3>4. Fits(vals', to, diags)  BY <3>1, <3>2, <3>3, FitsPush DEF Types
    <3> QED  BY <1>3, <2>1, <3>4
  <2>4. CASE x.do = "add"
    <3>1. LET n == Len(vals) IN
             vals' = SubSeq(vals, 1, n - 2) \o <<ListAdd(vals[n - 1], vals[n])>>
      BY <1>10, <2>4 DEF ValueStep, Doing, x
    <3>2. PICK below \in Stack, t \in Results :
             from = Append(Append(below, "list"), t) /\ to = Append(below, "list")
      BY <1>2, <2>4 DEF Plain
    <3>3. Fits(vals', to, diags)  BY <3>1, <3>2, FitsAdd
    <3> QED  BY <1>3, <2>1, <3>3
  <2>5. CASE x.do = "init"
    <3>1. LET n == Len(vals) IN vals' = SubSeq(vals, 1, n - 3) \o <<vals[n], vals[n - 1]>>
      BY <1>10, <2>5 DEF ValueStep, Doing, x
    <3>2. PICK below \in Stack :
             /\ from = Append(Append(Append(below, "optional"), "list"), "node")
             /\ to = Append(Append(below, "optional"), "list")
      BY <1>2, <2>5 DEF Plain
    <3>3. Fits(vals', to, diags)  BY <3>1, <3>2, FitsInit
    <3> QED  BY <1>3, <2>1, <3>3
  <2> QED  BY <1>10, <2>2, <2>3, <2>4, <2>5 DEF ValueStep, Doing, x
<1>11. CASE MakeStep
  <2> DEFINE kept     == Len(vals) - x.children
             children == [i \in 1..x.children |-> Stored(vals[kept + i])]
             missing  == \E i \in Dereferenced(x.kind) : children[i] = Null
  <2>1. x.do = "make" /\ diags' = diags
        /\ \/ missing /\ status' = "crashed"
           \/ /\ ~missing /\ todo' = <<>> \o Tail(todo) /\ status' = status
              /\ vals' = SubSeq(vals, 1, kept) \o <<Node(x.kind, children)>>
    BY <1>11 DEF MakeStep, Doing, Continue, x
  <2>2. Made(x.kind, x.children, from, to)  BY <1>2, <2>1 DEF Plain
  <2>3. diags \in Nat  BY ParserConstants DEF Errors
  <2>4. /\ missing => diags > 0
        /\ Fits(SubSeq(vals, 1, kept) \o <<Node(x.kind, children)>>, to, diags)
    BY <2>2, <2>3, FitsMake
  <2> HIDE DEF missing
  <2>5. missing => diags # 0  BY <2>3, <2>4
  <2>6. CASE missing  BY <1>11, <2>1, <2>5, <2>6
  <2>7. CASE ~missing
    <3>1. Fits(vals', to, diags)  BY <2>1, <2>4, <2>7, Zenon
    <3> QED  BY <1>3, <2>1, <2>7, <3>1
  <2> QED  BY <2>6, <2>7
<1>12. ~Finish  BY DEF Finish
<1> QED  BY <1>5, <1>6, <1>7, <1>8, <1>9, <1>10, <1>11, <1>12 DEF Next

(* The three steps outside: into the program, past its end, its module.    *)
LEMMA StepAtStart ==
    ASSUME Next, todo = Rec("Program"), vals = <<>>
    PROVE  OnCourse(todo', vals', diags') /\ status' = status
<1> DEFINE x == [do |-> "call", name |-> "Program"]
<1>1. x.do = "call" /\ x.name = "Program" /\ todo = <<x>>  BY DEF Rec
<1> HIDE DEF x
<1>2. Head(todo) = x /\ Tail(todo) = <<>> /\ todo # <<>>  BY <1>1, OneItem
<1>3. CallStep
  BY <1>1, <1>2 DEF Next, ExpectStep, ExpectTerminator, TakeStep, WhenStep, ClimbStep, ReportStep,
     ValueStep, MakeStep, Finish, Doing
<1>4. todo' = RecProgram \o <<>> /\ vals' = vals /\ diags' = diags /\ status' = status
  BY <1>1, <1>2, <1>3 DEF CallStep, Continue, Body
<1> DEFINE items == NewList \o Rec("ProgramItems")
           start == Append(<<>>, "list")
<1>5. <<>> \in Stack /\ start = <<"list">>  BY DEF Stack
<1>6. Typed(NewList, <<>>, start)  BY <1>5, TypedLeaves
<1>7. Typed(Rec("ProgramItems"), start, start)  BY <1>5, TypedLoop DEF Loops
<1> HIDE DEF start
<1>8. Typed(items, <<>>, <<"list">>)  BY <1>5, <1>6, <1>7, TypedThen
<1>9. Fits(<<>>, <<>>, diags)
  <2>1. Len(<<>>) = 0 /\ <<>> \in Seq({})  OBVIOUS
  <2> QED  BY <2>1 DEF Fits
<1>10. RecProgram \o <<>> = items \o Closing
  <2> DEFINE e == Expect("eof")
             m == Make("module", 1)
  <2>1. PICK S : items \in Seq(S)  BY <1>8, TypedEnds
  <2>2. PICK T : e \in Seq(T)  BY OneItem DEF Expect, ExpectAny
  <2>3. PICK W : m \in Seq(W)  BY OneItem DEF Make
  <2> DEFINE U == S \cup T \cup W
  <2>4. S \subseteq U /\ T \subseteq U /\ W \subseteq U  OBVIOUS
  <2>5. RecProgram = (items \o e) \o m /\ Closing = e \o m  BY DEF RecProgram, Closing
  <2> HIDE DEF U, e, m, items
  <2>6. items \in Seq(U) /\ e \in Seq(U) /\ m \in Seq(U)
    BY <2>1, <2>2, <2>3, <2>4, SeqMonotonic
  <2>7. e \o m \in Seq(U)  BY <2>6, ConcatProperties
  <2>8. items \o (e \o m) \in Seq(U)  BY <2>6, <2>7, ConcatProperties
  <2>9. (items \o e) \o m = items \o (e \o m)  BY <2>6, ConcatAssociative
  <2> QED  BY <2>5, <2>8, <2>9, ConcatEmptySeq
<1>11. OnCourse(items \o Closing, <<>>, diags)  BY <1>8, <1>9 DEF OnCourse
<1> QED  BY <1>4, <1>10, <1>11

LEMMA StepAtClosing ==
    ASSUME Places, Errors, Next, status = "running", todo = Closing,
           Fits(vals, <<"list">>, diags), OnCourse(todo, vals, diags)
    PROVE  /\ status' \in {"running", "aborted"}
           /\ \/ OnCourse(todo', vals', diags')
              \/ todo' = Make("module", 1) /\ Fits(vals', <<"list">>, diags') /\ AtEnd'
<1> DEFINE x == Head(todo)
<1>1. x.do = "expect" /\ x.kinds = {"eof"} /\ Tail(todo) = Make("module", 1) /\ todo # <<>>
  BY ClosingIs
<1> HIDE DEF x
<1>2. ExpectStep
  BY <1>1 DEF Next, TakeStep, ExpectTerminator, WhenStep, CallStep, ClimbStep, ReportStep,
     ValueStep, MakeStep, Finish, Doing, x
<1>3. vals' = vals /\ source' = source  BY <1>2 DEF ExpectStep
<1>4. <<>> \o Make("module", 1) = Make("module", 1)  BY OneItem DEF Make
<1>5. CASE todo' = todo /\ diags' = diags /\ status' = status  BY <1>3, <1>5
<1>6. CASE todo' = <<>> \o Tail(todo)
  <2>1. (diags' = diags /\ status' = status) \/ FileError  BY <1>2 DEF ExpectStep
  <2>2. (diags' = diags \/ diags' # 0) /\ status' \in {"running", "aborted"}  BY <2>1, Counted
  <2>3. Fits(vals', <<"list">>, diags')  BY <1>3, <2>2, FitsMore
  <2>4. AtEnd'
    <3>1. CASE diags' # 0  BY <3>1 DEF AtEnd
    <3>2. CASE diags' = 0
      <4>1. diags = 0 /\ ~recovering  BY <2>2, <3>2 DEF Errors
      <4>2. ~FileError  BY <3>2, Counted
      <4>3. Current = "eof" /\ NextToken /\ recovering' = FALSE
        BY <1>1, <1>2, <4>1, <4>2 DEF ExpectStep, Skipping, x
      <4>4. Current' = "eof"  BY <1>3, <4>3, NextIsAToken DEF NextToken, Current, Text
      <4> QED  BY <4>3, <4>4 DEF AtEnd
    <3> QED  BY <3>1, <3>2
  <2> QED  BY <1>1, <1>4, <1>6, <2>2, <2>3, <2>4
<1> QED  BY <1>2, <1>5, <1>6 DEF ExpectStep, Continue

LEMMA StepAtModule ==
    ASSUME Places, Errors, Next, status = "running", todo = Make("module", 1),
           Fits(vals, <<"list">>, diags), AtEnd
    PROVE  /\ status' = status
           /\ todo' = <<>> /\ Len(vals') = 1 /\ Root'[1] = "module" /\ AtEnd'
<1> DEFINE x == [do |-> "make", kind |-> "module", children |-> 1]
<1>1. x.do = "make" /\ x.kind = "module" /\ x.children = 1 /\ todo = <<x>>  BY DEF Make
<1> HIDE DEF x
<1>2. Head(todo) = x /\ Tail(todo) = <<>> /\ todo # <<>>  BY <1>1, OneItem
<1>3. MakeStep
  BY <1>1, <1>2 DEF Next, ExpectStep, ExpectTerminator, TakeStep, WhenStep, CallStep, ClimbStep,
     ReportStep, ValueStep, Finish, Doing
<1>4. Dereferenced("module") = {}  BY DEF Dereferenced
<1>5. Len(vals) = 1  BY DEF Fits
<1> DEFINE kept == Len(vals) - x.children
           children == [i \in 1..x.children |-> Stored(vals[kept + i])]
           node == Node(x.kind, children)
<1>6. /\ status' = status /\ UNCHANGED <<source, pos, recovering, diags>>
      /\ todo' = <<>> \o Tail(todo) /\ vals' = SubSeq(vals, 1, kept) \o <<node>>
  BY <1>1, <1>2, <1>3, <1>4 DEF MakeStep, Continue
<1>7. AtEnd'  BY <1>6, EndKept
<1>8. node[1] = "module"
  <2>1. x.children \in Nat /\ children = [i \in 1..x.children |-> children[i]]  BY <1>1
  <2> HIDE DEF children
  <2> QED  BY <1>1, <2>1, NodeKind
<1>9. kept = 0  BY <1>1, <1>5
<1> HIDE DEF node, kept
<1>10. vals' = <<node>>
  <2>1. SubSeq(vals, 1, kept) = <<>>  BY <1>9, SubSeqEmpty
  <2> QED  BY <1>6, <2>1, OneItem
<1>11. todo' = <<>>
  <2>1. <<>> \in Seq({})  OBVIOUS
  <2>2. <<>> \o <<>> = <<>>  BY <2>1, ConcatEmptySeq
  <2> QED  BY <1>2, <1>6, <2>2
<1>12. Len(vals') = 1 /\ Root' = node  BY <1>10 DEF Root
<1> QED  BY <1>6, <1>7, <1>8, <1>11, <1>12

LEMMA InvariantKept ==
    ASSUME ParserInvariant, [Next]_vars
    PROVE  ParserInvariant'
<1>1. Places /\ Errors  BY DEF ParserInvariant
<1>2. Places'  BY <1>1, PlacesKept
<1>3. CASE UNCHANGED vars
  BY <1>3 DEF ParserInvariant, Places, Errors, Course, AtEnd, Text, Current, Root, vars, control
<1>4. CASE Finish
  <2>1. /\ status = "running" /\ todo = <<>> /\ status' = "done"
        /\ UNCHANGED <<source, pos, recovering, todo, vals, diags>>
    BY <1>4 DEF Finish
  <2>2. Course /\ Errors'
    BY <2>1 DEF ParserInvariant, Errors
  <2>3. Course'  BY <2>1, <2>2 DEF Course, AtEnd, Text, Current, Root
  <2> QED  BY <1>2, <2>1, <2>2, <2>3 DEF ParserInvariant
<1>5. CASE Next /\ ~Finish
  <2>1. status = "running" /\ todo # <<>>
    BY <1>5 DEF Next, ExpectStep, ExpectTerminator, TakeStep, WhenStep, CallStep, ClimbStep,
       ReportStep, ValueStep, MakeStep, Doing
  <2>2. Course  BY <2>1 DEF ParserInvariant
  <2>3. ASSUME \/ status' \in {"running", "aborted"}
               \/ status' = "crashed" /\ MakeStep /\ diags # 0,
               status' \in {"crashed", "aborted"} \/ Course'
        PROVE  ParserInvariant'
    <3>1. Errors'  BY <1>1, <1>5, <2>3, ErrorsKept
    <3> QED  BY <1>2, <2>3, <3>1 DEF ParserInvariant
  <2>4. CASE todo = Rec("Program") /\ vals = <<>>
    <3>1. OnCourse(todo', vals', diags') /\ status' = status  BY <1>5, <2>4, StepAtStart
    <3>2. Course'  BY <3>1 DEF Course
    <3> QED  BY <2>1, <2>3, <3>1, <3>2
  <2>5. CASE OnCourse(todo, vals, diags)
    <3>1. PICK from \in Stack :
              /\ Fits(vals, from, diags)
              /\ \/ todo = Closing /\ from = <<"list">>
                 \/ todo # <<>> /\ Followed(todo, from)
              /\ \A more : Typed(more, from, from) => OnCourse(more \o todo, vals, diags)
      BY <2>5, FirstOfCourse
    <3>2. CASE todo = Closing /\ from = <<"list">>
      <4>1. /\ status' \in {"running", "aborted"}
            /\ \/ OnCourse(todo', vals', diags')
               \/ todo' = Make("module", 1) /\ Fits(vals', <<"list">>, diags') /\ AtEnd'
        BY <1>1, <1>5, <2>1, <2>5, <3>1, <3>2, StepAtClosing
      <4>2. Course'  BY <4>1 DEF Course
      <4> QED  BY <2>3, <4>1, <4>2
    <3>3. CASE todo # <<>> /\ Followed(todo, from)
      <4>1. /\ \/ status' \in {"running", "aborted"}
               \/ status' = "crashed" /\ MakeStep /\ diags # 0
            /\ status' \in {"crashed", "aborted"} \/ OnCourse(todo', vals', diags')
        BY <1>1, <1>5, <2>1, <2>5, <3>1, <3>3, StepOnCourse
      <4>2. status' \in {"crashed", "aborted"} \/ Course'  BY <4>1 DEF Course
      <4> QED  BY <2>3, <4>1, <4>2
    <3> QED  BY <3>1, <3>2, <3>3
  <2>6. CASE todo = Make("module", 1) /\ Fits(vals, <<"list">>, diags) /\ AtEnd
    <3>1. /\ status' = status
          /\ todo' = <<>> /\ Len(vals') = 1 /\ Root'[1] = "module" /\ AtEnd'
      BY <1>1, <1>5, <2>1, <2>6, StepAtModule
    <3>2. Course'  BY <3>1 DEF Course
    <3> QED  BY <2>1, <2>3, <3>1, <3>2
  <2> QED  BY <2>1, <2>2, <2>4, <2>5, <2>6 DEF Course
<1> QED  BY <1>3, <1>4, <1>5

-----------------------------------------------------------------------------
(* What is left to do in the recognizers under way always takes from the   *)
(* stack what they put there, for every text.                              *)
THEOREM ParserInvariance ==
    Spec => []ParserInvariant
<1>1. Init => ParserInvariant  BY StartIsAToken
<1>2. ParserInvariant /\ [Next]_vars => ParserInvariant'  BY InvariantKept
<1> QED  BY <1>1, <1>2, PTL DEF Spec

(* The parser looks at tokens of its text and never behind its end.        *)
THEOREM ReadingStaysInside ==
    Spec => []ReadsInsideText
<1>1. ParserInvariant => ReadsInsideText
  <2>1. ASSUME Places PROVE ReadsInsideText
    BY <2>1, ParserConstants DEF Places, ReadsInsideText, Text
  <2> QED  BY <2>1 DEF ParserInvariant
<1> QED  BY <1>1, ParserInvariance, PTL

(* A parse without an error gives no builder a missing node, reads the     *)
(* text to its end and makes one module of it.                             *)
THEOREM SilenceIsClean ==
    Spec => []SilentEndsAreClean
<1>1. ParserInvariant => SilentEndsAreClean
  <2> SUFFICES ASSUME ParserInvariant, diags = 0
               PROVE  /\ status # "crashed"
                      /\ status = "done" => /\ ~recovering /\ Current = "eof"
                                           /\ Len(vals) = 1 /\ Root[1] = "module"
    BY DEF SilentEndsAreClean
  <2>1. status # "crashed" /\ status # "aborted"  BY DEF ParserInvariant, Errors
  <2>2. ASSUME status = "done"
        PROVE  ~recovering /\ Current = "eof" /\ Len(vals) = 1 /\ Root[1] = "module"
    <3>1. Course /\ todo = <<>>  BY <2>2 DEF ParserInvariant
    <3>2. Rec("Program") # <<>> /\ Make("module", 1) # <<>>  BY OneItem DEF Rec, Make
    <3>3. ~OnCourse(<<>>, vals, diags)
      <4> SUFFICES ASSUME NEW items, NEW stack, <<>> = items \o Closing,
                          Typed(items, stack, <<"list">>)
                   PROVE  FALSE
        BY DEF OnCourse
      <4>1. PICK S : items \in Seq(S)  BY TypedEnds
      <4>2. PICK T : Closing \in Seq(T)  BY ClosingIs
      <4> DEFINE U == S \cup T
      <4>3. S \subseteq U /\ T \subseteq U  OBVIOUS
      <4> HIDE DEF U
      <4>4. items \in Seq(U) /\ Closing \in Seq(U)  BY <4>1, <4>2, <4>3, SeqMonotonic
      <4>5. Closing = <<>>  BY <4>4, ConcatEqualIffEmpty
      <4> QED  BY <4>5, ClosingIs
    <3>4. Len(vals) = 1 /\ Root[1] = "module" /\ AtEnd  BY <3>1, <3>2, <3>3 DEF Course
    <3> QED  BY <3>4 DEF AtEnd
  <2> QED  BY <2>1, <2>2
<1> QED  BY <1>1, ParserInvariance, PTL
=============================================================================

------------------------------- MODULE Tokens -------------------------------
(***************************************************************************)
(* The tokens of the language as the parser sees them: their kinds, which  *)
(* of them are operators, and how tightly each operator binds.  A token is *)
(* written here as the text it stands for; identifiers and literals are    *)
(* members of two small sets, since nothing in the parser looks at what    *)
(* they say.                                                               *)
(***************************************************************************)
EXTENDS Integers

CONSTANTS Names,      \* identifiers
          Literals    \* integer, float and string constants

(* The kind of a token: its own text, but for identifiers and literals.    *)
Kind(token) == CASE token \in Names    -> "identifier"
                 [] token \in Literals -> "literal"
                 [] OTHER              -> token

UnaryOps == {"-", "~", "!"}

(* The rows of the operator table.  "(" "[" and "." are operators: calls,  *)
(* subscripts and field accesses are found by precedence climbing too.     *)
OperatorsAt == [level \in 0..7 |->
    CASE level = 0 -> {"=", "+=", "-=", "*=", "/="}
      [] level = 1 -> {"||", "=>"}
      [] level = 2 -> {"&&"}
      [] level = 3 -> {"<", ">", "<=", ">=", "==", "!="}
      [] level = 4 -> {"+", "-", "|"}
      [] level = 5 -> {"*", "/", "%", "&"}
      [] level = 6 -> {"**", "^", "<<", ">>"}
      [] OTHER     -> {".", "[", "("}]

BinaryOps == UNION {OperatorsAt[level] : level \in 0..7}

(* -1, below every level, for a token that is no binary operator.          *)
Precedence(op) == IF op \in BinaryOps
                  THEN CHOOSE level \in 0..7 : op \in OperatorsAt[level]
                  ELSE -1

RightAssoc(op) == op \in {"^", "**"}
=============================================================================

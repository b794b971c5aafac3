----------------------------- MODULE Dictionary -----------------------------
(***************************************************************************)
(* What a GC map promises its callers: a partial function from keys to     *)
(* values.  Adding binds, removing unbinds, and a lookup answers from the  *)
(* binding alone.  Nothing of the table behind it is visible.              *)
(***************************************************************************)
CONSTANTS Keys,     \* the primitive values (numbers, strings) used as keys
          Values,   \* the values a key can be bound to
          Nil       \* what a failed lookup hands back

VARIABLES dict,     \* the bindings, a function on the bound keys
          answer    \* what the last lookup returned

vars == <<dict, answer>>

NoAnswer == [found |-> FALSE, value |-> Nil]
Hit(v)   == [found |-> TRUE, value |-> v]

Init ==
    /\ dict = [k \in {} |-> Nil]
    /\ answer = NoAnswer

Bind(k, v) ==
    /\ dict' = [j \in DOMAIN dict \cup {k} |-> IF j = k THEN v ELSE dict[j]]
    /\ UNCHANGED answer

Unbind(k) ==
    /\ dict' = [j \in DOMAIN dict \ {k} |-> dict[j]]
    /\ UNCHANGED answer

Lookup(k) ==
    /\ answer' = IF k \in DOMAIN dict THEN Hit(dict[k]) ELSE NoAnswer
    /\ UNCHANGED dict

Next ==
    \E k \in Keys :
        \/ \E v \in Values : Bind(k, v)
        \/ Unbind(k)
        \/ Lookup(k)

Spec == Init /\ [][Next]_vars
=============================================================================

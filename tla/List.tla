-------------------------------- MODULE List --------------------------------
(***************************************************************************)
(* What a GC array promises its callers (value.h, "Add [value] to          *)
(* [array]" and what follows): a list that grows at its end, gives what is *)
(* at an index, loses what is at an index, and refuses the indices it does *)
(* not have.                                                               *)
(***************************************************************************)
EXTENDS Integers, Sequences

CONSTANTS Values,   \* what an array holds
          Nil,      \* what a refused fetch hands back
          Indices   \* the indices asked for, from 0

VARIABLES items,    \* the list
          answer    \* what the last operation returned

vars == <<items, answer>>

Done(v) == [ok |-> TRUE, value |-> v]
Refused == [ok |-> FALSE, value |-> Nil]

Init == items = <<>> /\ answer = Refused

Append1(v) ==
    /\ items' = Append(items, v)
    /\ UNCHANGED answer

Fetch(n) ==
    /\ answer' = IF n < Len(items) THEN Done(items[n + 1]) ELSE Refused
    /\ UNCHANGED items

Delete(n) ==
    IF n < Len(items)
    THEN /\ items' = [j \in 1 .. Len(items) - 1 |->
                          IF j <= n THEN items[j] ELSE items[j + 1]]
         /\ answer' = Done(Nil)
    ELSE answer' = Refused /\ UNCHANGED items

Next ==
    \/ \E v \in Values : Append1(v)
    \/ \E n \in Indices : Fetch(n) \/ Delete(n)

Spec == Init /\ [][Next]_vars
=============================================================================

------------------------------- MODULE MCTask -------------------------------
(***************************************************************************)
(* Task with a stack of two cells and room for one call: any call makes    *)
(* the stack grow, by one doubling or two, and may move both arrays.       *)
(***************************************************************************)
EXTENDS Task, TLC

CONSTANTS v1, main, twice, now, sum, block1, block2

Symmetry == Permutations({block1, block2})

MCNative == {main, twice}
MCForeign == {now, sum}
MCArity == [f \in MCNative \cup MCForeign |->
              CASE f = main -> 0 [] f = twice -> 1 [] f = now -> 0 [] f = sum -> 2]
MCLocals == [f \in MCNative |-> IF f = main THEN 0 ELSE 1]
MCDepth == [f \in MCNative |-> 2]
MCEffect == [f \in MCNative |-> IF f = main THEN 2 ELSE 3]
=============================================================================

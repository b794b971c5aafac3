------------------------------ MODULE MCLinking ------------------------------
(***************************************************************************)
(* Linking with one module of two constants and three small functions.     *)
(* Calls: main has a call of each symbol, next shares a constant with it,  *)
(* and make has instances to make, in the two ways there are.  Two foreign *)
(* functions may be registered in the place of main and next.              *)
(***************************************************************************)
EXTENDS Linking

CONSTANTS a, b, c, main, next, make, other, another, cls

MCSymbol == {a, b, c}
MCPool == <<a, b>>
MCNative == {main, next, make}
MCForeign == {other, another}
MCSignature ==
    [f \in MCNative \cup MCForeign |->
        IF f \in {main, other} THEN a ELSE IF f = make THEN c ELSE b]

Calls ==
    [f \in MCNative |->
        CASE f = main -> <<CODE_load_const, 0, 1, CODE_invoke_sym, 0, 0,
                           CODE_invoke_sym, 0, 1, CODE_ret>>
          [] f = next -> <<CODE_invoke_sym, 0, 1, CODE_ret_val>>
          [] f = make -> <<CODE_load_const, 0, 1, CODE_init_sym, 0, 1,
                           CODE_init, 0, 0, CODE_halt>>]
=============================================================================

----------------------------- MODULE Activations -----------------------------
(***************************************************************************)
(* What the call stack of a task promises the byte code: every activation  *)
(* has slots of its own, its parameters first, then its locals, then its   *)
(* operands.  A call takes its parameters from the operands of the caller; *)
(* a return resumes the caller where it was, with the result on top.       *)
(* Where the slots are in memory, and that they move, does not show.       *)
(***************************************************************************)
EXTENDS Integers, Sequences, SequencesExt

CONSTANTS
    Value,        \* the values of the language
    Junk,         \* the contents of memory nobody has written
    Native,       \* the byte code functions
    Main,         \* the entry point
    Arity,        \* for each function, its number of parameters
    LocalCount,   \* the locals a byte code function adds to them
    CodeLength    \* how many instructions a function has

VARIABLES calls   \* the activations, innermost last

Content == Value \cup {Junk}
Loc == 0 .. CodeLength

Top == calls[Len(calls)]
SetTop(c) == [calls EXCEPT ![Len(calls)] = c]

(* A frame of f on the parameters args.  Its locals are not initialised.   *)
Frame(f, args, locals) == [fn |-> f, pc |-> 0, slots |-> args \o locals]
Locals(f) == [1 .. LocalCount[f] -> Content]

Init == \E x \in Locals(Main) : calls = <<Frame(Main, <<>>, x)>>

(* The innermost activation, with other slots and at another address.      *)
With(slots, l) == SetTop([fn |-> Top.fn, pc |-> l, slots |-> slots])

Become(slots, l) == calls' = With(slots, l)

(* The topmost n slots give way to a computed value, or to none.           *)
Compute(n, new, l) ==
    Become(SubSeq(Top.slots, 1, Len(Top.slots) - n) \o new, l)

(* A parameter or local is copied to the top, or set from there.           *)
Fetch(l) ==
    \E i \in 1 .. Len(Top.slots) : Become(Append(Top.slots, Top.slots[i]), l)

Assign(l) ==
    \E i \in 1 .. Len(Top.slots) - 1 :
        Become(Front([Top.slots EXCEPT ![i] = Last(Top.slots)]), l)

Exchange(l) ==
    LET n == Len(Top.slots)
    IN  /\ n >= 2
        /\ Become([Top.slots EXCEPT ![n] = Top.slots[n - 1], ![n - 1] = Top.slots[n]], l)

Invoke(f, l) ==
    /\ Arity[f] <= Len(Top.slots)
    /\ LET own == SubSeq(Top.slots, 1, Len(Top.slots) - Arity[f])
           args == SubSeq(Top.slots, Len(own) + 1, Len(Top.slots))
       IN  \E x \in Locals(f) :
             calls' = Append(With(own, l), Frame(f, args, x))

(* A return hands n slots, none or one, to the caller; the one of the last *)
(* activation ends the task.                                               *)
Return(n) ==
    /\ n <= Len(Top.slots)
    /\ LET outer  == Front(calls)
           result == SubSeq(Top.slots, Len(Top.slots) - n + 1, Len(Top.slots))
       IN  calls' = IF outer = <<>> THEN <<>>
                    ELSE [outer EXCEPT ![Len(outer)] =
                            [fn |-> @.fn, pc |-> @.pc, slots |-> @.slots \o result]]

Next ==
    /\ calls # <<>>
    /\ \E l \in Loc :
        \/ \E n \in 0 .. Len(Top.slots), new \in SeqOf(Value, 1) : Compute(n, new, l)
        \/ Fetch(l)
        \/ Assign(l)
        \/ Exchange(l)
        \/ \E f \in Native : Invoke(f, l)
        \/ \E n \in 0 .. 1 : Return(n)

Spec == Init /\ [][Next]_calls
=============================================================================

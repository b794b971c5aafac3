------------------------------ MODULE GCArray ------------------------------
(***************************************************************************)
(* The growable array of the run-time (value.c, "Array functions           *)
(* implementation").  Its memory doubles and never shrinks; what lies past *)
(* the end is what an earlier removal left there, or was never written.    *)
(*                                                                         *)
(* No code of the repository but the tests asks for an index yet.  Careful *)
(* says which callers there are: those that stay below the size, or those  *)
(* that count on the array to refuse, as value.h tells them.               *)
(***************************************************************************)
EXTENDS Integers

CONSTANTS
    Values,            \* what is stored
    Nil,               \* VAL_NIL
    Junk,              \* memory nobody has written yet
    DefaultCapacity,   \* GCARRAY_DEFAULT_CAPACITY
    Careful,           \* the callers never ask for an index past the end
    Wrap,              \* sizes are counted modulo this: 2^64
    MaxSize            \* bound: no more values than this are added

ASSUME ArrayConstants ==
    /\ Junk \notin Values
    /\ DefaultCapacity \in Nat \ {0}
    /\ Careful \in BOOLEAN
    /\ MaxSize \in Nat
    /\ Wrap \in Nat /\ Wrap > 2 * MaxSize

VARIABLES
    data,       \* array->data: the cells, indexed from 0
    size,       \* array->size
    capacity,   \* array->capacity
    answer,     \* what the last operation returned
    strayed     \* it touched memory outside the cells

vars == <<data, size, capacity, answer, strayed>>
-----------------------------------------------------------------------------
Done(v) == [ok |-> TRUE, value |-> v]
Refused == [ok |-> FALSE, value |-> Nil]

(* a - b, without a sign.                                                  *)
Minus(a, b) == IF a >= b THEN a - b ELSE a - b + Wrap

Init ==
    /\ capacity = DefaultCapacity
    /\ data = [i \in 0 .. DefaultCapacity - 1 |-> Junk]
    /\ size = 0
    /\ answer = Refused
    /\ strayed = FALSE

(* Mistake: the array grows one value too late.                            *)
NeedsGrowthLate == size > capacity

NeedsGrowth == size + 1 > capacity

(* The cells after orbit_gcArrayGrow: realloc keeps the old ones.          *)
Grown == [i \in 0 .. 2 * capacity - 1 |-> IF i < capacity THEN data[i] ELSE Junk]

Add(v) ==
    /\ ~strayed /\ size < MaxSize
    /\ capacity' = IF NeedsGrowth THEN 2 * capacity ELSE capacity
    /\ data' = [(IF NeedsGrowth THEN Grown ELSE data) EXCEPT ![size] = v]
    /\ strayed' = (size >= capacity')
    /\ size' = size + 1
    /\ UNCHANGED answer

(* The index one past the end is let through.                              *)
InReach(n) == n <= size

Get(n) ==
    /\ ~strayed
    /\ IF InReach(n)
       THEN /\ strayed' = (n >= capacity)
            /\ answer' = Done(IF n < capacity THEN data[n] ELSE Junk)
       ELSE answer' = Refused /\ UNCHANGED strayed
    /\ UNCHANGED <<data, size, capacity>>

(* memmove takes `count` cells from n + 1 on, one cell down.               *)
Shifted(n, count) ==
    [i \in DOMAIN data |-> IF i >= n /\ i < n + count /\ i + 1 < capacity
                           THEN data[i + 1] ELSE data[i]]

(* Mistake: the cells are counted after the size has been taken twice.     *)
RemoveMovesTooFew(n) ==
    /\ ~strayed
    /\ IF InReach(n)
       THEN /\ size' = Minus(size, 1)
            /\ LET count == Minus(size', n + 1)
               IN  /\ data' = Shifted(n, count)
                   /\ strayed' = (count > 0 /\ n + count >= capacity)
            /\ answer' = Done(Nil)
       ELSE answer' = Refused /\ UNCHANGED <<data, size, strayed>>
    /\ UNCHANGED capacity

Remove(n) ==
    /\ ~strayed
    /\ IF InReach(n)
       THEN /\ size' = Minus(size, 1)
            /\ LET count == Minus(size', n)
               IN  /\ data' = Shifted(n, count)
                   /\ strayed' = (count > 0 /\ n + count >= capacity)
            /\ answer' = Done(Nil)
       ELSE answer' = Refused /\ UNCHANGED <<data, size, strayed>>
    /\ UNCHANGED capacity

Asked == {n \in 0 .. MaxSize : Careful => n < size}

Next ==
    \/ \E v \in Values : Add(v)
    \/ \E n \in Asked : Get(n) \/ Remove(n)

Spec == Init /\ [][Next]_vars
-----------------------------------------------------------------------------
TypeOK ==
    /\ capacity \in Nat \ {0}
    /\ data \in [0 .. capacity - 1 -> Values \cup {Junk}]
    /\ size \in 0 .. MaxSize
    /\ answer \in [ok : BOOLEAN, value : Values \cup {Nil, Junk}]
    /\ strayed \in BOOLEAN

(* No operation reads or writes outside the cells.                         *)
StaysInside == ~strayed

(* Every cell below the size has been given a value, across growths and    *)
(* removals: the collector marks them all.                                 *)
CellsAreWritten ==
    /\ size <= capacity
    /\ \A i \in 0 .. size - 1 : data[i] # Junk

L == INSTANCE List WITH items <- [j \in 1 .. size |-> data[j - 1]], Indices <- 0 .. MaxSize

(* The array is a list: growth and the cells past the end never show.      *)
ImplementsList == L!Spec

(* value.h: "If [index] is out of bounds, returns false", of the fetch and *)
(* of the removal.                                                         *)
OutOfBoundsIsRefused ==
    [][\A n \in 0 .. MaxSize :
          (n >= size /\ (Get(n) \/ Remove(n))) => ~answer'.ok]_vars
=============================================================================

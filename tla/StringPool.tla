----------------------------- MODULE StringPool -----------------------------
(***************************************************************************)
(* The pool of interned strings: one block of memory that strings are      *)
(* appended to, each behind a header.  The name of a string is its offset, *)
(* so names survive the moves of the block.  What a search makes of a      *)
(* header that was lost (see Torn) is not followed.                        *)
(***************************************************************************)
EXTENDS Integers, Sequences

CONSTANTS Header,          \* bytes of the header of a string and its final NUL
          FirstCapacity    \* bytes of the block at the start

ASSUME PoolConstants == Header \in Nat \ {0} /\ FirstCapacity \in Nat \ {0}

VARIABLES pool,       \* the strings in the block: records [data, at]
          capacity,   \* bytes of the block
          strayed     \* a string was written past the end of the block

poolVars == <<pool, capacity, strayed>>

EndOf(entry) == entry.at + Header + Len(entry.data)
Size         == IF pool = <<>> THEN 0 ELSE EndOf(pool[Len(pool)])

(* Mistake: two strings of the same length are taken for the same.         *)
SearchByLength(data) == {i \in DOMAIN pool : Len(pool[i].data) = Len(data)}

(* At most one, since nothing equal to an interned string is added.        *)
Search(data) == {i \in DOMAIN pool : pool[i].data = data}

(* The capacity doubles until the bytes of the string fit; the header is   *)
(* not counted.                                                            *)
Doubled(data) ==
    LET enough == {k \in 0..Len(data) + Header + Size :
                       Size + Len(data) <= capacity * 2^k}
    IN capacity * 2^(CHOOSE k \in enough : \A l \in enough : k <= l)

(* The name under which data will be found. *)
NameFor(data) == IF Search(data) = {} THEN Size
                 ELSE pool[CHOOSE i \in Search(data) : TRUE].at

(* A string that ends behind the block: when the block moves, what lies    *)
(* behind the old end need not be moved with it.  The characters begin     *)
(* behind the header, in front of the NUL.                                 *)
Unwritten == "unwritten"

Torn(entry) ==
    [entry EXCEPT !.data = [i \in DOMAIN entry.data |->
        IF entry.at + Header - 2 + i < capacity THEN entry.data[i] ELSE Unwritten]]

(* Only the last string can reach behind the block, and when it does the   *)
(* block grows before the next one is added.                               *)
Moved ==
    IF Size > capacity
    THEN {pool, [pool EXCEPT ![Len(pool)] = Torn(pool[Len(pool)])]}
    ELSE {pool}

Intern(data) ==
    IF Search(data) # {} THEN UNCHANGED poolVars
    ELSE LET entry == [data |-> data, at |-> Size] IN
         /\ \E moved \in Moved : pool' = Append(moved, entry)
         /\ capacity' = Doubled(data)
         /\ strayed' = (strayed \/ EndOf(entry) > capacity')

Get(name) == (CHOOSE entry \in {pool[i] : i \in DOMAIN pool} : entry.at = name).data

PoolInit == pool = <<>> /\ capacity = FirstCapacity /\ strayed = FALSE
=============================================================================

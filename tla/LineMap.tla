------------------------------ MODULE LineMap ------------------------------
(***************************************************************************)
(* The line table of a source: the offsets at which lines begin, found as  *)
(* far as anything has been located.                                       *)
(***************************************************************************)
EXTENDS Integers, Sequences, FiniteSets

CONSTANT FirstLines      \* line starts the first table has room for

VARIABLES text,          \* the source, a sequence of characters
          lines,         \* the line starts found so far
          room           \* line starts the table has room for

NewLines(from) == {p \in from..(Len(text) - 1) : text[p + 1] = "\n"}
LastStart      == lines[Len(lines)]

-----------------------------------------------------------------------------
(* Mistake: the scan begins behind the location, past lines in between.    *)
FoundFromLoc(loc) == {p \in NewLines(loc) : \A q \in NewLines(loc) : p <= q}

(* A place behind the last known line start has the newlines looked for,   *)
(* up to the first one at the place or after it.                           *)
Found(loc) == {p \in NewLines(LastStart) : \A q \in NewLines(loc) : p <= q}

(* The members of a set of numbers from the least to the greatest: the one *)
(* at i has i - 1 below it.                                                *)
Ascending(S) ==
    [i \in 1..Cardinality(S) |-> CHOOSE x \in S : Cardinality({y \in S : y < x}) = i - 1]

InsertLines(loc) == lines' = lines \o Ascending({p + 1 : p \in Found(loc)})

(* Room for the new lines and one more, or the table is reallocated.       *)
Reallocates(loc) == Found(loc) # {} /\ Len(lines) + Cardinality(Found(loc)) >= room

RoomFor(n) ==
    LET enough == {k \in 0..n : n <= room * 2^k}
    IN room * 2^(CHOOSE k \in enough : \A l \in enough : k <= l)

Ensure(loc) == room' = IF Reallocates(loc)
                       THEN RoomFor(Len(lines) + Cardinality(Found(loc))) ELSE room

(* Newlines before the place are passed, the last one inserted may be at   *)
(* the place or after it.                                                  *)
LineInserted(loc) == Len(lines) + Cardinality({p \in Found(loc) : p < loc})

LineSearched(loc) == {i \in 1..(Len(lines) - 1) : lines[i] <= loc /\ loc < lines[i + 1]}

Column(start, loc) == 1 + (loc - start)

(* The line and column of loc; the table is extended if it has to be.  The *)
(* column is read from the table as it was before: when that has moved,    *)
(* from memory given back (column -1, which no place has).                 *)
Locate(loc, line, column) ==
    \/ /\ loc >= LastStart
       /\ InsertLines(loc)
       /\ Ensure(loc)
       /\ line' = LineInserted(loc)
       /\ \/ column' = Column(lines'[line'], loc)
          \/ Reallocates(loc) /\ column' = -1
    \/ /\ loc < LastStart
       /\ UNCHANGED <<lines, room>>
       /\ line' = CHOOSE i \in LineSearched(loc) : TRUE
       /\ column' = Column(lines[line'], loc)

(* The assertions on the way. *)
Locatable(loc) == IF loc >= LastStart THEN loc < Len(text) ELSE LineSearched(loc) # {}

LineMapInit == lines = <<0>> /\ room = FirstLines
=============================================================================

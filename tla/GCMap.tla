-------------------------------- MODULE GCMap --------------------------------
(***************************************************************************)
(* The open-addressed hash map of the run-time (value.c, "Map functions    *)
(* implementations"): linear probing, tombstones left by removals, growth  *)
(* by doubling once an insertion would fill more than three quarters.      *)
(*                                                                         *)
(* The class table, the dispatch table, the module table and the method    *)
(* tables of classes are all such maps.                                    *)
(*                                                                         *)
(* orbit_gcMapGrow re-inserts the old entries one call of orbit_gcMapAdd   *)
(* at a time; each of those calls is a step here, and no other operation   *)
(* starts before the last of them.                                         *)
(***************************************************************************)
EXTENDS Integers, FiniteSets

CONSTANTS
    Keys,             \* the keys (numbers and strings, compared by content)
    Values,           \* the values stored under them
    Nil,              \* VAL_NIL
    NULL,             \* the C null pointer
    Hash,             \* orbit_valueHash, on Keys
    DefaultCapacity   \* GCMAP_DEFAULT_CAPACITY

ASSUME MapConstants ==
    /\ Nil \notin Keys
    /\ Nil \notin [key : Keys, value : Values]
    /\ NULL \notin Nat
    /\ Hash \in [Keys -> Nat]
    /\ DefaultCapacity \in Nat /\ DefaultCapacity >= 2

\* `hash & mask` is `hash % capacity` for a power of two only.
ASSUME MaskIsModulo == \E n \in 1 .. DefaultCapacity : DefaultCapacity = 2 ^ n

VARIABLES
    data,       \* map->data: the slots, indexed from 0
    size,       \* map->size: the number of live entries
    capacity,   \* map->capacity
    old,        \* oldData of the growth in progress
    cursor,     \* its loop index
    pending,    \* the arguments of the orbit_gcMapAdd that made the map grow
    answer      \* what the last orbit_gcMapGet returned

vars == <<data, size, capacity, old, cursor, pending, answer>>
-----------------------------------------------------------------------------
(* Slots.  A nil key with a false value is free, a nil key with a true     *)
(* value is what a removal leaves.                                         *)
Empty     == [key |-> Nil, value |-> FALSE]
Tombstone == [key |-> Nil, value |-> TRUE]
Entry(k, v) == [key |-> k, value |-> v]
Slot == {Empty, Tombstone} \cup [key : Keys, value : Values]

NoAnswer == [found |-> FALSE, value |-> Nil]
Hit(v)   == [found |-> TRUE, value |-> v]

Idle    == pending = Nil
Growing == pending # Nil

(* How many probes after its home slot the search for k looks at slot i.   *)
Home(k, cap) == Hash[k] % cap
Dist(k, i, cap) ==
    IF i >= Home(k, cap) THEN i - Home(k, cap) ELSE i - Home(k, cap) + cap

FirstProbed(k, S, cap) ==
    CHOOSE i \in S : \A j \in S : Dist(k, i, cap) <= Dist(k, j, cap)

(* The search ends at the key or at the first free slot; tombstones are    *)
(* only handed out once the whole table has been walked.                   *)
Stops(d, cap, k) == {i \in 0 .. cap - 1 : d[i] = Empty \/ d[i].key = k}
Tombs(d, cap)    == {i \in 0 .. cap - 1 : d[i] = Tombstone}
(* Mistake: a tombstone ends the search like a free slot.                  *)
FindSlotStopsAtTombstone(d, cap, k) ==
    LET S == {i \in 0 .. cap - 1 : d[i].key \in {Nil, k}}
    IN  IF S # {} THEN FirstProbed(k, S, cap) ELSE NULL

FindSlot(d, cap, k) ==
    IF Stops(d, cap, k) # {} THEN FirstProbed(k, Stops(d, cap, k), cap)
    ELSE IF Tombs(d, cap) # {} THEN FirstProbed(k, Tombs(d, cap), cap)
    ELSE NULL

(* Mistake: the table grows when it is full, not when it is nearly so.     *)
NeedsGrowthWhenFull == size + 1 > capacity

NeedsGrowth == 4 * (size + 1) > 3 * capacity

Used(d, cap) == {i \in 0 .. cap - 1 : d[i].key # Nil}
-----------------------------------------------------------------------------
(* orbit_gcMapNew: the first growth finds no entry to move.                *)
Init ==
    /\ capacity = DefaultCapacity
    /\ data = [i \in 0 .. DefaultCapacity - 1 |-> Empty]
    /\ size = 0
    /\ old = [i \in {} |-> Empty]
    /\ cursor = 0
    /\ pending = Nil
    /\ answer = NoAnswer

(* Mistake: overwriting a key counts as a new entry.                       *)
InsertCountsOverwrites(k, v) ==
    LET slot == FindSlot(data, capacity, k)
    IN  /\ data' = [data EXCEPT ![slot] = Entry(k, v)]
        /\ size' = size + 1

(* The tail of orbit_gcMapAdd, once there is room.                         *)
Insert(k, v) ==
    LET slot == FindSlot(data, capacity, k)
    IN  /\ data' = [data EXCEPT ![slot] = Entry(k, v)]
        /\ size' = IF data[slot].key = Nil THEN size + 1 ELSE size

Add(k, v) ==
    /\ Idle
    /\ ~NeedsGrowth
    /\ Insert(k, v)
    /\ UNCHANGED <<capacity, old, cursor, pending, answer>>

(* Mistake: the new entry is counted before the table grows, and the count *)
(* kept across a growth that counts the entries anew.                      *)
GrowCountsFirst(k, v) ==
    /\ Idle
    /\ NeedsGrowth
    /\ capacity' = 2 * capacity
    /\ data' = [i \in 0 .. 2 * capacity - 1 |-> Empty]
    /\ size' = size + 1
    /\ old' = data
    /\ cursor' = 0
    /\ pending' = Entry(k, v)
    /\ UNCHANGED answer

(* orbit_gcMapAdd finds the map too full: a table of twice the capacity    *)
(* replaces the slots.                                                     *)
Grow(k, v) ==
    /\ Idle
    /\ NeedsGrowth
    /\ capacity' = 2 * capacity
    /\ data' = [i \in 0 .. 2 * capacity - 1 |-> Empty]
    /\ size' = 0
    /\ old' = data
    /\ cursor' = 0
    /\ pending' = Entry(k, v)
    /\ UNCHANGED answer

(* Mistake: skipping a free slot forgets to advance.                       *)
RehashStuckOnNil ==
    /\ Growing
    /\ cursor \in DOMAIN old
    /\ IF old[cursor].key = Nil
       THEN UNCHANGED <<data, size, cursor>>
       ELSE /\ Insert(old[cursor].key, old[cursor].value)
            /\ cursor' = cursor + 1
    /\ UNCHANGED <<capacity, old, pending, answer>>

(* One iteration of the loop over oldData.                                 *)
Rehash ==
    /\ Growing
    /\ cursor \in DOMAIN old
    /\ IF old[cursor].key = Nil
       THEN UNCHANGED <<data, size>>
       ELSE Insert(old[cursor].key, old[cursor].value)
    /\ cursor' = cursor + 1
    /\ UNCHANGED <<capacity, old, pending, answer>>

(* oldData is released and the insertion that started it all is carried    *)
(* out.                                                                    *)
FinishAdd ==
    /\ Growing
    /\ cursor \notin DOMAIN old
    /\ Insert(pending.key, pending.value)
    /\ old' = [i \in {} |-> Empty]
    /\ cursor' = 0
    /\ pending' = Nil
    /\ UNCHANGED <<capacity, answer>>

Get(k) ==
    /\ Idle
    /\ LET slot == data[FindSlot(data, capacity, k)]
       IN  answer' = IF slot.key = Nil THEN NoAnswer ELSE Hit(slot.value)
    /\ UNCHANGED <<data, size, capacity, old, cursor, pending>>

(* Mistake: a removal frees the slot instead of leaving a tombstone.       *)
RemoveFreesSlot(k) ==
    /\ Idle
    /\ LET slot == FindSlot(data, capacity, k)
       IN  IF data[slot].key = Nil
           THEN UNCHANGED <<data, size>>
           ELSE /\ data' = [data EXCEPT ![slot] = Empty]
                /\ size' = size - 1
    /\ UNCHANGED <<capacity, old, cursor, pending, answer>>

(* Mistake: removing a missing key is not told from removing one.          *)
RemoveUnchecked(k) ==
    /\ Idle
    /\ data' = [data EXCEPT ![FindSlot(data, capacity, k)] = Tombstone]
    /\ size' = size - 1
    /\ UNCHANGED <<capacity, old, cursor, pending, answer>>

Remove(k) ==
    /\ Idle
    /\ LET slot == FindSlot(data, capacity, k)
       IN  IF data[slot].key = Nil
           THEN UNCHANGED <<data, size>>
           ELSE /\ data' = [data EXCEPT ![slot] = Tombstone]
                /\ size' = size - 1
    /\ UNCHANGED <<capacity, old, cursor, pending, answer>>

Next ==
    \/ \E k \in Keys :
          \/ \E v \in Values : Add(k, v) \/ Grow(k, v)
          \/ Get(k)
          \/ Remove(k)
    \/ Rehash
    \/ FinishAdd

Spec == Init /\ [][Next]_vars

(* The program is sequential: a growth that started runs to its end.       *)
FairSpec == Spec /\ WF_vars(Rehash \/ FinishAdd)
-----------------------------------------------------------------------------
TypeOK ==
    /\ capacity \in Nat /\ capacity >= 2
    /\ data \in [0 .. capacity - 1 -> Slot]
    /\ size \in Nat
    /\ pending \in {Nil} \cup [key : Keys, value : Values]
    /\ answer \in {NoAnswer} \cup [found : {TRUE}, value : Values]
    /\ cursor \in Nat
    /\ Idle => old = [i \in {} |-> Empty] /\ cursor = 0
    /\ Growing => \E n \in 2 .. capacity :
                      /\ capacity = 2 * n
                      /\ old \in [0 .. n - 1 -> Slot]
                      /\ cursor <= n

(* Probing for any key ends on a slot: orbit_gcMapAdd, Get and Remove      *)
(* dereference what orbit_gcMapFindSlot returns without a test.            *)
SearchNeverFails == \A k \in Keys : FindSlot(data, capacity, k) # NULL

(* Every entry is where the search for its key stops, whatever was added,  *)
(* removed or moved before: removals never cut a probe sequence.           *)
EntriesAreFindable ==
    \A i \in Used(data, capacity) : FindSlot(data, capacity, data[i].key) = i

(* map->size is the number of entries, through overwrites, removals and    *)
(* growth; the load factor rests on it.                                    *)
SizeIsEntryCount == size = Cardinality(Used(data, capacity))

(* The insertions of orbit_gcMapGrow never make the new table grow again   *)
(* while the old one is still being read.                                  *)
RehashFits == (Growing /\ cursor \in DOMAIN old) => ~NeedsGrowth

(* A growth ends.                                                          *)
GrowthEnds == Growing ~> Idle

(* What the map holds for its callers, in the middle of a growth too: the  *)
(* entries moved so far and those still in the old slots.                  *)
Moved(k)  == {i \in DOMAIN data : data[i].key = k}
Unmoved(k) == {i \in DOMAIN old : i >= cursor /\ old[i].key = k}
Contents ==
    [k \in {j \in Keys : Moved(j) # {} \/ Unmoved(j) # {}} |->
        IF Moved(k) # {} THEN data[CHOOSE i \in Moved(k) : TRUE].value
                         ELSE old[CHOOSE i \in Unmoved(k) : TRUE].value]

D == INSTANCE Dictionary WITH dict <- Contents

(* The table implements the dictionary: growth, collisions and tombstones  *)
(* never show.                                                             *)
ImplementsDictionary == D!Spec
=============================================================================

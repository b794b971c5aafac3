------------------------------- MODULE RCMap -------------------------------
(***************************************************************************)
(* The map from interned names to counted objects the analysis keeps its   *)
(* tables in: open addressing with linear probing, doubled when more than  *)
(* three quarters full.  A map is a record; the counts of the values are   *)
(* the business of the operations of Analysis that call these.  Removal,   *)
(* and with it the tombstones, has no caller.                              *)
(***************************************************************************)
EXTENDS Integers, FiniteSetsExt, SequencesExt

CONSTANTS Hash,        \* of each name
          Capacity     \* of a new map, 32 in the code

NoKey   == "no key"
NoValue == 0

RCMapInit(capacity) ==
    [slots |-> [i \in 0..(capacity - 1) |-> [key |-> NoKey, value |-> NoValue]],
     size  |-> 0]

CapacityOf(map) == Cardinality(DOMAIN map.slots)

(* Mistake: the first slot with the hash of the key, whoever has it.       *)
FindSlotByHash(map, key) == Hash[key] % CapacityOf(map)

(* Slots are probed from the hash on, round the table, until one is free   *)
(* or has the key; the growth threshold leaves at least one free.          *)
FindSlot(map, key) ==
    LET Slot(distance) == (Hash[key] + distance) % CapacityOf(map)
    IN Slot(Min({d \in 0..(CapacityOf(map) - 1) : map.slots[Slot(d)].key \in {NoKey, key}}))

Store(map, key, value) ==
    LET slot == FindSlot(map, key)
        new  == IF map.slots[slot].key = NoKey THEN 1 ELSE 0
    IN [slots |-> [map.slots EXCEPT ![slot] = [key |-> key, value |-> value]],
        size  |-> map.size + new]

SlotsInOrder(map) == [i \in 1..CapacityOf(map) |-> map.slots[i - 1]]

(* Entries are moved in the order of the old slots.  Each value is         *)
(* retained by the new table and released by the old one.                  *)
Grow(map) ==
    FoldLeft(LAMBDA grown, entry: IF entry.key = NoKey THEN grown
                                  ELSE Store(grown, entry.key, entry.value),
             RCMapInit(2 * CapacityOf(map)), SlotsInOrder(map))

NeedsGrowth(map) == 4 * map.size > 3 * CapacityOf(map)

(* A value that was under the key is forgotten, not released.              *)
Insert(map, key, value) ==
    Store(IF NeedsGrowth(map) THEN Grow(map) ELSE map, key, value)

Get(map, key) == map.slots[FindSlot(map, key)].value

(* What the map releases when it goes, slot by slot.                       *)
Values(map) == SelectSeq([i \in 1..CapacityOf(map) |-> map.slots[i - 1].value],
                         LAMBDA value: value # NoValue)
=============================================================================

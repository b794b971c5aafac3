--------------------------- MODULE GCArrayProofs ---------------------------
(***************************************************************************)
(* Under callers that stay below the size, for every capacity, every bound *)
(* and every set of values: the array never strays from its cells, and it  *)
(* implements the list of module List.                                     *)
(***************************************************************************)
EXTENDS GCArray, Sequences, TLAPS

(* Nothing was let through that is not below the size: the counts that     *)
(* wrap around never do.                                                   *)
ArrayInv == TypeOK /\ CellsAreWritten /\ StaysInside

LEMMA MinusOne ==
    ASSUME NEW s \in Nat, NEW n \in Nat, n < s
    PROVE  Minus(s, 1) = s - 1 /\ Minus(s - 1, n) = s - 1 - n
BY DEF Minus

LEMMA InitInv == Init => ArrayInv
<1> SUFFICES ASSUME Init PROVE ArrayInv
  OBVIOUS
<1> USE ArrayConstants DEF Init
<1>1. ~strayed /\ strayed \in BOOLEAN  BY Zenon
<1>2. answer \in [ok : BOOLEAN, value : Values \cup {Nil, Junk}]  BY DEF Refused
<1>3. size \in 0 .. MaxSize /\ capacity \in Nat \ {0} /\ size <= capacity  OBVIOUS
<1>4. data \in [0 .. capacity - 1 -> Values \cup {Junk}]  OBVIOUS
<1>5. \A i \in 0 .. size - 1 : data[i] # Junk  OBVIOUS
<1> QED  BY <1>1, <1>2, <1>3, <1>4, <1>5 DEF ArrayInv, TypeOK, CellsAreWritten, StaysInside

LEMMA AddInv == ASSUME ArrayInv, NEW v \in Values, Add(v) PROVE ArrayInv'
<1> USE ArrayConstants DEF ArrayInv, TypeOK, CellsAreWritten, StaysInside
<1>1. CASE NeedsGrowth
  BY <1>1 DEF Add, Grown, NeedsGrowth
<1>2. CASE ~NeedsGrowth
  BY <1>2 DEF Add, NeedsGrowth
<1> QED  BY <1>1, <1>2

LEMMA GetInv ==
    ASSUME Careful, ArrayInv, NEW n \in Asked, Get(n) PROVE ArrayInv'
<1> USE ArrayConstants DEF ArrayInv, TypeOK, CellsAreWritten
<1>1. n \in Nat /\ n < size /\ ~(n >= capacity) /\ n < capacity  BY DEF Asked
<1>2. InReach(n)  BY <1>1 DEF InReach
<1>3. strayed' = (n >= capacity)  BY <1>2, Zenon DEF Get
<1>4. ~strayed' /\ strayed' \in BOOLEAN
  <2> DEFINE past == n >= capacity
  <2>1. ~past /\ past \in BOOLEAN  BY <1>1
  <2>2. strayed' = past  BY <1>3
  <2> HIDE DEF past
  <2> QED  BY <2>1, <2>2, Zenon
<1>5. answer' = Done(data[n])  BY <1>1, <1>2, Zenon DEF Get
<1>6. data[n] \in Values \cup {Junk}  BY <1>1
<1>7. answer' \in [ok : BOOLEAN, value : Values \cup {Nil, Junk}]  BY <1>5, <1>6 DEF Done
<1>8. UNCHANGED <<data, size, capacity>>  BY DEF Get
<1> QED  BY <1>4, <1>7, <1>8 DEF StaysInside

(* A removal inside the array moves the cells above the index down by one. *)
LEMMA RemoveEffect ==
    ASSUME Careful, ArrayInv, NEW n \in Asked, Remove(n)
    PROVE  /\ n \in Nat /\ n < size
           /\ size' = size - 1 /\ capacity' = capacity
           /\ data' = [i \in DOMAIN data |-> IF i >= n /\ i < size - 1
                                             THEN data[i + 1] ELSE data[i]]
           /\ ~strayed' /\ answer' = Done(Nil)
<1> USE ArrayConstants DEF ArrayInv, TypeOK, CellsAreWritten, StaysInside
<1>1. n \in Nat /\ n < size  BY DEF Asked
<1>2. InReach(n)  BY <1>1 DEF InReach
<1>3. size' = size - 1 /\ Minus(size', n) = size - 1 - n
  BY <1>1, <1>2, MinusOne DEF Remove
<1>4. data' = Shifted(n, size - 1 - n)  BY <1>2, <1>3 DEF Remove
<1>5. ~strayed'  BY <1>1, <1>2, <1>3 DEF Remove
<1> QED  BY <1>1, <1>2, <1>3, <1>4, <1>5 DEF Remove, Shifted

LEMMA RemoveInv ==
    ASSUME Careful, ArrayInv, NEW n \in Asked, Remove(n) PROVE ArrayInv'
<1>0. TypeOK /\ CellsAreWritten  BY DEF ArrayInv
<1> USE ArrayConstants, <1>0 DEF TypeOK, CellsAreWritten
<1>1. size \in Nat /\ capacity \in Nat /\ n \in Nat /\ n < size  BY RemoveEffect
<1>2. data' \in [0 .. capacity - 1 -> Values \cup {Junk}]  BY <1>1, RemoveEffect
<1>3. \A i \in 0 .. size - 2 : data'[i] # Junk  BY <1>1, RemoveEffect
<1>4. ~strayed' /\ strayed' \in BOOLEAN  BY RemoveEffect, Zenon DEF Remove
<1>5. answer' \in [ok : BOOLEAN, value : Values \cup {Nil, Junk}]
  <2>1. answer' = [ok |-> TRUE, value |-> Nil]  BY RemoveEffect, Zenon DEF Done
  <2> QED  BY <2>1
<1>6. capacity' \in Nat \ {0} /\ size' \in 0 .. MaxSize /\ size' <= capacity'
  BY <1>1, RemoveEffect
<1>7. TypeOK'  BY <1>2, <1>4, <1>5, <1>6, RemoveEffect
<1>8. CellsAreWritten'
  <2>1. \A i \in 0 .. size' - 1 : i \in 0 .. size - 2  BY <1>1, RemoveEffect
  <2> QED  BY <1>3, <1>6, <2>1, Zenon
<1> QED  BY <1>4, <1>7, <1>8 DEF ArrayInv, StaysInside

(* The type of the array holds forever, and it never leaves its cells.     *)
THEOREM ArrayInvariance == ASSUME Careful PROVE Spec => []ArrayInv
<1>1. ArrayInv /\ [Next]_vars => ArrayInv'
  <2> SUFFICES ASSUME ArrayInv, [Next]_vars PROVE ArrayInv'
    OBVIOUS
  <2>1. ASSUME NEW v \in Values, Add(v) PROVE ArrayInv'  BY <2>1, AddInv
  <2>2. ASSUME NEW n \in Asked, Get(n) PROVE ArrayInv'  BY <2>2, GetInv
  <2>3. ASSUME NEW n \in Asked, Remove(n) PROVE ArrayInv'  BY <2>3, RemoveInv
  <2>4. CASE UNCHANGED vars
    BY <2>4 DEF vars, ArrayInv, TypeOK, CellsAreWritten, StaysInside
  <2> QED  BY <2>1, <2>2, <2>3, <2>4 DEF Next
<1> QED  BY <1>1, InitInv, PTL DEF Spec

(* value.c never reads or writes outside array->data, for callers that do  *)
(* not ask for an index past the end.                                      *)
THEOREM ArrayStaysInside == ASSUME Careful PROVE Spec => []StaysInside
BY ArrayInvariance, PTL DEF ArrayInv
-----------------------------------------------------------------------------
(* The list that the cells hold.                                           *)
Items == [j \in 1 .. size |-> data[j - 1]]

LEMMA ItemsAreList ==
    ASSUME NEW n \in Nat, NEW f
    PROVE  LET s == [j \in 1 .. n |-> f[j - 1]] IN Len(s) = n /\ DOMAIN s = 1 .. n
OBVIOUS

LEMMA InitItems == Init => L!Init
<1> SUFFICES ASSUME Init PROVE L!Init
  OBVIOUS
<1>1. Items = <<>>  BY DEF Init, Items
<1> QED  BY <1>1 DEF Init, L!Init, Items, Refused, L!Refused

(* Adding appends, whether or not the array grows first.                   *)
LEMMA AddItems ==
    ASSUME ArrayInv, ArrayInv', NEW v \in Values, Add(v) PROVE L!Append1(v)
<1>1. size \in Nat /\ size <= capacity /\ capacity \in Nat
  BY DEF ArrayInv, TypeOK, CellsAreWritten
<1>2. size' = size + 1 /\ answer' = answer  BY DEF Add
<1>3. \A i \in 0 .. size - 1 : data'[i] = data[i]
  <2>1. CASE NeedsGrowth
    BY <1>1, <2>1 DEF Add, Grown, ArrayInv, TypeOK
  <2>2. CASE ~NeedsGrowth
    BY <1>1, <2>2 DEF Add, ArrayInv, TypeOK
  <2> QED  BY <2>1, <2>2
<1>4. data'[size] = v
  <2>1. CASE NeedsGrowth
    BY <1>1, <2>1 DEF Add, Grown, NeedsGrowth, ArrayInv, TypeOK
  <2>2. CASE ~NeedsGrowth
    BY <1>1, <2>2 DEF Add, NeedsGrowth, ArrayInv, TypeOK
  <2> QED  BY <2>1, <2>2
<1>5. Items' = Append(Items, v)
  <2>1. Items' = [j \in 1 .. size + 1 |-> data'[j - 1]]  BY <1>2 DEF Items
  <2>2. Items = [j \in 1 .. size |-> data[j - 1]]  BY DEF Items
  <2>3. Append(Items, v) = [j \in 1 .. size + 1 |-> IF j <= size THEN data[j - 1] ELSE v]
    BY <1>1, <2>2
  <2>4. \A j \in 1 .. size + 1 :
           data'[j - 1] = IF j <= size THEN data[j - 1] ELSE v
    BY <1>1, <1>3, <1>4
  <2> QED  BY <2>1, <2>3, <2>4
<1> QED  BY <1>2, <1>5 DEF L!Append1, Items

LEMMA GetItems ==
    ASSUME Careful, ArrayInv, NEW n \in Asked, Get(n) PROVE L!Fetch(n)
<1>1. n \in Nat /\ n < size /\ size \in Nat /\ size <= capacity /\ capacity \in Nat
  BY ArrayConstants DEF Asked, ArrayInv, TypeOK, CellsAreWritten
<1>2. InReach(n) /\ n < capacity  BY <1>1 DEF InReach
<1>3. answer' = Done(data[n])  BY <1>2, Zenon DEF Get
<1>4. Len(Items) = size /\ Items[n + 1] = data[n]
  BY <1>1, ItemsAreList DEF Items
<1>5. answer' = L!Done(Items[n + 1]) /\ n < Len(Items)
  BY <1>1, <1>3, <1>4 DEF Done, L!Done
<1>6. Items' = Items  BY DEF Get, Items
<1> QED  BY <1>5, <1>6 DEF L!Fetch, Items

LEMMA RemoveItems ==
    ASSUME Careful, ArrayInv, NEW n \in Asked, Remove(n) PROVE L!Delete(n)
<1>1. n \in Nat /\ n < size /\ size \in Nat /\ size <= capacity /\ capacity \in Nat
  BY RemoveEffect DEF ArrayInv, TypeOK, CellsAreWritten
<1>2. size' = size - 1 /\ answer' = Done(Nil)  BY RemoveEffect
<1>3. Len(Items) = size  BY <1>1, ItemsAreList DEF Items
<1>4. \A j \in 1 .. size - 1 : data'[j - 1] = IF j <= n THEN Items[j] ELSE Items[j + 1]
  <2>1. data' = [i \in 0 .. capacity - 1 |-> IF i >= n /\ i < size - 1
                                             THEN data[i + 1] ELSE data[i]]
    BY RemoveEffect DEF ArrayInv, TypeOK
  <2> QED  BY <1>1, <2>1 DEF Items
<1>5. Items' = [j \in 1 .. Len(Items) - 1 |-> IF j <= n THEN Items[j] ELSE Items[j + 1]]
  <2>1. Items' = [j \in 1 .. size - 1 |-> data'[j - 1]]  BY <1>2 DEF Items
  <2> QED  BY <1>3, <1>4, <2>1
<1> QED  BY <1>1, <1>2, <1>3, <1>5 DEF L!Delete, Items, Done, L!Done

(* Every step of the array is a step of the list, or leaves it alone: the  *)
(* growth, the cells past the end and the counts show nowhere.             *)
THEOREM ArrayImplementsList == ASSUME Careful PROVE Spec => ImplementsList
<1>1. ArrayInv /\ ArrayInv' /\ [Next]_vars => [L!Next]_(L!vars)
  <2> SUFFICES ASSUME ArrayInv, ArrayInv', [Next]_vars PROVE [L!Next]_(L!vars)
    OBVIOUS
  <2>1. ASSUME NEW v \in Values, Add(v) PROVE L!Next
    BY <2>1, AddItems DEF L!Next
  <2>2. ASSUME NEW n \in Asked, Get(n) PROVE L!Next
    BY <2>2, GetItems DEF L!Next, Asked
  <2>3. ASSUME NEW n \in Asked, Remove(n) PROVE L!Next
    BY <2>3, RemoveItems DEF L!Next, Asked
  <2>4. CASE UNCHANGED vars
    BY <2>4 DEF vars, L!vars
  <2> QED  BY <2>1, <2>2, <2>3, <2>4 DEF Next
<1> QED  BY <1>1, InitItems, ArrayInvariance, PTL DEF Spec, ImplementsList, L!Spec
=============================================================================

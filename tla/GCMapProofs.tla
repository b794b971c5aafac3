----------------------------- MODULE GCMapProofs -----------------------------
(***************************************************************************)
(* The hash map of the run-time is a correct table for every set of keys,  *)
(* every hash function and every default capacity, and so is the map the   *)
(* analysis of the compiler keeps its tables in.                           *)
(***************************************************************************)
EXTENDS GCMap, FiniteSetTheorems, TLAPS

(* No probe sequence is cut: before the slot of an entry, the search for   *)
(* its key meets neither a free slot nor the same key.                     *)
Unbroken(d, cap) ==
    \A i \in Used(d, cap), j \in 0 .. cap - 1 :
        Dist(d[i].key, j, cap) < Dist(d[i].key, i, cap)
            => d[j] # Empty /\ d[j].key # d[i].key

(* At most three quarters of the slots are used between two operations; a  *)
(* new table holds no more entries than the old slots already visited.     *)
LoadBound ==
    /\ Idle => 4 * size <= 3 * capacity
    /\ Growing => size <= cursor

IInv ==
    /\ TypeOK
    /\ Unbroken(data, capacity)
    /\ SizeIsEntryCount
    /\ LoadBound
-----------------------------------------------------------------------------
(* A non-empty set of naturals has a least element.                        *)
LEMMA NatMin ==
    ASSUME NEW S \in SUBSET Nat, S # {}
    PROVE  \E m \in S : \A n \in S : m <= n
<1>. DEFINE R == OpToRel(<, Nat)
<1>1. IsWellFoundedOn(R, Nat)
  BY NatLessThanWellFounded
<1>2. \A m, n \in Nat : n < m => <<n, m>> \in R
  BY DEF OpToRel
<1>. HIDE DEF R
<1>3. \E m \in S : \A n \in S : ~ (<<n, m>> \in R)
  BY <1>1, WFMin
<1>4. PICK m \in S : \A n \in S : ~ (<<n, m>> \in R)
  BY <1>3
<1>5. ASSUME NEW n \in S PROVE m <= n
  <2>1. m \in Nat /\ n \in Nat
    OBVIOUS
  <2>2. ~ (n < m)
    BY <1>2, <1>4, <2>1, Zenon
  <2>. QED
    BY <2>1, <2>2
<1>. QED
  BY <1>5

(* What slots look like.                                                   *)
LEMMA SlotCases ==
    /\ Empty \in Slot /\ Tombstone \in Slot
    /\ Empty.key = Nil /\ Tombstone.key = Nil
    /\ Empty # Tombstone
    /\ \A x \in Slot : x = Empty \/ x = Tombstone \/ x.key \in Keys
    /\ \A x \in Slot : x.key # Nil => x.key \in Keys /\ x.value \in Values
    /\ \A k \in Keys, v \in Values :
          Entry(k, v) \in Slot /\ Entry(k, v).key = k /\ Entry(k, v).value = v
    /\ Nil \notin Keys
BY MapConstants DEF Slot, Empty, Tombstone, Entry

(* The probe distance of a slot lies within the table and tells the slots  *)
(* apart.                                                                  *)
LEMMA DistType ==
    ASSUME NEW k \in Keys, NEW cap \in Nat, cap >= 2
    PROVE  /\ Home(k, cap) \in 0 .. cap - 1
           /\ \A i \in 0 .. cap - 1 : Dist(k, i, cap) \in 0 .. cap - 1
           /\ \A i, j \in 0 .. cap - 1 : Dist(k, i, cap) = Dist(k, j, cap) => i = j
<1>1. Hash[k] \in Nat
  BY MapConstants
<1>2. Home(k, cap) \in 0 .. cap - 1
  BY <1>1 DEF Home
<1>. QED
  BY <1>2 DEF Dist

(* The slot of a set that the search meets first exists.                   *)
LEMMA FirstProbedExists ==
    ASSUME NEW k \in Keys, NEW cap \in Nat, cap >= 2,
           NEW S \in SUBSET (0 .. cap - 1), S # {}
    PROVE  /\ FirstProbed(k, S, cap) \in S
           /\ \A j \in S : Dist(k, FirstProbed(k, S, cap), cap) <= Dist(k, j, cap)
<1>. DEFINE T == {Dist(k, i, cap) : i \in S}
<1>1. T \in SUBSET Nat /\ T # {}
  <2>1. \A i \in S : Dist(k, i, cap) \in Nat
    BY DistType
  <2>. QED
    BY <2>1
<1>2. PICK m \in T : \A n \in T : m <= n
  BY <1>1, NatMin
<1>3. \E i \in S : \A j \in S : Dist(k, i, cap) <= Dist(k, j, cap)
  BY <1>2
<1>. QED
  BY <1>3 DEF FirstProbed
-----------------------------------------------------------------------------
(* A table that is not all entries always yields a slot, and it is the     *)
(* right one: the entry of the key if there is one, else a slot to put it. *)
LEMMA FindSlotCorrect ==
    ASSUME NEW cap \in Nat, cap >= 2,
           NEW d \in [0 .. cap - 1 -> Slot],
           Unbroken(d, cap),
           Used(d, cap) # 0 .. cap - 1,
           NEW k \in Keys
    PROVE  LET s == FindSlot(d, cap, k)
           IN  /\ s \in 0 .. cap - 1
               /\ d[s].key \in {k, Nil}
               /\ \A i \in Used(d, cap) : d[i].key = k => i = s
               /\ \A j \in 0 .. cap - 1 :
                     Dist(k, j, cap) < Dist(k, s, cap)
                        => d[j] # Empty /\ d[j].key # k
<1>. DEFINE P == Stops(d, cap, k)
            T == Tombs(d, cap)
            s == FindSlot(d, cap, k)
<1>0. P \in SUBSET (0 .. cap - 1) /\ T \in SUBSET (0 .. cap - 1)
  BY DEF Stops, Tombs
<1>1. CASE P # {}
  <2>1. s = FirstProbed(k, P, cap)
    BY <1>1 DEF FindSlot
  <2>2. s \in P /\ \A j \in P : Dist(k, s, cap) <= Dist(k, j, cap)
    BY <2>1, <1>0, <1>1, FirstProbedExists
  <2>3. s \in 0 .. cap - 1 /\ (d[s] = Empty \/ d[s].key = k)
    BY <2>2 DEF Stops
  <2>4. d[s].key \in {k, Nil}
    BY <2>3, SlotCases
  <2>5. ASSUME NEW j \in 0 .. cap - 1, Dist(k, j, cap) < Dist(k, s, cap)
        PROVE  d[j] # Empty /\ d[j].key # k
    <3>1. Dist(k, j, cap) \in Nat /\ Dist(k, s, cap) \in Nat
      BY <2>3, DistType
    <3>2. j \notin P
      BY <2>2, <2>5, <3>1
    <3>. QED
      BY <3>2 DEF Stops
  <2>6. ASSUME NEW i \in Used(d, cap), d[i].key = k
        PROVE  i = s
    <3>1. i \in 0 .. cap - 1
      BY DEF Used
    <3>2. Dist(k, i, cap) \in Nat /\ Dist(k, s, cap) \in Nat
      BY <2>3, <3>1, DistType
    <3>3. ~ (Dist(k, i, cap) < Dist(k, s, cap))
      BY <2>5, <2>6, <3>1
    <3>4. ~ (Dist(k, s, cap) < Dist(k, i, cap))
      BY <2>3, <2>6 DEF Unbroken
    <3>. QED
      BY <2>3, <3>1, <3>2, <3>3, <3>4, DistType
  <2>. QED
    BY <2>3, <2>4, <2>5, <2>6
<1>2. CASE P = {}
  <2>1. \A j \in 0 .. cap - 1 : d[j] # Empty /\ d[j].key # k
    BY <1>2 DEF Stops
  <2>2. T # {}
    <3>1. PICK i \in 0 .. cap - 1 : d[i].key = Nil
      BY DEF Used
    <3>2. d[i] = Tombstone
      BY <2>1, <3>1, SlotCases
    <3>. QED
      BY <3>2 DEF Tombs
  <2>3. s = FirstProbed(k, T, cap)
    BY <1>2, <2>2 DEF FindSlot
  <2>4. s \in T
    BY <2>2, <2>3, <1>0, FirstProbedExists
  <2>5. s \in 0 .. cap - 1 /\ d[s].key = Nil
    BY <2>4, SlotCases DEF Tombs
  <2>. QED
    BY <2>1, <2>5 DEF Used
<1>. QED
  BY <1>1, <1>2

(* Storing an entry in the slot found for its key keeps every probe        *)
(* sequence whole.                                                         *)
LEMMA StoreUnbroken ==
    ASSUME NEW cap \in Nat, cap >= 2,
           NEW d \in [0 .. cap - 1 -> Slot],
           Unbroken(d, cap),
           Used(d, cap) # 0 .. cap - 1,
           NEW k \in Keys, NEW v \in Values
    PROVE  LET s == FindSlot(d, cap, k)
               e == [d EXCEPT ![s] = Entry(k, v)]
           IN  /\ e \in [0 .. cap - 1 -> Slot]
               /\ Unbroken(e, cap)
               /\ Used(e, cap) = Used(d, cap) \cup {s}
               /\ s \in Used(d, cap) <=> d[s].key # Nil
<1>. DEFINE s == FindSlot(d, cap, k)
            e == [d EXCEPT ![s] = Entry(k, v)]
<1>1. /\ s \in 0 .. cap - 1
      /\ d[s].key \in {k, Nil}
      /\ \A i \in Used(d, cap) : d[i].key = k => i = s
      /\ \A j \in 0 .. cap - 1 : Dist(k, j, cap) < Dist(k, s, cap)
                                    => d[j] # Empty /\ d[j].key # k
  BY FindSlotCorrect
<1>. HIDE DEF s
<1>2. /\ e \in [0 .. cap - 1 -> Slot]
      /\ e[s] = Entry(k, v) /\ e[s].key = k /\ e[s] # Empty
      /\ \A i \in 0 .. cap - 1 : i # s => e[i] = d[i]
  BY <1>1, SlotCases
<1>. HIDE DEF e
<1>3. Used(e, cap) = Used(d, cap) \cup {s}
  BY <1>1, <1>2, SlotCases DEF Used
<1>4. ASSUME NEW i \in Used(e, cap), NEW j \in 0 .. cap - 1,
             Dist(e[i].key, j, cap) < Dist(e[i].key, i, cap)
      PROVE  e[j] # Empty /\ e[j].key # e[i].key
  <2>1. i \in 0 .. cap - 1
    BY DEF Used
  <2>2. CASE i = s
    <3>1. Dist(k, j, cap) < Dist(k, s, cap)
      BY <1>2, <1>4, <2>2
    <3>2. j # s
      <4>1. Dist(k, s, cap) \in Nat
        BY <1>1, DistType
      <4>. QED
        BY <3>1, <4>1
    <3>. QED
      BY <1>1, <1>2, <2>2, <3>1, <3>2
  <2>3. CASE i # s
    <3>1. i \in Used(d, cap) /\ e[i] = d[i]
      BY <1>2, <1>3, <2>1, <2>3
    <3>2. d[j] # Empty /\ d[j].key # d[i].key
      BY <1>4, <3>1 DEF Unbroken
    <3>3. e[i].key # k
      BY <1>1, <2>3, <3>1
    <3>. QED
      BY <1>2, <3>1, <3>2, <3>3
  <2>. QED
    BY <2>2, <2>3
<1>5. Unbroken(e, cap)
  BY <1>4 DEF Unbroken
<1>6. s \in Used(d, cap) <=> d[s].key # Nil
  BY <1>1 DEF Used
<1>. QED
  BY <1>2, <1>3, <1>5, <1>6 DEF s, e
-----------------------------------------------------------------------------
LEMMA UsedIsFinite ==
    ASSUME NEW cap \in Nat, NEW d
    PROVE  /\ IsFiniteSet(Used(d, cap))
           /\ Cardinality(Used(d, cap)) \in Nat
           /\ Used(d, cap) = 0 .. cap - 1 => Cardinality(Used(d, cap)) = cap
<1>1. IsFiniteSet(0 .. cap - 1) /\ Cardinality(0 .. cap - 1) = cap
  BY FS_Interval
<1>2. Used(d, cap) \in SUBSET (0 .. cap - 1)
  BY DEF Used
<1>3. IsFiniteSet(Used(d, cap))
  BY <1>1, <1>2, FS_Subset
<1>. QED
  BY <1>1, <1>3, FS_CardinalityType

(* A table within its load bound has a slot that is not an entry.          *)
LEMMA NotFull ==
    ASSUME IInv
    PROVE  Used(data, capacity) # 0 .. capacity - 1
<1>1. size < capacity
  <2>1. CASE Idle
    BY <2>1 DEF IInv, TypeOK, LoadBound
  <2>2. CASE Growing
    BY <2>2 DEF IInv, TypeOK, LoadBound
  <2>. QED
    BY <2>1, <2>2 DEF Idle, Growing
<1>2. size = Cardinality(Used(data, capacity)) /\ capacity \in Nat
  BY DEF IInv, TypeOK, SizeIsEntryCount
<1>. QED
  BY <1>1, <1>2, UsedIsFinite

(* What the tail of orbit_gcMapAdd does to the table.                      *)
LEMMA InsertKeepsTable ==
    ASSUME IInv, NEW k \in Keys, NEW v \in Values, Insert(k, v), capacity' = capacity
    PROVE  /\ data' \in [0 .. capacity' - 1 -> Slot]
           /\ Unbroken(data', capacity')
           /\ SizeIsEntryCount'
           /\ size' \in Nat /\ size' <= size + 1
<1>. DEFINE s == FindSlot(data, capacity, k)
<1>1. /\ capacity \in Nat /\ capacity >= 2
      /\ data \in [0 .. capacity - 1 -> Slot]
      /\ size \in Nat
      /\ Unbroken(data, capacity)
      /\ size = Cardinality(Used(data, capacity))
  BY DEF IInv, TypeOK, SizeIsEntryCount
<1>2. /\ data' \in [0 .. capacity - 1 -> Slot]
      /\ Unbroken(data', capacity)
      /\ Used(data', capacity) = Used(data, capacity) \cup {s}
      /\ s \in Used(data, capacity) <=> data[s].key # Nil
  BY <1>1, NotFull, StoreUnbroken DEF Insert
<1>3. size' = IF data[s].key = Nil THEN size + 1 ELSE size
  BY DEF Insert
<1>. HIDE DEF s
<1>4. Cardinality(Used(data', capacity)) =
        IF s \in Used(data, capacity) THEN Cardinality(Used(data, capacity))
                                      ELSE Cardinality(Used(data, capacity)) + 1
  BY <1>1, <1>2, UsedIsFinite, FS_AddElement
<1>5. size' = Cardinality(Used(data', capacity'))
  BY <1>1, <1>2, <1>3, <1>4
<1>. QED
  BY <1>1, <1>2, <1>3, <1>5 DEF SizeIsEntryCount
-----------------------------------------------------------------------------
LEMMA EmptyTable ==
    ASSUME NEW cap \in Nat, cap >= 2
    PROVE  LET d == [i \in 0 .. cap - 1 |-> Empty]
           IN  /\ d \in [0 .. cap - 1 -> Slot]
               /\ Used(d, cap) = {}
               /\ Unbroken(d, cap)
               /\ Cardinality(Used(d, cap)) = 0
<1>. DEFINE d == [i \in 0 .. cap - 1 |-> Empty]
<1>1. d \in [0 .. cap - 1 -> Slot] /\ Used(d, cap) = {}
  BY SlotCases DEF Used
<1>. QED
  BY <1>1, FS_EmptySet DEF Unbroken

LEMMA InitInv == Init => IInv
<1>. SUFFICES ASSUME Init PROVE IInv
  OBVIOUS
<1>1. DefaultCapacity \in Nat /\ DefaultCapacity >= 2
  BY MapConstants
<1>2. TypeOK
  BY <1>1, EmptyTable DEF Init, TypeOK, Idle, Growing
<1>3. Unbroken(data, capacity) /\ SizeIsEntryCount
  BY <1>1, EmptyTable DEF Init, SizeIsEntryCount
<1>4. LoadBound
  BY <1>1 DEF Init, LoadBound, Idle, Growing
<1>. QED
  BY <1>2, <1>3, <1>4 DEF IInv

LEMMA AddInv ==
    ASSUME IInv, NEW k \in Keys, NEW v \in Values, Add(k, v)
    PROVE  IInv'
<1>. USE DEF Add, Idle, Growing
<1>1. /\ data' \in [0 .. capacity' - 1 -> Slot]
      /\ Unbroken(data', capacity')
      /\ SizeIsEntryCount'
      /\ size' \in Nat /\ size' <= size + 1
  BY InsertKeepsTable
<1>2. TypeOK'
  BY <1>1 DEF IInv, TypeOK
<1>3. LoadBound'
  BY <1>1 DEF IInv, TypeOK, LoadBound, NeedsGrowth
<1>. QED
  BY <1>1, <1>2, <1>3 DEF IInv

LEMMA GrowInv ==
    ASSUME IInv, NEW k \in Keys, NEW v \in Values, Grow(k, v)
    PROVE  IInv'
<1>1. /\ capacity \in Nat /\ capacity >= 2
      /\ data \in [0 .. capacity - 1 -> Slot]
  BY DEF IInv, TypeOK
<1>2. pending' \in [key : Keys, value : Values] /\ pending' # Nil
  BY MapConstants DEF Grow, Entry
<1>3. /\ data' \in [0 .. capacity' - 1 -> Slot]
      /\ Unbroken(data', capacity')
      /\ SizeIsEntryCount'
  BY <1>1, EmptyTable DEF Grow, SizeIsEntryCount
<1>4. \E n \in 2 .. capacity' :
          capacity' = 2 * n /\ old' \in [0 .. n - 1 -> Slot] /\ cursor' <= n
  BY <1>1 DEF Grow
<1>5. TypeOK'
  BY <1>1, <1>2, <1>3, <1>4 DEF Grow, IInv, TypeOK, Idle, Growing
<1>6. LoadBound'
  BY <1>2 DEF Grow, LoadBound, Idle, Growing
<1>. QED
  BY <1>3, <1>5, <1>6 DEF IInv

LEMMA RehashInv ==
    ASSUME IInv, Rehash
    PROVE  IInv'
<1>1. PICK n \in 2 .. capacity :
          capacity = 2 * n /\ old \in [0 .. n - 1 -> Slot] /\ cursor <= n
  BY DEF Rehash, IInv, TypeOK
<1>2. cursor \in 0 .. n - 1 /\ cursor' = cursor + 1 /\ cursor' <= n
  BY <1>1 DEF Rehash, IInv, TypeOK
<1>3. /\ data' \in [0 .. capacity' - 1 -> Slot]
      /\ Unbroken(data', capacity')
      /\ SizeIsEntryCount'
      /\ size' \in Nat /\ size' <= size + 1
  <2>1. CASE old[cursor].key = Nil
    BY <2>1 DEF Rehash, IInv, TypeOK, SizeIsEntryCount
  <2>2. CASE old[cursor].key # Nil
    <3>1. old[cursor].key \in Keys /\ old[cursor].value \in Values
      BY <1>1, <1>2, <2>2, SlotCases
    <3>. QED
      BY <2>2, <3>1, InsertKeepsTable DEF Rehash
  <2>. QED
    BY <2>1, <2>2
<1>4. TypeOK'
  <2>1. cursor' \in Nat
    BY <1>2
  <2>. QED
    BY <1>1, <1>2, <1>3, <2>1 DEF Rehash, IInv, TypeOK, Idle, Growing
<1>5. LoadBound'
  BY <1>2, <1>3 DEF Rehash, IInv, TypeOK, LoadBound, Idle, Growing
<1>. QED
  BY <1>3, <1>4, <1>5 DEF IInv

(* A doubled table whose old half fitted has room for one more entry.      *)
LEMMA HalfFullFits ==
    \A n, a \in Nat : n >= 2 /\ a <= n + 1 => 4 * a <= 3 * (2 * n)
OBVIOUS

LEMMA FinishAddInv ==
    ASSUME IInv, FinishAdd
    PROVE  IInv'
<1>1. PICK n \in 2 .. capacity :
          capacity = 2 * n /\ old \in [0 .. n - 1 -> Slot] /\ cursor <= n
  BY DEF FinishAdd, IInv, TypeOK
<1>2. pending.key \in Keys /\ pending.value \in Values
  BY DEF FinishAdd, IInv, TypeOK, Growing
<1>3. /\ data' \in [0 .. capacity' - 1 -> Slot]
      /\ Unbroken(data', capacity')
      /\ SizeIsEntryCount'
      /\ size' \in Nat /\ size' <= size + 1
  BY <1>2, InsertKeepsTable DEF FinishAdd
<1>4. TypeOK'
  BY <1>3 DEF FinishAdd, IInv, TypeOK, Idle, Growing
<1>5. LoadBound'
  <2>1. size \in Nat /\ cursor \in Nat /\ size <= cursor /\ capacity' = 2 * n
    BY <1>1 DEF FinishAdd, IInv, TypeOK, LoadBound
  <2>2. n \in Nat /\ n >= 2 /\ cursor <= n
    BY <1>1 DEF IInv, TypeOK
  <2>3. size' <= n + 1
    BY <1>3, <2>1, <2>2
  <2>4. 4 * size' <= 3 * capacity'
    BY <1>3, <2>1, <2>2, <2>3, HalfFullFits
  <2>. QED
    BY <2>4 DEF FinishAdd, LoadBound, Idle, Growing
<1>. QED
  BY <1>3, <1>4, <1>5 DEF IInv

LEMMA GetInv ==
    ASSUME IInv, NEW k \in Keys, Get(k)
    PROVE  IInv'
<1>1. /\ capacity \in Nat /\ capacity >= 2
      /\ data \in [0 .. capacity - 1 -> Slot]
      /\ Unbroken(data, capacity)
  BY DEF IInv, TypeOK
<1>2. data[FindSlot(data, capacity, k)] \in Slot
  BY <1>1, NotFull, FindSlotCorrect
<1>3. answer' \in {NoAnswer} \cup [found : {TRUE}, value : Values]
  BY <1>2, SlotCases DEF Get, Hit
<1>4. TypeOK'
  BY <1>3 DEF Get, IInv, TypeOK, Idle, Growing
<1>. QED
  BY <1>4 DEF Get, IInv, SizeIsEntryCount, LoadBound, Idle, Growing

LEMMA RemoveInv ==
    ASSUME IInv, NEW k \in Keys, Remove(k)
    PROVE  IInv'
<1>. DEFINE s == FindSlot(data, capacity, k)
<1>1. /\ capacity \in Nat /\ capacity >= 2
      /\ data \in [0 .. capacity - 1 -> Slot]
      /\ size \in Nat
      /\ Unbroken(data, capacity)
      /\ size = Cardinality(Used(data, capacity))
  BY DEF IInv, TypeOK, SizeIsEntryCount
<1>2. s \in 0 .. capacity - 1
  BY <1>1, NotFull, FindSlotCorrect
<1>3. CASE data[s].key = Nil
  <2>1. UNCHANGED vars
    BY <1>3 DEF Remove, vars
  <2>. QED
    BY <2>1 DEF vars, IInv, TypeOK, SizeIsEntryCount, LoadBound, Idle, Growing
<1>4. CASE data[s].key # Nil
  <2>1. data' = [data EXCEPT ![s] = Tombstone] /\ size' = size - 1
    BY <1>4 DEF Remove
  <2>2. UNCHANGED <<capacity, old, cursor, pending, answer>> /\ Idle
    BY DEF Remove
  <2>. HIDE DEF s
  <2>3. /\ data' \in [0 .. capacity - 1 -> Slot]
        /\ data'[s] = Tombstone
        /\ \A i \in 0 .. capacity - 1 : i # s => data'[i] = data[i]
    BY <1>1, <1>2, <2>1, SlotCases
  <2>4. Used(data', capacity) = Used(data, capacity) \ {s} /\ s \in Used(data, capacity)
    BY <1>2, <1>4, <2>3, SlotCases DEF Used
  <2>5. size' = Cardinality(Used(data', capacity)) /\ size' \in Nat
    <3>1. Cardinality(Used(data', capacity)) = size - 1
      BY <1>1, <2>4, UsedIsFinite, FS_RemoveElement
    <3>2. Cardinality(Used(data', capacity)) \in Nat
      BY <1>1, UsedIsFinite
    <3>. QED
      BY <2>1, <3>1, <3>2
  <2>6. Unbroken(data', capacity)
    <3>. SUFFICES ASSUME NEW i \in Used(data', capacity), NEW j \in 0 .. capacity - 1,
                         Dist(data'[i].key, j, capacity) < Dist(data'[i].key, i, capacity)
                  PROVE  data'[j] # Empty /\ data'[j].key # data'[i].key
      BY DEF Unbroken
    <3>1. i \in Used(data, capacity) /\ data'[i] = data[i] /\ data[i].key # Nil
      BY <2>3, <2>4 DEF Used
    <3>2. data[j] # Empty /\ data[j].key # data[i].key
      BY <1>1, <3>1 DEF Unbroken
    <3>. QED
      BY <2>3, <3>1, <3>2, SlotCases
  <2>7. TypeOK'
    BY <2>2, <2>3, <2>5 DEF IInv, TypeOK, Idle, Growing
  <2>8. LoadBound'
    BY <1>1, <2>1, <2>2 DEF IInv, TypeOK, LoadBound, Idle, Growing
  <2>. QED
    BY <2>2, <2>5, <2>6, <2>7, <2>8 DEF IInv, SizeIsEntryCount
<1>. QED
  BY <1>3, <1>4
-----------------------------------------------------------------------------
(* The inductive invariant, on which the theorems below rest.              *)
THEOREM Invariance == Spec => []IInv
<1>1. IInv /\ [Next]_vars => IInv'
  <2>. SUFFICES ASSUME IInv, [Next]_vars PROVE IInv'
    OBVIOUS
  <2>1. ASSUME NEW k \in Keys, NEW v \in Values, Add(k, v) PROVE IInv'
    BY <2>1, AddInv
  <2>2. ASSUME NEW k \in Keys, NEW v \in Values, Grow(k, v) PROVE IInv'
    BY <2>2, GrowInv
  <2>3. ASSUME NEW k \in Keys, Get(k) PROVE IInv'
    BY <2>3, GetInv
  <2>4. ASSUME NEW k \in Keys, Remove(k) PROVE IInv'
    BY <2>4, RemoveInv
  <2>5. CASE Rehash
    BY <2>5, RehashInv
  <2>6. CASE FinishAdd
    BY <2>6, FinishAddInv
  <2>7. CASE UNCHANGED vars
    BY <2>7 DEF vars, IInv, TypeOK, SizeIsEntryCount, LoadBound, Idle, Growing
  <2>. QED
    BY <2>1, <2>2, <2>3, <2>4, <2>5, <2>6, <2>7 DEF Next
<1>. QED
  BY <1>1, InitInv, PTL DEF Spec

(* The variables keep their types: in particular no removal takes the      *)
(* entry count below zero.                                                 *)
THEOREM TypeCorrect == Spec => []TypeOK
<1>1. IInv => TypeOK
  BY DEF IInv
<1>. QED
  BY <1>1, Invariance, PTL

(* A search never walks the whole table without a slot to return, so Add,  *)
(* Get and Remove never dereference a null pointer.                        *)
THEOREM SearchSafety == Spec => []SearchNeverFails
<1>1. IInv => SearchNeverFails
  <2>. SUFFICES ASSUME IInv, NEW k \in Keys
                PROVE  FindSlot(data, capacity, k) # NULL
    BY DEF SearchNeverFails
  <2>1. FindSlot(data, capacity, k) \in 0 .. capacity - 1
    BY NotFull, FindSlotCorrect DEF IInv, TypeOK
  <2>. QED
    BY <2>1, MapConstants DEF IInv, TypeOK
<1>. QED
  BY <1>1, Invariance, PTL

(* Every entry is found where it is, after any history of collisions,      *)
(* removals and growths.                                                   *)
THEOREM Findability == Spec => []EntriesAreFindable
<1>1. IInv => EntriesAreFindable
  <2>. SUFFICES ASSUME IInv, NEW i \in Used(data, capacity)
                PROVE  FindSlot(data, capacity, data[i].key) = i
    BY DEF EntriesAreFindable
  <2>1. data[i].key \in Keys
    BY SlotCases DEF IInv, TypeOK, Used
  <2>. QED
    BY <2>1, NotFull, FindSlotCorrect DEF IInv, TypeOK
<1>. QED
  BY <1>1, Invariance, PTL

(* The entry count is exact.                                               *)
THEOREM ExactSize == Spec => []SizeIsEntryCount
<1>1. IInv => SizeIsEntryCount
  BY DEF IInv
<1>. QED
  BY <1>1, Invariance, PTL

(* Moving the entries to the larger table never asks for a larger one.     *)
THEOREM RehashSafety == Spec => []RehashFits
<1>1. IInv => RehashFits
  BY DEF IInv, TypeOK, LoadBound, RehashFits, NeedsGrowth, Growing
<1>. QED
  BY <1>1, Invariance, PTL
-----------------------------------------------------------------------------
(* The table as a dictionary.  What it binds: an entry among the slots, or *)
(* one of the old slots that has not been moved.                           *)
InData(k, v) == \E i \in 0 .. capacity - 1 : data[i] = Entry(k, v)
InOld(k, v)  == \E i \in DOMAIN old : i >= cursor /\ old[i] = Entry(k, v)
Holds(k, v)  == InData(k, v) \/ InOld(k, v)

(* No key is bound twice, neither among the old slots nor in both tables.  *)
OldKeysDiffer ==
    \A i, j \in DOMAIN old : old[i].key # Nil /\ old[i].key = old[j].key => i = j
NotInBoth ==
    \A i \in Used(data, capacity), j \in DOMAIN old :
        j >= cursor => old[j].key # data[i].key

DictInv == IInv /\ OldKeysDiffer /\ NotInBoth

LEMMA Slots ==
    ASSUME IInv
    PROVE  /\ capacity \in Nat /\ capacity >= 2 /\ cursor \in Nat
           /\ data \in [0 .. capacity - 1 -> Slot] /\ DOMAIN data = 0 .. capacity - 1
           /\ Unbroken(data, capacity) /\ Used(data, capacity) # 0 .. capacity - 1
           /\ Idle => DOMAIN old = {}
           /\ DOMAIN old \subseteq Nat /\ \A i \in DOMAIN old : old[i] \in Slot
<1>1. /\ capacity \in Nat /\ capacity >= 2 /\ cursor \in Nat
      /\ data \in [0 .. capacity - 1 -> Slot] /\ Unbroken(data, capacity)
  BY DEF IInv, TypeOK
<1>2. CASE Idle
  <2>1. old = [i \in {} |-> Empty]  BY <1>2 DEF IInv, TypeOK
  <2>. QED  BY <1>1, <2>1, NotFull
<1>3. CASE Growing
  <2>1. PICK n \in 2 .. capacity : old \in [0 .. n - 1 -> Slot]
    BY <1>3 DEF IInv, TypeOK
  <2>2. ~ Idle /\ n \in Nat  BY <1>1, <1>3 DEF Idle, Growing
  <2>. QED  BY <1>1, <2>1, <2>2, NotFull
<1>. QED  BY <1>2, <1>3 DEF Idle, Growing

(* A key has one slot: the one its search returns.                         *)
LEMMA SearchFinds ==
    ASSUME IInv, NEW k \in Keys
    PROVE  /\ FindSlot(data, capacity, k) \in 0 .. capacity - 1
           /\ data[FindSlot(data, capacity, k)] \in Slot
           /\ data[FindSlot(data, capacity, k)].key \in {k, Nil}
           /\ \A i \in 0 .. capacity - 1 : data[i].key = k => i = FindSlot(data, capacity, k)
<1>. DEFINE s == FindSlot(data, capacity, k)
<1>1. /\ s \in 0 .. capacity - 1 /\ data[s].key \in {k, Nil}
      /\ \A i \in Used(data, capacity) : data[i].key = k => i = s
  BY Slots, FindSlotCorrect
<1>. HIDE DEF s
<1>2. \A i \in 0 .. capacity - 1 : data[i].key = k => i \in Used(data, capacity)
  BY MapConstants DEF Used
<1>3. data[s] \in Slot  BY <1>1, Slots
<1>. QED  BY <1>1, <1>2, <1>3 DEF s

LEMMA KeysDiffer ==
    ASSUME IInv, NEW i \in 0 .. capacity - 1, NEW j \in 0 .. capacity - 1,
           data[i].key # Nil, data[i].key = data[j].key
    PROVE  i = j
<1>1. data[i].key \in Keys  BY Slots, SlotCases
<1>. QED  BY <1>1, SearchFinds

LEMMA EntryOfSlot ==
    ASSUME NEW x \in Slot, x.key # Nil
    PROVE  x.key \in Keys /\ x.value \in Values /\ x = Entry(x.key, x.value)
BY SlotCases DEF Slot, Entry, Empty, Tombstone

(* Contents is the function of these bindings.                             *)
LEMMA ContentsAreBindings ==
    DictInv =>
      /\ DOMAIN Contents \subseteq Keys
      /\ Contents = [k \in DOMAIN Contents |-> Contents[k]]
      /\ \A k \in DOMAIN Contents : Contents[k] \in Values
      /\ \A k \in Keys, v \in Values :
            Holds(k, v) <=> (k \in DOMAIN Contents /\ Contents[k] = v)
<1>. SUFFICES ASSUME DictInv
              PROVE  /\ DOMAIN Contents \subseteq Keys
                     /\ Contents = [k \in DOMAIN Contents |-> Contents[k]]
                     /\ \A k \in DOMAIN Contents : Contents[k] \in Values
                     /\ \A k \in Keys, v \in Values :
                           Holds(k, v) <=> (k \in DOMAIN Contents /\ Contents[k] = v)
  OBVIOUS
<1>0. IInv  BY DEF DictInv
<1>1. DOMAIN Contents = {k \in Keys : Moved(k) # {} \/ Unmoved(k) # {}}
  BY DEF Contents
<1>2. Contents = [k \in DOMAIN Contents |-> Contents[k]]  BY DEF Contents
<1>3. ASSUME NEW k \in Keys
      PROVE  /\ k \in DOMAIN Contents => Contents[k] \in Values /\ Holds(k, Contents[k])
             /\ \A v \in Values : Holds(k, v) => k \in DOMAIN Contents /\ Contents[k] = v
  <2>1. k # Nil  BY MapConstants
  <2>2. CASE Moved(k) # {}
    <3>1. PICK m : m = CHOOSE i \in Moved(k) : TRUE  OBVIOUS
    <3>2. m \in Moved(k)  BY <2>2, <3>1
    <3>3. k \in DOMAIN Contents /\ Contents[k] = data[m].value
      BY <1>1, <2>2, <3>1 DEF Contents
    <3>4. m \in 0 .. capacity - 1 /\ data[m].key = k /\ data[m] \in Slot
      BY <1>0, <3>2, Slots DEF Moved
    <3>5. data[m].value \in Values /\ data[m] = Entry(k, data[m].value)
      BY <2>1, <3>4, EntryOfSlot
    <3>6. Holds(k, Contents[k])  BY <3>3, <3>4, <3>5 DEF Holds, InData
    <3>7. ASSUME NEW v \in Values, Holds(k, v) PROVE v = data[m].value
      <4>1. CASE InData(k, v)
        <5>1. PICK i \in 0 .. capacity - 1 : data[i] = Entry(k, v)  BY <4>1 DEF InData
        <5>2. i = m  BY <1>0, <2>1, <3>4, <5>1, KeysDiffer, SlotCases
        <5>. QED  BY <5>1, <5>2, SlotCases
      <4>2. CASE InOld(k, v)
        <5>1. PICK j \in DOMAIN old : j >= cursor /\ old[j] = Entry(k, v)  BY <4>2 DEF InOld
        <5>2. m \in Used(data, capacity)  BY <2>1, <3>4 DEF Used
        <5>3. old[j].key = k  BY <5>1, SlotCases
        <5>. QED  BY <3>4, <5>1, <5>2, <5>3 DEF DictInv, NotInBoth
      <4>. QED  BY <3>7, <4>1, <4>2 DEF Holds
    <3>. QED  BY <3>3, <3>5, <3>6, <3>7
  <2>3. CASE Moved(k) = {} /\ Unmoved(k) # {}
    <3>1. PICK m : m = CHOOSE i \in Unmoved(k) : TRUE  OBVIOUS
    <3>2. m \in Unmoved(k)  BY <2>3, <3>1
    <3>3. k \in DOMAIN Contents /\ Contents[k] = old[m].value
      BY <1>1, <2>3, <3>1 DEF Contents
    <3>4. m \in DOMAIN old /\ m >= cursor /\ old[m].key = k /\ old[m] \in Slot
      BY <1>0, <3>2, Slots DEF Unmoved
    <3>5. old[m].value \in Values /\ old[m] = Entry(k, old[m].value)
      BY <2>1, <3>4, EntryOfSlot
    <3>6. Holds(k, Contents[k])  BY <3>3, <3>4, <3>5 DEF Holds, InOld
    <3>7. ASSUME NEW v \in Values, Holds(k, v) PROVE v = old[m].value
      <4>1. CASE InData(k, v)
        <5>1. PICK i \in 0 .. capacity - 1 : data[i] = Entry(k, v)  BY <4>1 DEF InData
        <5>2. i \in Moved(k)  BY <1>0, <5>1, Slots, SlotCases DEF Moved
        <5>. QED  BY <2>3, <5>2
      <4>2. CASE InOld(k, v)
        <5>1. PICK j \in DOMAIN old : j >= cursor /\ old[j] = Entry(k, v)  BY <4>2 DEF InOld
        <5>2. old[j].key = k /\ old[j].value = v  BY <5>1, SlotCases
        <5>3. j = m  BY <2>1, <3>4, <5>1, <5>2 DEF DictInv, OldKeysDiffer
        <5>. QED  BY <5>2, <5>3
      <4>. QED  BY <3>7, <4>1, <4>2 DEF Holds
    <3>. QED  BY <3>3, <3>5, <3>6, <3>7
  <2>4. CASE Moved(k) = {} /\ Unmoved(k) = {}
    <3>1. k \notin DOMAIN Contents  BY <1>1, <2>4
    <3>2. ASSUME NEW v \in Values, Holds(k, v) PROVE FALSE
      <4>1. CASE InData(k, v)
        <5>1. PICK i \in 0 .. capacity - 1 : data[i] = Entry(k, v)  BY <4>1 DEF InData
        <5>2. i \in Moved(k)  BY <1>0, <5>1, Slots, SlotCases DEF Moved
        <5>. QED  BY <2>4, <5>2
      <4>2. CASE InOld(k, v)
        <5>1. PICK j \in DOMAIN old : j >= cursor /\ old[j] = Entry(k, v)  BY <4>2 DEF InOld
        <5>2. j \in Unmoved(k)  BY <5>1, SlotCases DEF Unmoved
        <5>. QED  BY <2>4, <5>2
      <4>. QED  BY <3>2, <4>1, <4>2 DEF Holds
    <3>. QED  BY <3>1, <3>2
  <2>. QED  BY <2>2, <2>3, <2>4
<1>4. DOMAIN Contents \subseteq Keys  BY <1>1
<1>. HIDE DEF DictInv
<1>. QED  BY <1>2, <1>3, <1>4

(* Two dictionaries with the same bindings are the same; so a step that    *)
(* binds one key, unbinds one, or none, shows in Contents as that.         *)
BindsOnly(k, v) ==
    \A j \in Keys, w \in Values : (Holds(j, w))' <=> IF j = k THEN w = v ELSE Holds(j, w)
UnbindsOnly(k) ==
    \A j \in Keys, w \in Values : (Holds(j, w))' <=> j # k /\ Holds(j, w)
BindsNothing ==
    \A j \in Keys, w \in Values : (Holds(j, w))' <=> Holds(j, w)

LEMMA ContentsNow ==
    ASSUME DictInv
    PROVE  /\ DOMAIN Contents \subseteq Keys
           /\ Contents = [k \in DOMAIN Contents |-> Contents[k]]
           /\ \A k \in DOMAIN Contents : Contents[k] \in Values
           /\ \A k \in Keys, v \in Values :
                 Holds(k, v) <=> (k \in DOMAIN Contents /\ Contents[k] = v)
BY ContentsAreBindings

LEMMA ContentsNext ==
    ASSUME DictInv'
    PROVE  /\ DOMAIN Contents' \subseteq Keys
           /\ Contents' = [k \in DOMAIN Contents' |-> Contents'[k]]
           /\ \A k \in DOMAIN Contents' : Contents'[k] \in Values
           /\ \A k \in Keys, v \in Values :
                 (Holds(k, v))' <=> (k \in DOMAIN Contents' /\ Contents'[k] = v)
<1>1. (DOMAIN Contents \subseteq Keys)'  BY ContentsAreBindings, PTL
<1>2. (Contents = [k \in DOMAIN Contents |-> Contents[k]])'  BY ContentsAreBindings, PTL
<1>3. (\A k \in DOMAIN Contents : Contents[k] \in Values)'  BY ContentsAreBindings, PTL
<1>4. (\A k \in Keys, v \in Values :
         Holds(k, v) <=> (k \in DOMAIN Contents /\ Contents[k] = v))'
  BY ContentsAreBindings, PTL
<1>. QED  BY <1>1, <1>2, <1>3, <1>4

LEMMA BindingShows ==
    ASSUME DictInv, DictInv', NEW k \in Keys, NEW v \in Values, BindsOnly(k, v)
    PROVE  Contents' = [j \in DOMAIN Contents \cup {k} |-> IF j = k THEN v ELSE Contents[j]]
<1>. DEFINE f == Contents
            g == Contents'
<1>1. /\ DOMAIN f \subseteq Keys /\ \A j \in DOMAIN f : f[j] \in Values
      /\ \A j \in Keys, w \in Values : Holds(j, w) <=> (j \in DOMAIN f /\ f[j] = w)
  BY ContentsNow
<1>2. /\ DOMAIN g \subseteq Keys /\ \A j \in DOMAIN g : g[j] \in Values
      /\ g = [j \in DOMAIN g |-> g[j]]
      /\ \A j \in Keys, w \in Values : (Holds(j, w))' <=> (j \in DOMAIN g /\ g[j] = w)
  BY ContentsNext
<1>. HIDE DEF f, g
<1>3. \A j \in Keys, w \in Values :
        (j \in DOMAIN g /\ g[j] = w) <=> IF j = k THEN w = v ELSE j \in DOMAIN f /\ f[j] = w
  BY <1>1, <1>2 DEF BindsOnly
<1>4. DOMAIN g = DOMAIN f \cup {k}
  <2>1. ASSUME NEW j \in Keys PROVE j \in DOMAIN g <=> j \in DOMAIN f \cup {k}
    BY <1>1, <1>2, <1>3
  <2>. QED  BY <1>1, <1>2, <2>1
<1>5. \A j \in DOMAIN g : g[j] = IF j = k THEN v ELSE f[j]
  BY <1>1, <1>2, <1>3, <1>4
<1>6. g = [j \in DOMAIN f \cup {k} |-> IF j = k THEN v ELSE f[j]]
  BY <1>2, <1>4, <1>5
<1>. QED  BY <1>6 DEF f, g

LEMMA UnbindingShows ==
    ASSUME DictInv, DictInv', NEW k \in Keys, UnbindsOnly(k)
    PROVE  Contents' = [j \in DOMAIN Contents \ {k} |-> Contents[j]]
<1>. DEFINE f == Contents
            g == Contents'
<1>1. /\ DOMAIN f \subseteq Keys /\ \A j \in DOMAIN f : f[j] \in Values
      /\ \A j \in Keys, w \in Values : Holds(j, w) <=> (j \in DOMAIN f /\ f[j] = w)
  BY ContentsNow
<1>2. /\ DOMAIN g \subseteq Keys /\ \A j \in DOMAIN g : g[j] \in Values
      /\ g = [j \in DOMAIN g |-> g[j]]
      /\ \A j \in Keys, w \in Values : (Holds(j, w))' <=> (j \in DOMAIN g /\ g[j] = w)
  BY ContentsNext
<1>. HIDE DEF f, g
<1>3. \A j \in Keys, w \in Values :
        (j \in DOMAIN g /\ g[j] = w) <=> j # k /\ j \in DOMAIN f /\ f[j] = w
  BY <1>1, <1>2 DEF UnbindsOnly
<1>4. DOMAIN g = DOMAIN f \ {k}
  <2>1. ASSUME NEW j \in Keys PROVE j \in DOMAIN g <=> j \in DOMAIN f \ {k}
    BY <1>1, <1>2, <1>3
  <2>. QED  BY <1>1, <1>2, <2>1
<1>5. \A j \in DOMAIN g : g[j] = f[j]
  BY <1>1, <1>2, <1>3, <1>4
<1>6. g = [j \in DOMAIN f \ {k} |-> f[j]]
  BY <1>2, <1>4, <1>5
<1>. QED  BY <1>6 DEF f, g

LEMMA NothingShows ==
    ASSUME DictInv, DictInv', BindsNothing
    PROVE  Contents' = Contents
<1>. DEFINE f == Contents
            g == Contents'
<1>1. /\ DOMAIN f \subseteq Keys /\ \A j \in DOMAIN f : f[j] \in Values
      /\ f = [j \in DOMAIN f |-> f[j]]
      /\ \A j \in Keys, w \in Values : Holds(j, w) <=> (j \in DOMAIN f /\ f[j] = w)
  BY ContentsNow
<1>2. /\ DOMAIN g \subseteq Keys /\ \A j \in DOMAIN g : g[j] \in Values
      /\ g = [j \in DOMAIN g |-> g[j]]
      /\ \A j \in Keys, w \in Values : (Holds(j, w))' <=> (j \in DOMAIN g /\ g[j] = w)
  BY ContentsNext
<1>. HIDE DEF f, g
<1>3. \A j \in Keys, w \in Values :
        (j \in DOMAIN g /\ g[j] = w) <=> (j \in DOMAIN f /\ f[j] = w)
  BY <1>1, <1>2 DEF BindsNothing
<1>4. DOMAIN g = DOMAIN f
  <2>1. ASSUME NEW j \in Keys PROVE j \in DOMAIN g <=> j \in DOMAIN f
    BY <1>1, <1>2, <1>3
  <2>. QED  BY <1>1, <1>2, <2>1
<1>5. \A j \in DOMAIN g : g[j] = f[j]
  BY <1>1, <1>2, <1>3, <1>4
<1>6. g = f  BY <1>1, <1>2, <1>4, <1>5
<1>. QED  BY <1>6 DEF f, g
-----------------------------------------------------------------------------
(* What the tail of orbit_gcMapAdd does to the bindings of the slots.      *)
LEMMA InsertBinds ==
    ASSUME IInv, NEW k \in Keys, NEW v \in Values, Insert(k, v), capacity' = capacity
    PROVE  /\ \A j \in Keys, w \in Values :
                 (InData(j, w))' <=> IF j = k THEN w = v ELSE InData(j, w)
           /\ \A i \in Used(data', capacity') :
                 data'[i].key = k \/ (i \in Used(data, capacity) /\ data'[i].key = data[i].key)
<1>. DEFINE s == FindSlot(data, capacity, k)
<1>1. /\ s \in 0 .. capacity - 1 /\ data[s] \in Slot /\ data[s].key \in {k, Nil}
      /\ \A i \in 0 .. capacity - 1 : data[i].key = k => i = s
  BY SearchFinds
<1>2. data' = [data EXCEPT ![s] = Entry(k, v)]  BY DEF Insert
<1>. HIDE DEF s
<1>3. data'[s] = Entry(k, v) /\ \A i \in 0 .. capacity - 1 : i # s => data'[i] = data[i]
  BY <1>1, <1>2, Slots
<1>4. ASSUME NEW j \in Keys, NEW w \in Values
      PROVE  (InData(j, w))' <=> IF j = k THEN w = v ELSE InData(j, w)
  <2>0. (InData(j, w))' <=> \E i \in 0 .. capacity - 1 : data'[i] = Entry(j, w)
    BY DEF InData, Entry
  <2>1. CASE j = k
    <3>1. \A i \in 0 .. capacity - 1 : data'[i] = Entry(j, w) => i = s
      BY <1>1, <1>3, <2>1, SlotCases
    <3>2. Entry(k, v) = Entry(j, w) <=> w = v  BY <2>1 DEF Entry
    <3>. QED  BY <1>1, <1>3, <2>0, <2>1, <3>1, <3>2
  <2>2. CASE j # k
    <3>1. data'[s] # Entry(j, w)  BY <1>3, <2>2, SlotCases
    <3>2. data[s] # Entry(j, w)
      <4>1. Entry(j, w).key = j /\ j # Nil  BY SlotCases
      <4>. QED  BY <1>1, <2>2, <4>1
    <3>. QED  BY <1>3, <2>0, <2>2, <3>1, <3>2 DEF InData
  <2>. QED  BY <2>1, <2>2
<1>5. ASSUME NEW i \in Used(data', capacity')
      PROVE  data'[i].key = k \/ (i \in Used(data, capacity) /\ data'[i].key = data[i].key)
  <2>1. i \in 0 .. capacity - 1 /\ data'[i].key # Nil  BY DEF Used
  <2>2. CASE i = s  BY <1>3, <2>2, SlotCases
  <2>3. CASE i # s
    <3>1. data'[i] = data[i]  BY <1>3, <2>1, <2>3
    <3>. QED  BY <2>1, <3>1 DEF Used
  <2>. QED  BY <2>2, <2>3
<1>. QED  BY <1>4, <1>5

LEMMA NoOldSlots ==
    ASSUME DOMAIN old' = {}
    PROVE  /\ OldKeysDiffer' /\ NotInBoth'
           /\ \A j \in Keys, w \in Values : ~ (InOld(j, w))'
BY DEF OldKeysDiffer, NotInBoth, InOld

LEMMA AddBinds ==
    ASSUME DictInv, NEW k \in Keys, NEW v \in Values, Add(k, v)
    PROVE  DictInv' /\ BindsOnly(k, v)
<1>1. IInv /\ IInv'  BY AddInv DEF DictInv
<1>2. DOMAIN old = {} /\ old' = old  BY <1>1, Slots DEF Add
<1>3. Insert(k, v) /\ capacity' = capacity  BY DEF Add
<1>4. \A j \in Keys, w \in Values :
        (InData(j, w))' <=> IF j = k THEN w = v ELSE InData(j, w)
  BY <1>1, <1>3, InsertBinds
<1>5. \A j \in Keys, w \in Values : ~ InOld(j, w)  BY <1>2 DEF InOld
<1>6. OldKeysDiffer' /\ NotInBoth' /\ \A j \in Keys, w \in Values : ~ (InOld(j, w))'
  BY <1>2, NoOldSlots
<1>. QED  BY <1>1, <1>4, <1>5, <1>6 DEF DictInv, BindsOnly, Holds

LEMMA GrowBinds ==
    ASSUME DictInv, NEW k \in Keys, NEW v \in Values, Grow(k, v)
    PROVE  DictInv' /\ BindsNothing
<1>1. IInv /\ IInv'  BY GrowInv DEF DictInv
<1>2. /\ capacity' = 2 * capacity /\ old' = data /\ cursor' = 0
      /\ data' = [i \in 0 .. 2 * capacity - 1 |-> Empty] /\ Idle
  BY DEF Grow
<1>3. /\ capacity \in Nat /\ capacity >= 2 /\ DOMAIN data = 0 .. capacity - 1 /\ DOMAIN old = {}
  BY <1>1, <1>2, Slots
<1>4. OldKeysDiffer'  BY <1>1, <1>2, <1>3, KeysDiffer DEF OldKeysDiffer
<1>5. \A i \in 0 .. 2 * capacity - 1 : data'[i].key = Nil  BY <1>2, SlotCases
<1>6. Used(data', capacity') = {}  BY <1>2, <1>5 DEF Used
<1>7. NotInBoth'  BY <1>6 DEF NotInBoth
<1>8. ASSUME NEW j \in Keys, NEW w \in Values PROVE (Holds(j, w))' <=> Holds(j, w)
  <2>1. ~ (InData(j, w))'
    <3>1. Entry(j, w).key # Nil  BY SlotCases
    <3>. QED  BY <1>2, <1>5, <3>1 DEF InData, Entry
  <2>2. ~ InOld(j, w)  BY <1>3 DEF InOld
  <2>3. (InOld(j, w))' <=> \E i \in 0 .. capacity - 1 : i >= 0 /\ data[i] = Entry(j, w)
    BY <1>2, <1>3 DEF InOld, Entry
  <2>4. \A i \in 0 .. capacity - 1 : i >= 0  BY <1>3
  <2>5. (InOld(j, w))' <=> InData(j, w)  BY <2>3, <2>4 DEF InData
  <2>. QED  BY <2>1, <2>2, <2>5 DEF Holds
<1>. QED  BY <1>1, <1>4, <1>7, <1>8 DEF DictInv, BindsNothing

(* Moving an entry changes where it is bound, not what it binds.           *)
LEMMA RehashBinds ==
    ASSUME DictInv, Rehash
    PROVE  DictInv' /\ BindsNothing
<1>1. IInv /\ IInv'  BY RehashInv DEF DictInv
<1>2. /\ cursor \in DOMAIN old /\ cursor' = cursor + 1 /\ old' = old /\ capacity' = capacity
  BY DEF Rehash
<1>3. /\ cursor \in Nat /\ DOMAIN old \subseteq Nat /\ old[cursor] \in Slot
  BY <1>1, <1>2, Slots
<1>4. OldKeysDiffer'  BY <1>2 DEF DictInv, OldKeysDiffer
<1>5. \A i \in DOMAIN old : i >= cursor <=> (i = cursor \/ i >= cursor + 1)  BY <1>3
<1>6. \A j, w : InOld(j, w) <=> old[cursor] = Entry(j, w) \/ (InOld(j, w))'
  BY <1>2, <1>3, <1>5 DEF InOld, Entry
<1>7. CASE old[cursor].key = Nil
  <2>1. data' = data  BY <1>7 DEF Rehash
  <2>2. NotInBoth'  BY <1>2, <1>5, <2>1 DEF DictInv, NotInBoth
  <2>3. ASSUME NEW j \in Keys, NEW w \in Values PROVE (Holds(j, w))' <=> Holds(j, w)
    <3>1. old[cursor] # Entry(j, w)  BY <1>7, SlotCases
    <3>2. (InData(j, w))' <=> InData(j, w)  BY <1>2, <2>1 DEF InData
    <3>. QED  BY <1>6, <3>1, <3>2 DEF Holds
  <2>. QED  BY <1>1, <1>4, <2>2, <2>3 DEF DictInv, BindsNothing
<1>8. CASE old[cursor].key # Nil
  <2>1. PICK k \in Keys, v \in Values :
          old[cursor] = Entry(k, v) /\ old[cursor].key = k /\ old[cursor].value = v
    BY <1>3, <1>8, EntryOfSlot
  <2>2. Insert(k, v)  BY <1>8, <2>1 DEF Rehash
  <2>3. /\ \A j \in Keys, w \in Values :
              (InData(j, w))' <=> IF j = k THEN w = v ELSE InData(j, w)
        /\ \A i \in Used(data', capacity') :
              data'[i].key = k \/ (i \in Used(data, capacity) /\ data'[i].key = data[i].key)
    BY <1>1, <1>2, <2>2, InsertBinds
  <2>4. NotInBoth'
    <3>. SUFFICES ASSUME NEW i \in Used(data', capacity'), NEW j \in DOMAIN old, j >= cursor + 1
                  PROVE  old[j].key # data'[i].key
      BY <1>2 DEF NotInBoth
    <3>0. j >= cursor /\ j # cursor  BY <1>3
    <3>1. CASE data'[i].key = k
      <4>1. k # Nil  BY SlotCases
      <4>. QED  BY <1>2, <2>1, <3>0, <3>1, <4>1 DEF DictInv, OldKeysDiffer
    <3>2. CASE i \in Used(data, capacity) /\ data'[i].key = data[i].key
      BY <3>0, <3>2 DEF DictInv, NotInBoth
    <3>. QED  BY <2>3, <3>1, <3>2
  <2>5. ASSUME NEW j \in Keys, NEW w \in Values PROVE (Holds(j, w))' <=> Holds(j, w)
    <3>1. CASE j # k
      <4>1. old[cursor] # Entry(j, w)  BY <2>1, <3>1, SlotCases
      <4>. QED  BY <1>6, <2>3, <3>1, <4>1 DEF Holds
    <3>2. CASE j = k
      <4>1. old[cursor] = Entry(j, w) <=> w = v  BY <2>1, <3>2 DEF Entry
      <4>2. ~ InData(j, w)
        <5>. SUFFICES ASSUME NEW i \in 0 .. capacity - 1, data[i] = Entry(j, w) PROVE FALSE
          BY DEF InData
        <5>1. data[i].key = k /\ k # Nil  BY <3>2, SlotCases
        <5>2. i \in Used(data, capacity)  BY <5>1 DEF Used
        <5>3. cursor >= cursor  BY <1>3
        <5>. QED  BY <1>2, <2>1, <5>1, <5>2, <5>3 DEF DictInv, NotInBoth
      <4>3. ~ (InOld(j, w))'
        <5>. SUFFICES ASSUME NEW i \in DOMAIN old, i >= cursor + 1, old[i] = Entry(j, w)
                      PROVE  FALSE
          BY <1>2 DEF InOld, Entry
        <5>1. old[i].key = k /\ k # Nil  BY <3>2, SlotCases
        <5>2. i = cursor  BY <1>2, <2>1, <5>1 DEF DictInv, OldKeysDiffer
        <5>. QED  BY <1>3, <5>2
      <4>. QED  BY <1>6, <2>3, <3>2, <4>1, <4>2, <4>3 DEF Holds
    <3>. QED  BY <3>1, <3>2
  <2>. QED  BY <1>1, <1>4, <2>4, <2>5 DEF DictInv, BindsNothing
<1>. QED  BY <1>7, <1>8

(* The last step of a growth is the insertion its caller asked for.        *)
LEMMA FinishAddBinds ==
    ASSUME DictInv, FinishAdd
    PROVE  /\ DictInv' /\ pending.key \in Keys /\ pending.value \in Values
           /\ BindsOnly(pending.key, pending.value)
<1>1. IInv /\ IInv'  BY FinishAddInv DEF DictInv
<1>2. /\ Growing /\ cursor \notin DOMAIN old /\ Insert(pending.key, pending.value)
      /\ old' = [i \in {} |-> Empty] /\ capacity' = capacity
  BY DEF FinishAdd
<1>3. pending.key \in Keys /\ pending.value \in Values
  BY <1>1, <1>2 DEF IInv, TypeOK, Growing
<1>4. \A j \in Keys, w \in Values :
        (InData(j, w))' <=> IF j = pending.key THEN w = pending.value ELSE InData(j, w)
  BY <1>1, <1>2, <1>3, InsertBinds
<1>5. \A i \in DOMAIN old : ~ (i >= cursor)
  <2>1. PICK n \in 2 .. capacity : old \in [0 .. n - 1 -> Slot] /\ cursor <= n
    BY <1>1, <1>2 DEF IInv, TypeOK
  <2>2. DOMAIN old = 0 .. n - 1 /\ n \in Nat /\ cursor \in Nat  BY <1>1, <2>1, Slots
  <2>. QED  BY <1>2, <2>1, <2>2
<1>6. \A j \in Keys, w \in Values : ~ InOld(j, w)  BY <1>5 DEF InOld
<1>7. DOMAIN old' = {}  BY <1>2
<1>8. OldKeysDiffer' /\ NotInBoth' /\ \A j \in Keys, w \in Values : ~ (InOld(j, w))'
  BY <1>7, NoOldSlots
<1>. QED  BY <1>1, <1>3, <1>4, <1>6, <1>8 DEF DictInv, BindsOnly, Holds

LEMMA RemoveUnbinds ==
    ASSUME DictInv, NEW k \in Keys, Remove(k)
    PROVE  DictInv' /\ UnbindsOnly(k)
<1>. DEFINE s == FindSlot(data, capacity, k)
<1>1. IInv /\ IInv'  BY RemoveInv DEF DictInv
<1>2. /\ Idle /\ old' = old /\ capacity' = capacity
      /\ data' = IF data[s].key = Nil THEN data ELSE [data EXCEPT ![s] = Tombstone]
  BY DEF Remove
<1>3. /\ s \in 0 .. capacity - 1 /\ data[s] \in Slot /\ data[s].key \in {k, Nil}
      /\ \A i \in 0 .. capacity - 1 : data[i].key = k => i = s
  BY <1>1, SearchFinds
<1>. HIDE DEF s
<1>4. DOMAIN old = {}  BY <1>1, <1>2, Slots
<1>5. OldKeysDiffer' /\ NotInBoth' /\ \A j \in Keys, w \in Values : ~ (InOld(j, w))'
  BY <1>2, <1>4, NoOldSlots
<1>6. \A j \in Keys, w \in Values : ~ InOld(j, w)  BY <1>4 DEF InOld
<1>7. data'[s].key = Nil /\ \A i \in 0 .. capacity - 1 : i # s => data'[i] = data[i]
  BY <1>1, <1>2, <1>3, Slots, SlotCases
<1>8. ASSUME NEW j \in Keys, NEW w \in Values
      PROVE  (InData(j, w))' <=> j # k /\ InData(j, w)
  <2>0. (InData(j, w))' <=> \E i \in 0 .. capacity - 1 : data'[i] = Entry(j, w)
    BY <1>2 DEF InData, Entry
  <2>1. Entry(j, w).key = j /\ j # Nil  BY SlotCases
  <2>2. data'[s] # Entry(j, w)  BY <1>7, <2>1
  <2>3. CASE j = k
    <3>1. \A i \in 0 .. capacity - 1 : data'[i] = Entry(j, w) => FALSE
      BY <1>3, <1>7, <2>1, <2>2, <2>3
    <3>. QED  BY <2>0, <2>3, <3>1
  <2>4. CASE j # k
    <3>1. data[s] # Entry(j, w)  BY <1>3, <2>1, <2>4
    <3>. QED  BY <1>7, <2>0, <2>2, <2>4, <3>1 DEF InData
  <2>. QED  BY <2>3, <2>4
<1>. QED  BY <1>1, <1>5, <1>6, <1>8 DEF DictInv, UnbindsOnly, Holds

LEMMA GetAnswers ==
    ASSUME DictInv, NEW k \in Keys, Get(k)
    PROVE  /\ DictInv' /\ BindsNothing
           /\ answer' = IF k \in DOMAIN Contents THEN Hit(Contents[k]) ELSE NoAnswer
<1>. DEFINE s == FindSlot(data, capacity, k)
<1>1. IInv /\ IInv'  BY GetInv DEF DictInv
<1>2. /\ Idle /\ UNCHANGED <<data, capacity, old, cursor>>
      /\ answer' = IF data[s].key = Nil THEN NoAnswer ELSE Hit(data[s].value)
  BY DEF Get
<1>3. DictInv' /\ BindsNothing
  BY <1>1, <1>2 DEF DictInv, OldKeysDiffer, NotInBoth, BindsNothing, Holds, InData, InOld
<1>4. /\ s \in 0 .. capacity - 1 /\ data[s] \in Slot /\ data[s].key \in {k, Nil}
      /\ \A i \in 0 .. capacity - 1 : data[i].key = k => i = s
  BY <1>1, SearchFinds
<1>. HIDE DEF s
<1>5. \A v \in Values : Holds(k, v) <=> data[s] = Entry(k, v)
  <2>1. DOMAIN old = {}  BY <1>1, <1>2, Slots
  <2>2. \A v \in Values : ~ InOld(k, v)  BY <2>1 DEF InOld
  <2>3. \A v \in Values : Entry(k, v).key = k  BY SlotCases
  <2>4. \A v \in Values : InData(k, v) <=> data[s] = Entry(k, v)
    BY <1>4, <2>3 DEF InData
  <2>. QED  BY <2>2, <2>4 DEF Holds
<1>. DEFINE f == Contents
<1>6. /\ \A j \in DOMAIN f : f[j] \in Values
      /\ \A v \in Values : Holds(k, v) <=> (k \in DOMAIN f /\ f[k] = v)
  BY ContentsNow
<1>. HIDE DEF f
<1>7. CASE data[s].key = Nil
  <2>1. \A v \in Values : Entry(k, v).key # Nil  BY SlotCases
  <2>2. k \notin DOMAIN f  BY <1>5, <1>6, <1>7, <2>1
  <2>. QED  BY <1>2, <1>3, <1>7, <2>2 DEF f
<1>8. CASE data[s].key # Nil
  <2>1. data[s].value \in Values /\ data[s] = Entry(k, data[s].value)
    BY <1>4, <1>8, EntryOfSlot
  <2>2. k \in DOMAIN f /\ f[k] = data[s].value  BY <1>5, <1>6, <2>1
  <2>. QED  BY <1>2, <1>3, <1>8, <2>2 DEF f
<1>. QED  BY <1>7, <1>8
-----------------------------------------------------------------------------
LEMMA DictInit == Init => DictInv /\ D!Init
<1>. SUFFICES ASSUME Init PROVE DictInv /\ D!Init
  OBVIOUS
<1>1. IInv  BY InitInv
<1>2. /\ DOMAIN old = {} /\ DefaultCapacity \in Nat
      /\ data = [i \in 0 .. DefaultCapacity - 1 |-> Empty] /\ answer = NoAnswer
  BY MapConstants DEF Init
<1>3. DictInv  BY <1>1, <1>2 DEF DictInv, OldKeysDiffer, NotInBoth
<1>4. \A k \in Keys : Moved(k) = {} /\ Unmoved(k) = {}
  BY <1>2, SlotCases DEF Moved, Unmoved
<1>5. DOMAIN Contents = {}  BY <1>4 DEF Contents
<1>6. Contents = [k \in {} |-> Nil]
  <2>1. Contents = [k \in DOMAIN Contents |-> Contents[k]]  BY DEF Contents
  <2>. HIDE DEF Contents
  <2>. QED  BY <1>5, <2>1
<1>. QED  BY <1>2, <1>3, <1>6 DEF D!Init, D!NoAnswer, NoAnswer

(* One operation of the map is one of the dictionary; growing and moving   *)
(* do not show.                                                            *)
LEMMA DictStep == DictInv /\ [Next]_vars => DictInv' /\ [D!Next]_(D!vars)
<1>. SUFFICES ASSUME DictInv, [Next]_vars PROVE DictInv' /\ [D!Next]_(D!vars)
  OBVIOUS
<1>0. DictInv' /\ BindsNothing /\ answer' = answer => DictInv' /\ UNCHANGED D!vars
  BY NothingShows DEF D!vars
<1>1. ASSUME NEW k \in Keys, NEW v \in Values, Add(k, v) PROVE DictInv' /\ D!Next
  <2>1. DictInv' /\ BindsOnly(k, v)  BY <1>1, AddBinds
  <2>2. D!Bind(k, v)  BY <1>1, <2>1, BindingShows DEF D!Bind, Add
  <2>. QED  BY <2>1, <2>2, Zenon DEF D!Next
<1>2. ASSUME NEW k \in Keys, NEW v \in Values, Grow(k, v)
      PROVE  DictInv' /\ UNCHANGED D!vars
  <2>1. answer' = answer  BY <1>2 DEF Grow
  <2>. QED  BY <1>0, <1>2, <2>1, GrowBinds
<1>3. ASSUME NEW k \in Keys, Get(k) PROVE DictInv' /\ D!Next
  <2>1. /\ DictInv' /\ BindsNothing
        /\ answer' = IF k \in DOMAIN Contents THEN Hit(Contents[k]) ELSE NoAnswer
    BY <1>3, GetAnswers
  <2>2. Contents' = Contents  BY <2>1, NothingShows
  <2>3. D!Lookup(k)  BY <2>1, <2>2, Zenon DEF D!Lookup, D!Hit, D!NoAnswer, Hit, NoAnswer
  <2>. QED  BY <2>1, <2>3, Zenon DEF D!Next
<1>4. ASSUME NEW k \in Keys, Remove(k) PROVE DictInv' /\ D!Next
  <2>1. DictInv' /\ UnbindsOnly(k)  BY <1>4, RemoveUnbinds
  <2>2. D!Unbind(k)  BY <1>4, <2>1, UnbindingShows DEF D!Unbind, Remove
  <2>. QED  BY <2>1, <2>2, Zenon DEF D!Next
<1>5. CASE Rehash
  <2>1. answer' = answer  BY <1>5 DEF Rehash
  <2>. QED  BY <1>0, <1>5, <2>1, RehashBinds
<1>6. CASE FinishAdd
  <2>1. /\ DictInv' /\ pending.key \in Keys /\ pending.value \in Values
        /\ BindsOnly(pending.key, pending.value)
    BY <1>6, FinishAddBinds
  <2>2. D!Bind(pending.key, pending.value)
    BY <1>6, <2>1, BindingShows DEF D!Bind, FinishAdd
  <2>. QED  BY <2>1, <2>2, Zenon DEF D!Next
<1>7. CASE UNCHANGED vars
  <2>1. UNCHANGED <<data, size, capacity, old, cursor, pending, answer>>  BY <1>7 DEF vars
  <2>2. IInv'
    BY <2>1 DEF DictInv, IInv, TypeOK, SizeIsEntryCount, LoadBound, Idle, Growing
  <2>3. OldKeysDiffer' /\ NotInBoth' /\ BindsNothing
    BY <2>1 DEF DictInv, OldKeysDiffer, NotInBoth, BindsNothing, Holds, InData, InOld
  <2>. QED  BY <1>0, <2>1, <2>2, <2>3 DEF DictInv
<1>. QED
  BY <1>1, <1>2, <1>3, <1>4, <1>5, <1>6, <1>7 DEF Next

(* The map is a dictionary: a lookup answers with what was last added and  *)
(* not removed, through collisions, tombstones and growth.                 *)
THEOREM MapImplementsDictionary == Spec => ImplementsDictionary
<1>1. DictInv /\ [Next]_vars => DictInv' /\ [D!Next]_(D!vars)  BY DictStep
<1>. QED  BY <1>1, DictInit, PTL DEF Spec, ImplementsDictionary, D!Spec
-----------------------------------------------------------------------------
(* The map of the compiler (rcmap.c), whatever the names and their hashes  *)
(* are and the capacity a table starts with.                               *)
CONSTANTS Names, NameHash, TableCapacity

Counted == INSTANCE RCMap WITH Hash <- NameHash, Capacity <- TableCapacity

(* A capacity of four may be full before it is noticed that it is three    *)
(* quarters full.                                                          *)
TableConstants ==
    /\ NameHash \in [Names -> Nat] /\ Counted!NoKey \notin Names
    /\ TableCapacity \in Nat /\ TableCapacity > 4

SlotOf == [key : Names \cup {Counted!NoKey}, value : Nat]

(* Where the search for a name looks after d slots.                        *)
Probe(k, d, n) == (NameHash[k] + d) % n

(* Before a name the search for it meets other names only.                 *)
Whole(s, n) ==
    \A k \in Names, d \in 0 .. n - 1 : s[Probe(k, d, n)].key = k =>
        \A e \in 0 .. d - 1 : s[Probe(k, e, n)].key \notin {Counted!NoKey, k}

Taken(s, n) == {i \in 0 .. n - 1 : s[i].key # Counted!NoKey}

(* The slots and the size of a map of n slots.                             *)
Sane(map, n) ==
    /\ map.slots \in [0 .. n - 1 -> SlotOf]
    /\ \A i \in 0 .. n - 1 : map.slots[i].key = Counted!NoKey
                                => map.slots[i].value = Counted!NoValue
    /\ Whole(map.slots, n)
    /\ map.size = Cardinality(Taken(map.slots, n))

(* A map between two operations.                                           *)
IsTable(map) == \E n \in Nat : n > 4 /\ Sane(map, n) /\ 4 * map.size <= 3 * n + 4

(* What is stored under a name, and that nothing is.                       *)
Stores(map, n, k, v) == \E i \in 0 .. n - 1 : map.slots[i].key = k /\ map.slots[i].value = v
Lacks(map, n, k)     == \A i \in 0 .. n - 1 : map.slots[i].key # k

(* Remainders, and the places around a table.                              *)
LEMMA Euclid ==
    ASSUME NEW a \in Nat, NEW n \in Nat \ {0}
    PROVE  a = n * (a \div n) + (a % n) /\ a % n \in 0 .. n - 1 /\ a \div n \in Nat
OBVIOUS

LEMMA RemaindersAreUnique ==
    ASSUME NEW n \in Nat \ {0}, NEW x \in Int, NEW y \in Int,
           NEW r \in 0 .. n - 1, NEW s \in 0 .. n - 1, n * x + r = n * y + s
    PROVE  r = s
<1>1. n * (x - y) = s - r  OBVIOUS
<1>2. x - y >= 1 => n * (x - y) >= n  OBVIOUS
<1>3. x - y <= -1 => n * (x - y) <= -n  OBVIOUS
<1>. QED  BY <1>1, <1>2, <1>3

LEMMA AroundTheTable ==
    ASSUME NEW h \in Nat, NEW n \in Nat \ {0}, NEW d \in 0 .. n - 1
    PROVE  /\ h % n \in 0 .. n - 1
           /\ (h + d) % n = IF (h % n) + d < n THEN (h % n) + d ELSE ((h % n) + d) - n
<1>0. \A a \in Nat : a = n * (a \div n) + (a % n) /\ a % n \in 0 .. n - 1 /\ a \div n \in Nat
  BY Euclid
<1>1. h = n * (h \div n) + (h % n) /\ h % n \in 0 .. n - 1 /\ h \div n \in Nat
  BY <1>0
<1>2. h + d = n * ((h + d) \div n) + ((h + d) % n) /\ (h + d) % n \in 0 .. n - 1
      /\ (h + d) \div n \in Nat
  <2>1. h + d \in Nat  OBVIOUS
  <2>. QED  BY <1>0, <2>1
<1>. DEFINE x == h \div n
            q == h % n
            y == (h + d) \div n
            r == (h + d) % n
<1>3. h = n * x + q /\ q \in 0 .. n - 1 /\ x \in Int  BY <1>1
<1>4. h + d = n * y + r /\ r \in 0 .. n - 1 /\ y \in Int  BY <1>2
<1>. HIDE DEF x, q, y, r
<1>5. CASE q + d < n
  <2>1. n * y + r = n * x + (q + d) /\ q + d \in 0 .. n - 1  BY <1>3, <1>4, <1>5
  <2>2. r = q + d  BY <2>1, <1>3, <1>4, RemaindersAreUnique
  <2>. QED  BY <2>2, <1>3, <1>5 DEF r, q
<1>6. CASE q + d >= n
  <2>. DEFINE s == (q + d) - n
              z == x + 1
  <2>1. n * (x + 1) = n * x + n  BY <1>3
  <2>2. n * y + r = n * z + s /\ s \in 0 .. n - 1 /\ z \in Int  BY <2>1, <1>3, <1>4, <1>6
  <2>. HIDE DEF s, z
  <2>3. r = s  BY <2>2, <1>4, RemaindersAreUnique
  <2>4. r = (q + d) - n  BY <2>3 DEF s
  <2>. QED  BY <2>4, <1>3, <1>6 DEF r, q
<1>. QED  BY <1>5, <1>6, <1>3

(* A search visits every slot, and none twice.                             *)
LEMMA ProbesVisitEachSlot ==
    ASSUME TableConstants, NEW k \in Names, NEW n \in Nat, n > 4
    PROVE  /\ \A d \in 0 .. n - 1 : Probe(k, d, n) \in 0 .. n - 1
           /\ \A d, e \in 0 .. n - 1 : Probe(k, d, n) = Probe(k, e, n) => d = e
           /\ \A i \in 0 .. n - 1 : \E d \in 0 .. n - 1 : Probe(k, d, n) = i
<1>1. NameHash[k] \in Nat /\ n \in Nat \ {0}  BY DEF TableConstants
<1>. DEFINE h == NameHash[k]
            q == h % n
<1>. HIDE DEF h
<1>2. h \in Nat  BY <1>1 DEF h
<1>3. \A d \in 0 .. n - 1 : /\ q \in 0 .. n - 1
                            /\ (h + d) % n = IF q + d < n THEN q + d ELSE (q + d) - n
  BY <1>1, <1>2, AroundTheTable
<1>4. q \in 0 .. n - 1
  <2>1. 0 \in 0 .. n - 1  OBVIOUS
  <2>. QED  BY <2>1, <1>3
<1>. HIDE DEF q
<1>5. \A d \in 0 .. n - 1 : Probe(k, d, n) = IF q + d < n THEN q + d ELSE (q + d) - n
  BY <1>3 DEF Probe, h
<1>6. ASSUME NEW i \in 0 .. n - 1 PROVE \E d \in 0 .. n - 1 : Probe(k, d, n) = i
  <2>1. CASE i >= q
    <3>1. i - q \in 0 .. n - 1 /\ q + (i - q) = i  BY <2>1, <1>4
    <3>. QED  BY <3>1, <1>5
  <2>2. CASE i < q
    <3>1. (n + i) - q \in 0 .. n - 1 /\ q + ((n + i) - q) = n + i  BY <2>2, <1>4
    <3>2. (n + i) - n = i /\ ~(n + i < n)  OBVIOUS
    <3>. QED  BY <3>1, <3>2, <1>5
  <2>. QED  BY <2>1, <2>2, <1>4
<1>7. \A d \in 0 .. n - 1 : Probe(k, d, n) \in 0 .. n - 1  BY <1>4, <1>5
<1>8. ASSUME NEW d \in 0 .. n - 1, NEW e \in 0 .. n - 1, Probe(k, d, n) = Probe(k, e, n)
      PROVE  d = e
  BY <1>4, <1>5, <1>8
<1>. QED  BY <1>6, <1>7, <1>8

(* The size is a number, less than the capacity while a slot is free.      *)
LEMMA CountedSlots ==
    ASSUME NEW map, NEW n \in Nat, map.slots \in [0 .. n - 1 -> SlotOf]
    PROVE  /\ Counted!CapacityOf(map) = n
           /\ IsFiniteSet(Taken(map.slots, n)) /\ Cardinality(Taken(map.slots, n)) \in Nat
           /\ Taken(map.slots, n) = 0 .. n - 1 => Cardinality(Taken(map.slots, n)) = n
<1>1. IsFiniteSet(0 .. n - 1) /\ Cardinality(0 .. n - 1) = n
  BY FS_Interval
<1>2. Counted!CapacityOf(map) = Cardinality(0 .. n - 1)
  BY DEF Counted!CapacityOf, Counted!Cardinality, Cardinality
<1>3. Taken(map.slots, n) \in SUBSET (0 .. n - 1)  BY DEF Taken
<1>4. IsFiniteSet(Taken(map.slots, n))  BY <1>1, <1>3, FS_Subset
<1>5. Cardinality(Taken(map.slots, n)) \in Nat  BY <1>4, FS_CardinalityType
<1>. QED  BY <1>1, <1>2, <1>4, <1>5

(* The search finds the slot of the name, or else a free one; and before   *)
(* it the slots of other names only.                                       *)
LEMMA SearchEndsWell ==
    ASSUME TableConstants, NEW n \in Nat, n > 4, NEW map, Sane(map, n),
           map.size < n, NEW k \in Names
    PROVE  \E d \in 0 .. n - 1 :
               /\ Counted!FindSlot(map, k) = Probe(k, d, n)
               /\ map.slots[Probe(k, d, n)].key \in {Counted!NoKey, k}
               /\ \A e \in 0 .. d - 1 : map.slots[Probe(k, e, n)].key \notin {Counted!NoKey, k}
               /\ \A i \in 0 .. n - 1 : map.slots[i].key = k => i = Probe(k, d, n)
<1>. DEFINE s == map.slots
            free == Counted!NoKey
            T == {d \in 0 .. n - 1 : s[Probe(k, d, n)].key \in {free, k}}
<1>1. s \in [0 .. n - 1 -> SlotOf] /\ Whole(s, n) /\ Counted!CapacityOf(map) = n
      /\ map.size = Cardinality(Taken(s, n))
  BY CountedSlots DEF Sane
<1>2. PICK i \in 0 .. n - 1 : s[i].key = free
  <2>1. Taken(s, n) # 0 .. n - 1  BY <1>1, CountedSlots
  <2>. QED  BY <2>1 DEF Taken
<1>3. /\ \A d \in 0 .. n - 1 : Probe(k, d, n) \in 0 .. n - 1
      /\ \A d, e \in 0 .. n - 1 : Probe(k, d, n) = Probe(k, e, n) => d = e
      /\ \A j \in 0 .. n - 1 : \E d \in 0 .. n - 1 : Probe(k, d, n) = j
  BY ProbesVisitEachSlot
<1>4. T \in SUBSET Nat /\ T # {}
  <2>1. PICK d \in 0 .. n - 1 : Probe(k, d, n) = i  BY <1>3
  <2>2. d \in T  BY <1>2, <2>1
  <2>. QED  BY <2>2
<1>5. PICK m \in T : \A d \in T : m <= d
  <2>. HIDE DEF T
  <2>. QED  BY <1>4, NatMin
<1>. DEFINE m2 == Counted!Min(T)
<1>6. m2 \in T /\ \A d \in T : m2 <= d
  BY <1>5 DEF Counted!Min
<1>7. Counted!FindSlot(map, k) = Probe(k, m2, n)
  BY <1>1, Zenon DEF Counted!FindSlot, Probe
<1>. HIDE DEF m2
<1>8. \A e \in 0 .. m2 - 1 : s[Probe(k, e, n)].key \notin {free, k}
  <2>1. ASSUME NEW e \in 0 .. m2 - 1, s[Probe(k, e, n)].key \in {free, k} PROVE FALSE
    <3>1. m2 \in 0 .. n - 1  BY <1>6
    <3>2. e \in 0 .. n - 1 /\ ~(m2 <= e)  BY <3>1
    <3>3. e \in T  BY <2>1, <3>2
    <3>. QED  BY <1>6, <3>2, <3>3
  <2>. QED  BY <2>1
<1>9. ASSUME NEW j \in 0 .. n - 1, s[j].key = k PROVE j = Probe(k, m2, n)
  <2>1. PICK d \in 0 .. n - 1 : Probe(k, d, n) = j  BY <1>3
  <2>2. d \in T  BY <1>9, <2>1
  <2>3. m2 <= d /\ m2 \in 0 .. n - 1  BY <1>6, <2>2
  <2>4. CASE m2 < d
    <3>1. s[Probe(k, d, n)].key = k  BY <1>9, <2>1
    <3>2. \A e \in 0 .. d - 1 : s[Probe(k, e, n)].key \notin {free, k}
      BY <1>1, <3>1 DEF Whole
    <3>3. m2 \in 0 .. d - 1  BY <2>3, <2>4
    <3>. QED  BY <1>6, <3>2, <3>3
  <2>5. CASE m2 = d  BY <2>1, <2>5
  <2>. QED  BY <2>3, <2>4, <2>5
<1>. QED  BY <1>6, <1>7, <1>8, <1>9

(* No name is in two slots.                                                *)
LEMMA NamesHaveOneSlot ==
    ASSUME TableConstants, NEW n \in Nat, n > 4, NEW map, Sane(map, n),
           map.size < n, NEW k \in Names
    PROVE  \A i, j \in 0 .. n - 1 :
               map.slots[i].key = k /\ map.slots[j].key = k => i = j
<1>1. PICK d \in 0 .. n - 1 :
        /\ Counted!FindSlot(map, k) = Probe(k, d, n)
        /\ map.slots[Probe(k, d, n)].key \in {Counted!NoKey, k}
        /\ \A e \in 0 .. d - 1 : map.slots[Probe(k, e, n)].key \notin {Counted!NoKey, k}
        /\ \A i \in 0 .. n - 1 : map.slots[i].key = k => i = Probe(k, d, n)
  BY SearchEndsWell
<1>. QED  BY <1>1

(* What is read under a name is what is stored there, NoValue if nothing.  *)
LEMMA LookupReads ==
    ASSUME TableConstants, NEW n \in Nat, n > 4, NEW map, Sane(map, n),
           map.size < n, NEW k \in Names
    PROVE  /\ \A v : Stores(map, n, k, v) => Counted!Get(map, k) = v
           /\ Lacks(map, n, k) => Counted!Get(map, k) = Counted!NoValue
<1>1. PICK d \in 0 .. n - 1 :
        /\ Counted!FindSlot(map, k) = Probe(k, d, n)
        /\ map.slots[Probe(k, d, n)].key \in {Counted!NoKey, k}
        /\ \A i \in 0 .. n - 1 : map.slots[i].key = k => i = Probe(k, d, n)
  BY SearchEndsWell
<1>2. Probe(k, d, n) \in 0 .. n - 1  BY ProbesVisitEachSlot
<1>3. Counted!Get(map, k) = map.slots[Probe(k, d, n)].value  BY <1>1 DEF Counted!Get
<1>. QED  BY <1>1, <1>2, <1>3 DEF Stores, Lacks, Sane

(* Storing keeps every search whole and changes one name.                  *)
LEMMA StoreKeepsTable ==
    ASSUME TableConstants, NEW n \in Nat, n > 4, NEW map, Sane(map, n),
           map.size < n, NEW k \in Names, NEW v \in Nat
    PROVE  LET new == Counted!Store(map, k, v) IN
           /\ Sane(new, n)
           /\ new.size \in Nat /\ map.size \in Nat /\ new.size <= map.size + 1
           /\ Stores(new, n, k, v)
           /\ \A j \in Names \ {k} : /\ \A w : Stores(new, n, j, w) <=> Stores(map, n, j, w)
                                     /\ Lacks(new, n, j) <=> Lacks(map, n, j)
<1>. DEFINE s == map.slots
            free == Counted!NoKey
            f == Counted!FindSlot(map, k)
            t == [s EXCEPT ![f] = [key |-> k, value |-> v]]
            new == Counted!Store(map, k, v)
<1>1. s \in [0 .. n - 1 -> SlotOf] /\ Whole(s, n) /\ map.size = Cardinality(Taken(s, n))
      /\ \A i \in 0 .. n - 1 : s[i].key = free => s[i].value = Counted!NoValue
  BY DEF Sane
<1>2. PICK a \in 0 .. n - 1 :
        /\ f = Probe(k, a, n) /\ s[f].key \in {free, k}
        /\ \A e \in 0 .. a - 1 : s[Probe(k, e, n)].key \notin {free, k}
        /\ \A i \in 0 .. n - 1 : s[i].key = k => i = f
  <2>1. PICK a \in 0 .. n - 1 :
        /\ f = Probe(k, a, n)
        /\ s[Probe(k, a, n)].key \in {free, k}
        /\ \A e \in 0 .. a - 1 : s[Probe(k, e, n)].key \notin {free, k}
        /\ \A i \in 0 .. n - 1 : s[i].key = k => i = Probe(k, a, n)
    BY SearchEndsWell
  <2>. QED  BY <2>1
<1>3. f \in 0 .. n - 1  BY <1>2, ProbesVisitEachSlot
<1>4. new.slots = t /\ new.size = map.size + (IF s[f].key = free THEN 1 ELSE 0)
  BY DEF Counted!Store
<1>5. k # free  BY DEF TableConstants
<1>. HIDE DEF new, f
<1>6. /\ t \in [0 .. n - 1 -> SlotOf] /\ t[f].key = k /\ t[f].value = v
      /\ \A i \in 0 .. n - 1 : i # f => t[i] = s[i]
  BY <1>1, <1>3 DEF SlotOf
<1>. HIDE DEF t
<1>7. Whole(t, n)
  <2>. SUFFICES ASSUME NEW j \in Names, NEW d \in 0 .. n - 1, t[Probe(j, d, n)].key = j,
                       NEW e \in 0 .. d - 1
                PROVE  t[Probe(j, e, n)].key \notin {free, j}
    BY DEF Whole
  <2>1. e \in 0 .. n - 1 /\ e # d  OBVIOUS
  <2>2. /\ Probe(j, d, n) \in 0 .. n - 1 /\ Probe(j, e, n) \in 0 .. n - 1
        /\ Probe(j, d, n) # Probe(j, e, n)
    <3>1. /\ \A c \in 0 .. n - 1 : Probe(j, c, n) \in 0 .. n - 1
          /\ \A b, c \in 0 .. n - 1 : Probe(j, b, n) = Probe(j, c, n) => b = c
      BY ProbesVisitEachSlot
    <3>. QED  BY <2>1, <3>1
  <2>3. j # free  BY DEF TableConstants
  <2>4. CASE Probe(j, d, n) = f
    <3>1. j = k  BY <1>6, <2>4
    <3>2. Probe(k, d, n) = Probe(k, a, n)  BY <1>2, <2>4, <3>1
    <3>3. d = a  BY <3>2, ProbesVisitEachSlot
    <3>4. s[Probe(k, e, n)].key \notin {free, k}  BY <1>2, <3>3
    <3>. QED  BY <1>6, <2>2, <2>4, <3>1, <3>4
  <2>5. CASE Probe(j, d, n) # f
    <3>1. s[Probe(j, d, n)].key = j  BY <1>6, <2>2, <2>5
    <3>2. s[Probe(j, e, n)].key \notin {free, j}  BY <1>1, <3>1 DEF Whole
    <3>3. CASE Probe(j, e, n) = f
      <4>1. j # k  BY <1>2, <2>2, <2>5, <3>1
      <4>. QED  BY <1>5, <1>6, <3>3, <4>1
    <3>4. CASE Probe(j, e, n) # f
      BY <1>6, <2>2, <3>2, <3>4
    <3>. QED  BY <3>3, <3>4
  <2>. QED  BY <2>4, <2>5
<1>8. Taken(t, n) = Taken(s, n) \cup {f}
  BY <1>3, <1>5, <1>6 DEF Taken
<1>9. IsFiniteSet(Taken(s, n)) /\ Cardinality(Taken(s, n)) \in Nat
  BY <1>1, CountedSlots
<1>10. Cardinality(Taken(t, n)) = Cardinality(Taken(s, n)) + (IF s[f].key = free THEN 1 ELSE 0)
  <2>1. CASE s[f].key = free
    <3>1. f \notin Taken(s, n)  BY <2>1 DEF Taken
    <3>. QED  BY <1>8, <1>9, <2>1, <3>1, FS_AddElement
  <2>2. CASE s[f].key # free
    <3>1. Taken(t, n) = Taken(s, n)  BY <1>3, <1>8, <2>2 DEF Taken
    <3>. QED  BY <1>9, <2>2, <3>1
  <2>. QED  BY <2>1, <2>2
<1>11. \A i \in 0 .. n - 1 : t[i].key = free => t[i].value = Counted!NoValue
  BY <1>1, <1>5, <1>6
<1>12. Sane(new, n)
  BY <1>1, <1>4, <1>6, <1>7, <1>10, <1>11 DEF Sane
<1>13. Stores(new, n, k, v)  BY <1>3, <1>4, <1>6 DEF Stores
<1>14. ASSUME NEW j \in Names \ {k}
       PROVE  /\ \A w : Stores(new, n, j, w) <=> Stores(map, n, j, w)
              /\ Lacks(new, n, j) <=> Lacks(map, n, j)
  <2>1. j # free /\ j # k /\ t[f].key # j /\ s[f].key # j
    BY <1>2, <1>6 DEF TableConstants
  <2>2. \A i \in 0 .. n - 1 : (t[i].key = j <=> s[i].key = j)
                              /\ (t[i].key = j => t[i] = s[i])
    BY <1>6, <2>1
  <2>. QED  BY <1>4, <2>2 DEF Stores, Lacks
<1>. QED  BY <1>1, <1>4, <1>9, <1>12, <1>13, <1>14 DEF new

-----------------------------------------------------------------------------
(* Growth: the old slots are folded into a table of twice as many.         *)
Carried(g, e) == IF e.key = Counted!NoKey THEN g ELSE Counted!Store(g, e.key, e.value)

(* What the fold computes for the slots with a number in a set.            *)
Folds(f, base, items, m) ==
    f = [t \in SUBSET (1 .. m) |->
            IF t = {} THEN base
            ELSE LET x == Counted!Max(t) IN Carried(f[t \ {x}], items[x])]

LEMMA GrowIsAFold ==
    ASSUME NEW map, NEW n \in Nat, map.slots \in [0 .. n - 1 -> SlotOf]
    PROVE  LET items == [i \in 1 .. n |-> map.slots[i - 1]]
               base  == Counted!RCMapInit(2 * n)
           IN Counted!Grow(map) = (CHOOSE f : Folds(f, base, items, n))[1 .. n]
<1>1. Counted!CapacityOf(map) = n  BY CountedSlots
<1>. DEFINE items == [i \in 1 .. n |-> map.slots[i - 1]]
            base  == Counted!RCMapInit(2 * n)
<1>2. Counted!SlotsInOrder(map) = items  BY <1>1 DEF Counted!SlotsInOrder
<1>3. DOMAIN items = 1 .. n  OBVIOUS
<1>. HIDE DEF items, base
<1>4. Counted!Grow(map) = Counted!FoldLeft(Carried, base, items)
  BY <1>1, <1>2, Zenon DEF Counted!Grow, Carried, base
<1>5. Counted!FoldLeft(Carried, base, items) = (CHOOSE f : Folds(f, base, items, n))[1 .. n]
  BY <1>3, Zenon DEF Counted!FoldLeft, Counted!MapThenFoldSet, Folds
<1>. QED  BY <1>4, <1>5 DEF items, base

(* The fold takes the slots of a set from the last one down.               *)
LEMMA LastOfSet ==
    ASSUME NEW m \in Nat, NEW t \in SUBSET (1 .. m + 1)
    PROVE  /\ m + 1 \in t => Counted!Max(t) = m + 1 /\ t \ {m + 1} \in SUBSET (1 .. m)
           /\ m + 1 \notin t => t \in SUBSET (1 .. m)
<1>1. ASSUME m + 1 \in t PROVE Counted!Max(t) = m + 1 /\ t \ {m + 1} \in SUBSET (1 .. m)
  <2>1. \A y \in t : y \in 1 .. m + 1  OBVIOUS
  <2>2. \A y \in t : m + 1 >= y  BY <2>1
  <2>3. Counted!Max(t) \in t /\ \A y \in t : Counted!Max(t) >= y
    BY <1>1, <2>2 DEF Counted!Max
  <2>4. Counted!Max(t) \in 1 .. m + 1 /\ Counted!Max(t) >= m + 1
    BY <1>1, <2>1, <2>3
  <2>5. Counted!Max(t) = m + 1
    BY <2>4
  <2>6. t \ {m + 1} \in SUBSET (1 .. m)
    BY <2>1
  <2>. QED  BY <2>5, <2>6
<1>2. m + 1 \notin t => t \in SUBSET (1 .. m)  OBVIOUS
<1>. QED  BY <1>1, <1>2

(* There is such a function: each is continued by one more slot.           *)
LEMMA FoldsExist ==
    ASSUME NEW base, NEW items, NEW n \in Nat
    PROVE  \E f : Folds(f, base, items, n)
<1>. DEFINE bad == {m \in Nat : ~ \E f : Folds(f, base, items, m)}
<1>. SUFFICES ASSUME bad # {} PROVE FALSE
  OBVIOUS
<1>1. PICK b \in bad : \A c \in bad : b <= c
  <2>1. bad \in SUBSET Nat /\ bad # {}  OBVIOUS
  <2>. HIDE DEF bad
  <2>. QED  BY <2>1, NatMin
<1>2. CASE b = 0
  <2>. DEFINE f == [t \in SUBSET (1 .. 0) |-> base]
  <2>1. \A t \in SUBSET (1 .. 0) : t = {}  OBVIOUS
  <2>2. f = [t \in SUBSET (1 .. 0) |->
            IF t = {} THEN base
            ELSE LET x == Counted!Max(t) IN Carried(f[t \ {x}], items[x])]
    BY <2>1, Zenon
  <2>3. Folds(f, base, items, b)  BY <1>2, <2>2, Zenon DEF Folds
  <2>. QED  BY <2>3
<1>3. CASE b # 0
  <2>. DEFINE m == b - 1
  <2>1. m \in Nat /\ b = m + 1 /\ ~(b <= m)  BY <1>3
  <2>2. m \notin bad  BY <1>1, <2>1
  <2>3. PICK f : Folds(f, base, items, m)  BY <2>1, <2>2
  <2>. HIDE DEF m
  <2>. DEFINE g == [t \in SUBSET (1 .. m + 1) |->
                       IF m + 1 \in t THEN Carried(f[t \ {m + 1}], items[m + 1]) ELSE f[t]]
  <2>4. \A t \in SUBSET (1 .. m) : /\ g[t] = f[t]
                                  /\ f[t] = IF t = {} THEN base
                                     ELSE LET x == Counted!Max(t) IN Carried(f[t \ {x}], items[x])
    <3>1. \A t \in SUBSET (1 .. m) : t \in SUBSET (1 .. m + 1) /\ m + 1 \notin t  BY <2>1
    <3>2. \A t \in SUBSET (1 .. m) : g[t] = f[t]  BY <3>1
    <3>3. \A t \in SUBSET (1 .. m) : f[t] = IF t = {} THEN base
                                     ELSE LET x == Counted!Max(t) IN Carried(f[t \ {x}], items[x])
      BY <2>3, Zenon DEF Folds
    <3>. QED  BY <3>2, <3>3, Zenon
  <2>5. ASSUME NEW t \in SUBSET (1 .. m + 1)
        PROVE  g[t] = IF t = {} THEN base
                      ELSE LET x == Counted!Max(t) IN Carried(g[t \ {x}], items[x])
    <3>1. CASE m + 1 \in t
      <4>1. Counted!Max(t) = m + 1 /\ t \ {m + 1} \in SUBSET (1 .. m)
        BY <2>1, <3>1, LastOfSet
      <4>2. g[t] = Carried(f[t \ {m + 1}], items[m + 1])  BY <3>1
      <4>3. g[t \ {m + 1}] = f[t \ {m + 1}]  BY <4>1, <2>4
      <4>4. t # {}  BY <3>1
      <4>. HIDE DEF g
      <4>. QED  BY <4>1, <4>2, <4>3, <4>4, Zenon
    <3>2. CASE m + 1 \notin t
      <4>1. t \in SUBSET (1 .. m)  BY <2>1, <3>2, LastOfSet
      <4>2. t \ {Counted!Max(t)} \in SUBSET (1 .. m)  BY <4>1
      <4>3. g[t] = f[t] /\ g[t \ {Counted!Max(t)}] = f[t \ {Counted!Max(t)}]
        BY <4>1, <4>2, <2>4
      <4>4. f[t] = IF t = {} THEN base
                   ELSE LET x == Counted!Max(t) IN Carried(f[t \ {x}], items[x])
        BY <4>1, <2>4
      <4>. HIDE DEF g
      <4>. QED  BY <4>3, <4>4, Zenon
    <3>. QED  BY <3>1, <3>2
  <2>6. g = [t \in SUBSET (1 .. m + 1) |->
            IF t = {} THEN base
            ELSE LET x == Counted!Max(t) IN Carried(g[t \ {x}], items[x])]
    <3>. DEFINE h == [t \in SUBSET (1 .. m + 1) |->
            IF t = {} THEN base
            ELSE LET x == Counted!Max(t) IN Carried(g[t \ {x}], items[x])]
    <3>1. \A t \in SUBSET (1 .. m + 1) : g[t] = h[t]  BY <2>5, Zenon
    <3>2. g = [t \in SUBSET (1 .. m + 1) |-> g[t]]  OBVIOUS
    <3>3. h = [t \in SUBSET (1 .. m + 1) |-> h[t]]  OBVIOUS
    <3>4. g = h
      <4>. HIDE DEF g, h
      <4>. QED  BY <3>1, <3>2, <3>3, Zenon
    <3>. QED  BY <3>4, Zenon
  <2>7. Folds(g, base, items, m + 1)
    <3>. HIDE DEF g
    <3>. QED  BY <2>6, Zenon DEF Folds
  <2>. QED  BY <2>1, <2>7
<1>. QED  BY <1>2, <1>3

(* A new table is free in every slot.                                      *)
LEMMA NewTableIsSane ==
    ASSUME TableConstants, NEW n \in Nat, n > 4
    PROVE  LET new == Counted!RCMapInit(n) IN
           Sane(new, n) /\ new.size = 0 /\ \A k \in Names : Lacks(new, n, k)
<1>. DEFINE new == Counted!RCMapInit(n)
            free == [key |-> Counted!NoKey, value |-> Counted!NoValue]
<1>1. new.size = 0 /\ new.slots = [i \in 0 .. n - 1 |-> free]  BY DEF Counted!RCMapInit
<1>2. free \in SlotOf /\ free.key = Counted!NoKey /\ free.value = Counted!NoValue
  BY DEF SlotOf, Counted!NoValue
<1>. HIDE DEF new, free
<1>3. /\ new.slots \in [0 .. n - 1 -> SlotOf]
      /\ \A i \in 0 .. n - 1 : new.slots[i].key = Counted!NoKey
                              /\ new.slots[i].value = Counted!NoValue
  BY <1>1, <1>2
<1>4. \A k \in Names : k # Counted!NoKey  BY DEF TableConstants
<1>5. Whole(new.slots, n)
  <2>1. ASSUME NEW k \in Names, NEW d \in 0 .. n - 1 PROVE new.slots[Probe(k, d, n)].key # k
    BY <1>3, <1>4, ProbesVisitEachSlot
  <2>. QED  BY <2>1 DEF Whole
<1>6. Taken(new.slots, n) = {}  BY <1>3 DEF Taken
<1>7. Cardinality(Taken(new.slots, n)) = 0  BY <1>6, FS_EmptySet
<1>. QED  BY <1>1, <1>3, <1>4, <1>5, <1>7 DEF Sane, Lacks, new

(* The larger table has the entries of the old one, and only those: so     *)
(* many that none of the insertions of a growth calls for another growth.  *)
LEMMA GrowthKeepsEntries ==
    ASSUME TableConstants, NEW n \in Nat, n > 4, NEW map, Sane(map, n), map.size < n
    PROVE  LET grown == Counted!Grow(map) IN
           /\ Sane(grown, 2 * n) /\ grown.size \in Nat /\ grown.size <= n
           /\ \A k \in Names : /\ \A v : Stores(map, n, k, v) => Stores(grown, 2 * n, k, v)
                               /\ Lacks(map, n, k) => Lacks(grown, 2 * n, k)
<1>. DEFINE s == map.slots
            items == [i \in 1 .. n |-> s[i - 1]]
            base == Counted!RCMapInit(2 * n)
            f == CHOOSE f : Folds(f, base, items, n)
            G(i) == f[1 .. i]
            Has(i) == /\ Sane(G(i), 2 * n) /\ G(i).size <= i
                      /\ \A k \in Names :
                            /\ \A j \in 0 .. i - 1 : s[j].key = k => Stores(G(i), 2 * n, k, s[j].value)
                            /\ (\A j \in 0 .. i - 1 : s[j].key # k) => Lacks(G(i), 2 * n, k)
            bad == {i \in 0 .. n : ~Has(i)}
<1>1. s \in [0 .. n - 1 -> SlotOf]  BY DEF Sane
<1>2. Counted!Grow(map) = G(n)  BY <1>1, GrowIsAFold
<1>3. Folds(f, base, items, n)
  <2>1. \E g : Folds(g, base, items, n)  BY FoldsExist, Zenon
  <2>. QED  BY <2>1, Zenon
<1>4. \A t \in SUBSET (1 .. n) :
         f[t] = IF t = {} THEN base ELSE LET x == Counted!Max(t) IN Carried(f[t \ {x}], items[x])
  <2>. HIDE DEF f, items, base
  <2>. QED  BY <1>3, Zenon DEF Folds
<1>. HIDE DEF f
<1>5. G(0) = base
  <2>1. 1 .. 0 = {}  OBVIOUS
  <2>. QED  BY <2>1, <1>4, Zenon
<1>6. ASSUME NEW i \in 0 .. n - 1 PROVE G(i + 1) = Carried(G(i), s[i])
  <2>1. /\ 1 .. i + 1 \in SUBSET (1 .. n) /\ 1 .. i + 1 # {} /\ (1 .. i + 1) \ {i + 1} = 1 .. i
        /\ i + 1 \in 1 .. i + 1 /\ i \in Nat
    OBVIOUS
  <2>2. Counted!Max(1 .. i + 1) = i + 1  BY <2>1, LastOfSet
  <2>3. items[i + 1] = s[i]  BY <2>1
  <2>. HIDE DEF items
  <2>. QED  BY <1>4, <2>1, <2>2, <2>3, Zenon
<1>7. 2 * n \in Nat /\ 2 * n > 4  OBVIOUS
<1>8. Has(0)
  <2>1. Sane(base, 2 * n) /\ base.size = 0 /\ \A k \in Names : Lacks(base, 2 * n, k)
    BY <1>7, NewTableIsSane
  <2>. HIDE DEF base
  <2>. QED  BY <1>5, <2>1
<1>9. ASSUME NEW i \in 0 .. n - 1, Has(i) PROVE Has(i + 1)
  <2>. DEFINE g == G(i)
              h == G(i + 1)
              e == s[i]
  <2>1. Sane(g, 2 * n) /\ g.size <= i /\ g.size \in Nat
    BY <1>9, <1>7, CountedSlots DEF Sane
  <2>2. /\ \A k \in Names : /\ \A j \in 0 .. i - 1 : s[j].key = k => Stores(g, 2 * n, k, s[j].value)
                            /\ (\A j \in 0 .. i - 1 : s[j].key # k) => Lacks(g, 2 * n, k)
    BY <1>9
  <2>3. h = Carried(g, e)  BY <1>6
  <2>4. e \in SlotOf  BY <1>1
  <2>. HIDE DEF g, h
  <2>5. CASE e.key = Counted!NoKey
    <3>1. h = g  BY <2>3, <2>5 DEF Carried
    <3>2. \A k \in Names : s[i].key # k  BY <2>5 DEF TableConstants
    <3>3. \A j \in 0 .. (i + 1) - 1 : j \in 0 .. i - 1 \/ j = i  OBVIOUS
    <3>4. \A j \in 0 .. i - 1 : j \in 0 .. (i + 1) - 1  OBVIOUS
    <3>5. ASSUME NEW k \in Names
          PROVE  /\ \A j \in 0 .. (i + 1) - 1 : s[j].key = k => Stores(h, 2 * n, k, s[j].value)
                 /\ (\A j \in 0 .. (i + 1) - 1 : s[j].key # k) => Lacks(h, 2 * n, k)
      <4>1. \A j \in 0 .. (i + 1) - 1 : s[j].key = k => j \in 0 .. i - 1  BY <3>2, <3>3
      <4>. QED  BY <2>2, <3>1, <3>4, <4>1
    <3>6. Sane(h, 2 * n) /\ h.size <= i + 1  BY <2>1, <3>1
    <3>. QED  BY <3>5, <3>6 DEF h
  <2>6. CASE e.key # Counted!NoKey
    <3>. DEFINE q == e.key
                w == e.value
    <3>1. q \in Names /\ w \in Nat  BY <2>4, <2>6 DEF SlotOf
    <3>2. h = Counted!Store(g, q, w)  BY <2>3, <2>6 DEF Carried
    <3>3. g.size < 2 * n  BY <2>1
    <3>4. /\ Sane(h, 2 * n) /\ h.size \in Nat /\ h.size <= g.size + 1 /\ Stores(h, 2 * n, q, w)
          /\ \A k \in Names \ {q} : /\ \A v : Stores(h, 2 * n, k, v) <=> Stores(g, 2 * n, k, v)
                                    /\ Lacks(h, 2 * n, k) <=> Lacks(g, 2 * n, k)
      BY <1>7, <2>1, <3>1, <3>2, <3>3, StoreKeepsTable
    <3>5. \A j \in 0 .. n - 1 : s[j].key = q => j = i
      <4>. HIDE DEF bad, G, items, base, Has
      <4>1. \A a, b \in 0 .. n - 1 : s[a].key = q /\ s[b].key = q => a = b
        <5>. HIDE DEF q, w
        <5>. QED  BY <3>1, NamesHaveOneSlot
      <4>2. s[i].key = q  OBVIOUS
      <4>. HIDE DEF q, w
      <4>. QED  BY <4>1, <4>2
    <3>. HIDE DEF q, w
    <3>6. ASSUME NEW k \in Names
          PROVE  /\ \A j \in 0 .. (i + 1) - 1 : s[j].key = k => Stores(h, 2 * n, k, s[j].value)
                 /\ (\A j \in 0 .. (i + 1) - 1 : s[j].key # k) => Lacks(h, 2 * n, k)
      <4>1. CASE k = q
        <5>1. \A j \in 0 .. (i + 1) - 1 : j \in 0 .. n - 1  OBVIOUS
        <5>2. i \in 0 .. (i + 1) - 1  OBVIOUS
        <5>. QED  BY <3>4, <3>5, <4>1, <5>1, <5>2 DEF q, w
      <4>2. CASE k # q
        <5>1. \A j \in 0 .. (i + 1) - 1 : s[j].key = k => j \in 0 .. i - 1
          <6>1. \A j \in 0 .. (i + 1) - 1 : j \in 0 .. i - 1 \/ j = i  OBVIOUS
          <6>. QED  BY <4>2, <6>1 DEF q
        <5>2. \A j \in 0 .. i - 1 : j \in 0 .. (i + 1) - 1  OBVIOUS
        <5>. QED  BY <2>2, <3>4, <4>2, <5>1, <5>2
      <4>. QED  BY <4>1, <4>2
    <3>7. h.size <= i + 1  BY <2>1, <3>4
    <3>. QED  BY <3>4, <3>6, <3>7 DEF h
  <2>. QED  BY <2>5, <2>6
<1>10. bad = {}
  <2>. SUFFICES ASSUME bad # {} PROVE FALSE
    OBVIOUS
  <2>. HIDE DEF Has
  <2>1. PICK b \in bad : \A c \in bad : b <= c
    <3>1. bad \in SUBSET Nat  OBVIOUS
    <3>. HIDE DEF bad
    <3>. QED  BY <3>1, NatMin
  <2>2. b \in 0 .. n /\ b # 0  BY <1>8
  <2>3. b - 1 \in 0 .. n - 1 /\ ~(b <= b - 1) /\ (b - 1) + 1 = b /\ b - 1 \in 0 .. n  BY <2>2
  <2>4. Has(b - 1)  BY <2>1, <2>3
  <2>5. Has((b - 1) + 1)  BY <1>9, <2>3, <2>4
  <2>. QED  BY <2>3, <2>5
<1>11. Has(n)
  <2>. HIDE DEF Has
  <2>1. n \in 0 .. n  OBVIOUS
  <2>. QED  BY <1>10, <2>1
<1>12. G(n).size \in Nat  BY <1>7, <1>11, CountedSlots DEF Sane
<1>. HIDE DEF G
<1>. QED  BY <1>2, <1>11, <1>12 DEF Stores, Lacks

-----------------------------------------------------------------------------
(* A new table of the analysis is one and has nothing.                     *)
THEOREM NewTablesAreEmpty ==
    ASSUME TableConstants
    PROVE  LET new == Counted!RCMapInit(TableCapacity) IN
           /\ IsTable(new)
           /\ \A k \in Names : Counted!Get(new, k) = Counted!NoValue
<1>1. TableCapacity \in Nat /\ TableCapacity > 4  BY DEF TableConstants
<1>2. /\ Sane(Counted!RCMapInit(TableCapacity), TableCapacity)
      /\ Counted!RCMapInit(TableCapacity).size = 0
      /\ \A k \in Names : Lacks(Counted!RCMapInit(TableCapacity), TableCapacity, k)
  BY <1>1, NewTableIsSane
<1>3. \A k \in Names : Counted!Get(Counted!RCMapInit(TableCapacity), k) = Counted!NoValue
  <2>. DEFINE new == Counted!RCMapInit(TableCapacity)
  <2>. HIDE DEF new
  <2>1. Sane(new, TableCapacity) /\ new.size < TableCapacity
        /\ \A k \in Names : Lacks(new, TableCapacity, k)
    BY <1>1, <1>2 DEF new
  <2>2. \A k \in Names : Counted!Get(new, k) = Counted!NoValue
    BY <1>1, <2>1, LookupReads
  <2>. QED  BY <2>2 DEF new
<1>. QED  BY <1>1, <1>2, <1>3 DEF IsTable

(* Whatever names collide and whenever the table grows, an insertion       *)
(* changes what is found under its own name and no other, and leaves a     *)
(* free slot for the next search (rcmap.c:76 asserts it).                  *)
THEOREM InsertionsAreUpdates ==
    ASSUME TableConstants, NEW map, IsTable(map), NEW key \in Names, NEW value \in Nat
    PROVE  LET new == Counted!Insert(map, key, value) IN
           /\ IsTable(new)
           /\ \A k \in Names :
                 Counted!Get(new, k) = IF k = key THEN value ELSE Counted!Get(map, k)
<1>1. PICK n \in Nat : n > 4 /\ Sane(map, n) /\ 4 * map.size <= 3 * n + 4
  BY DEF IsTable
<1>2. map.size \in Nat /\ map.size < n /\ Counted!CapacityOf(map) = n
  <2>1. map.slots \in [0 .. n - 1 -> SlotOf] /\ map.size = Cardinality(Taken(map.slots, n))
    BY <1>1 DEF Sane
  <2>2. Counted!CapacityOf(map) = n /\ Cardinality(Taken(map.slots, n)) \in Nat
    BY <2>1, CountedSlots
  <2>3. map.size \in Nat  BY <2>1, <2>2
  <2>. QED  BY <1>1, <2>2, <2>3
<1>. DEFINE room == IF Counted!NeedsGrowth(map) THEN Counted!Grow(map) ELSE map
            cap == IF Counted!NeedsGrowth(map) THEN 2 * n ELSE n
            new == Counted!Insert(map, key, value)
<1>3. new = Counted!Store(room, key, value)  BY DEF Counted!Insert
<1>4. /\ cap \in Nat /\ cap > 4 /\ Sane(room, cap) /\ room.size \in Nat
      /\ room.size < cap /\ 4 * (room.size + 1) <= 3 * cap + 4
      /\ \A k \in Names : /\ \A v : Stores(map, n, k, v) => Stores(room, cap, k, v)
                          /\ Lacks(map, n, k) => Lacks(room, cap, k)
  <2>1. CASE Counted!NeedsGrowth(map)
    <3>1. /\ Sane(room, 2 * n) /\ room.size \in Nat /\ room.size <= n
          /\ \A k \in Names : /\ \A v : Stores(map, n, k, v) => Stores(room, 2 * n, k, v)
                              /\ Lacks(map, n, k) => Lacks(room, 2 * n, k)
      BY <1>1, <1>2, <2>1, GrowthKeepsEntries
    <3>2. cap = 2 * n  BY <2>1
    <3>. HIDE DEF room, cap
    <3>. QED  BY <1>1, <3>1, <3>2
  <2>2. CASE ~Counted!NeedsGrowth(map)
    <3>1. 4 * map.size <= 3 * n  BY <1>2, <2>2 DEF Counted!NeedsGrowth
    <3>2. room = map /\ cap = n  BY <2>2
    <3>. HIDE DEF room, cap
    <3>. QED  BY <1>1, <1>2, <3>1, <3>2
  <2>. QED  BY <2>1, <2>2
<1>. HIDE DEF room, cap, new
<1>5. /\ Sane(new, cap) /\ new.size \in Nat /\ new.size <= room.size + 1
      /\ Stores(new, cap, key, value)
      /\ \A j \in Names \ {key} : /\ \A w : Stores(new, cap, j, w) <=> Stores(room, cap, j, w)
                                  /\ Lacks(new, cap, j) <=> Lacks(room, cap, j)
  BY <1>3, <1>4, StoreKeepsTable
<1>6. 4 * new.size <= 3 * cap + 4 /\ new.size < cap  BY <1>4, <1>5
<1>7. IsTable(new)  BY <1>4, <1>5, <1>6 DEF IsTable
<1>8. ASSUME NEW k \in Names
      PROVE  Counted!Get(new, k) = IF k = key THEN value ELSE Counted!Get(map, k)
  <2>1. CASE k = key
    <3>1. Counted!Get(new, k) = value  BY <1>4, <1>5, <1>6, <2>1, LookupReads
    <3>. QED  BY <2>1, <3>1
  <2>2. CASE k # key
    <3>1. CASE Lacks(map, n, k)
      <4>1. Lacks(new, cap, k)  BY <1>4, <1>5, <2>2, <3>1
      <4>2. Counted!Get(new, k) = Counted!NoValue  BY <1>4, <1>5, <1>6, <4>1, LookupReads
      <4>3. Counted!Get(map, k) = Counted!NoValue  BY <1>1, <1>2, <3>1, LookupReads
      <4>. QED  BY <2>2, <4>2, <4>3
    <3>2. CASE ~Lacks(map, n, k)
      <4>1. PICK v : Stores(map, n, k, v)  BY <3>2 DEF Lacks, Stores
      <4>2. Stores(new, cap, k, v)  BY <1>4, <1>5, <2>2, <4>1
      <4>3. Counted!Get(new, k) = v  BY <1>4, <1>5, <1>6, <4>2, LookupReads
      <4>4. Counted!Get(map, k) = v  BY <1>1, <1>2, <4>1, LookupReads
      <4>. QED  BY <2>2, <4>3, <4>4
    <3>. QED  BY <3>1, <3>2
  <2>. QED  BY <2>1, <2>2
<1>. QED  BY <1>7, <1>8 DEF new
==============================================================================

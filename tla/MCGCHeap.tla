------------------------------ MODULE MCGCHeap ------------------------------
(***************************************************************************)
(* GCHeap with a few addresses and small thresholds, so that collections   *)
(* start from any allocation.                                              *)
(*                                                                         *)
(* Plain kinds: a string and an instance, larger, whose fields the program *)
(* sets (its class is never collected and left out); one allocation each.  *)
(* Composite kinds: these two, a map of two allocations, and a class that  *)
(* takes its name and builds its method map.                               *)
(***************************************************************************)
EXTENDS GCHeap, TLC

CONSTANTS r1, r2, r3, r4, dispatchTable, string, instance, map, class

MCRef3 == {r1, r2, r3}
MCRef4 == {r1, r2, r3, r4}
MCRoot == {dispatchTable}
Symmetry3 == Permutations(MCRef3)
Symmetry4 == Permutations(MCRef4)

(* A bound on the shape of the heap: how many pointers there are in all.   *)
Pointers == {<<o, t>> \in Ref \X Ref : t \in refs[o]}
FewPointers == Cardinality(Pointers) <= 2

(* What is tainted is followed to the end of the collection it happens in: *)
(* no property says more about it.                                         *)
TaintedRunsEnd == tainted => Running

Object(k, b) == [bytes |-> b, makes |-> k]
Array(b) == [bytes |-> b, makes |-> NULL]

Plain == {string, instance}
PlainPlan == [k \in Plain |-> <<Object(k, IF k = string THEN 1 ELSE 3)>>]
PlainBytes == [k \in Plain |-> IF k = string THEN 1 ELSE 3]
PlainFrees == [k \in Plain |-> 1]

Composite == {string, instance, map, class}
CompositePlan == [k \in Composite |->
    CASE k = string   -> <<Object(string, 1)>>
      [] k = instance -> <<Object(instance, 3)>>
      [] k = map      -> <<Object(map, 1), Array(1)>>
      [] k = class    -> <<Object(class, 1), Object(map, 1), Array(1)>>]
CompositeBytes == [k \in Composite |->
    CASE k = instance -> 3 [] k = map -> 2 [] OTHER -> 1]
CompositeFrees == [k \in Composite |-> IF k = map THEN 2 ELSE 1]
=============================================================================

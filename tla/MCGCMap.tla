------------------------------- MODULE MCGCMap -------------------------------
(***************************************************************************)
(* GCMap with four keys.  Three collide on the last slot of the small      *)
(* table, so that probing wraps, and two of them part when it doubles.     *)
(* The values are the two that also mark free slots and tombstones.        *)
(***************************************************************************)
EXTENDS GCMap

CONSTANTS k1, k2, k3, k4

MCKeys == {k1, k2, k3, k4}
MCHash == [k \in MCKeys |-> CASE k = k1 -> 3 [] k = k2 -> 3 [] k = k3 -> 7 [] k = k4 -> 0]
MCValues == {TRUE, FALSE}
=============================================================================

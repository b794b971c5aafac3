----------------------------- MODULE MCGCArray -----------------------------
(***************************************************************************)
(* GCArray with two values; the first memory has two cells, so that it     *)
(* grows twice on the way to five values.                                  *)
(***************************************************************************)
EXTENDS GCArray

CONSTANTS a, b

MCValues == {a, b}
=============================================================================

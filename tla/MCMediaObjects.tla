--------------------------- MODULE MCMediaObjects ---------------------------
(* Small instances of MediaObjects. *)
EXTENDS MediaObjects, TLC

CONSTANTS i1, i2

AnyOrder == Permutations(Images)
=============================================================================

-------------------------- MODULE MCImageRelations --------------------------
(* Small instances of ImageRelations. *)
EXTENDS ImageRelations, TLC

CONSTANTS t1, t2, o1, i1, i2, i3, i4

AnyOrder ==
    Permutations(Txns) \cup Permutations(Objects)
        \cup Permutations(Images \ Foreign)
=============================================================================

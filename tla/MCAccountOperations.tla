------------------------- MODULE MCAccountOperations -------------------------
(* Small instances of AccountOperations. *)
EXTENDS AccountOperations, TLC

CONSTANTS p1, p2, u1, u2, a1, a2, a3, t1, t2

AnyOrder ==
    Permutations(Requests) \cup Permutations(Users)
        \cup Permutations(Addresses) \cup Permutations(Tokens)
=============================================================================

---------------------------- MODULE MCIdempotency ----------------------------
(* Small instances of Idempotency. *)
EXTENDS Idempotency, TLC

CONSTANTS q1, q2, q3, k1, k2, b1, b2

AnyOrder ==
    Permutations(Requests) \cup Permutations(Keys) \cup Permutations(Bodies)
=============================================================================

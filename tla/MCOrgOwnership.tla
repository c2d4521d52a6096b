---------------------------- MODULE MCOrgOwnership ----------------------------
(* Small instances of OrgOwnership. *)
EXTENDS OrgOwnership, TLC

CONSTANTS p1, p2, p3, u1, u2

AnyOrder == Permutations(Txns) \cup Permutations(Users)
=============================================================================

---------------------------- MODULE MCOrgRecords ----------------------------
(* Small instances of OrgRecords. *)
EXTENDS OrgRecords, TLC

CONSTANTS
    q1, q2, p1, p2, c1, c2, u1, u2, u3, g1, g2,
    a1, a2, a3, t1, t2, t3, s1, s2, v1, v2

AnyOrder ==
    Permutations(Requests) \cup Permutations(Registrars)
        \cup Permutations(Assigners)
        \cup Permutations(TagSlugs) \cup Permutations(Variants)
=============================================================================

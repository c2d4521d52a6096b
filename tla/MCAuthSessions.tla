---------------------------- MODULE MCAuthSessions ----------------------------
(* TLC instances of AuthSessions. *)
EXTENDS AuthSessions, TLC

CONSTANTS r1, r2, s1, s2, t1, t2, t3, pw1, pw2

TwoRequests == {r1, r2}
TwoSessions == {s1, s2}
TwoPairs == {t1, t2}
ThreePairs == {t1, t2, t3}
TwoPasswords == {pw1, pw2}

(* Requests, session ids and token ids are interchangeable. *)
Interchangeable ==
    Permutations(Requests) \cup Permutations(Sessions) \cup Permutations(Pairs)
=============================================================================

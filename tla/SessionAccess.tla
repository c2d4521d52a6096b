---------------------------- MODULE SessionAccess ----------------------------
(***************************************************************************)
(* What the owner of an account is promised about a device session, seen   *)
(* through the requests that its tokens authenticate.  A session is        *)
(*   none       not logged in yet: no token of it was ever handed out      *)
(*   granted    some token of it is accepted                               *)
(*   withdrawn  logged out, replayed, expired, or ended by a change of the *)
(*              account; it is never accepted again                        *)
(***************************************************************************)
CONSTANT Sessions

VARIABLE access

Init == access = [s \in Sessions |-> "none"]

Grant(s) ==
    /\ access[s] = "none"
    /\ access' = [access EXCEPT ![s] = "granted"]

(* A login that was overtaken by a change of the account. *)
Refuse(s) ==
    /\ access[s] = "none"
    /\ access' = [access EXCEPT ![s] = "withdrawn"]

(* One operation may end one session or all of them. *)
Withdraw(ss) ==
    /\ \A s \in ss : access[s] = "granted"
    /\ access' = [s \in Sessions |-> IF s \in ss THEN "withdrawn" ELSE access[s]]

Next ==
    \/ \E s \in Sessions : Grant(s) \/ Refuse(s)
    \/ \E ss \in SUBSET Sessions : Withdraw(ss)

Spec == Init /\ [][Next]_access
=============================================================================

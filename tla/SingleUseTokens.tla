--------------------------- MODULE SingleUseTokens ---------------------------
(***************************************************************************)
(* What an emailed token is: the newest one of its purpose works, once.    *)
(* A slot is a purpose of tokens: the registration of an address, or the   *)
(* password reset or the email change of a user.                           *)
(***************************************************************************)
CONSTANTS Slots, Tokens, NoToken

VARIABLES
    live,     \* the token of each slot that would be honoured
    issued, used

vars == <<live, issued, used>>

Init ==
    /\ live = [s \in Slots |-> NoToken]
    /\ issued = {} /\ used = {}

(* Whatever token the slot had stops working. *)
Issue(s, t) ==
    /\ t \in Tokens \ issued
    /\ live' = [live EXCEPT ![s] = t]
    /\ issued' = issued \cup {t}
    /\ UNCHANGED used

Use(s) ==
    /\ live[s] \in Tokens \ used
    /\ live' = [live EXCEPT ![s] = NoToken]
    /\ used' = used \cup {live[s]}
    /\ UNCHANGED issued

(* Tokens are withdrawn, of one slot or of a whole user. *)
Drop(ss) ==
    /\ live' = [s \in Slots |-> IF s \in ss THEN NoToken ELSE live[s]]
    /\ UNCHANGED <<issued, used>>

Next ==
    \/ \E s \in Slots : Use(s)
    \/ \E s \in Slots, t \in Tokens : Issue(s, t)
    \/ \E ss \in SUBSET Slots : Drop(ss)

Spec == Init /\ [][Next]_vars
=============================================================================

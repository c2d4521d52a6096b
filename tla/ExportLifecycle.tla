--------------------------- MODULE ExportLifecycle ---------------------------
(***************************************************************************)
(* What an organization administrator is promised about an export, seen    *)
(* through the polling route and the download URL it returns, without      *)
(* workers, queue, locks or storage.                                       *)
(*                                                                         *)
(* Every export is in one of these phases:                                 *)
(*   none       not requested yet                                          *)
(*   waiting    accepted, the archive is still to be produced              *)
(*   available  the archive can be downloaded                              *)
(*   broken     it is offered for download and gone all the same           *)
(*   failed     producing it failed; it may be retried                     *)
(*   gone       its retention time is over, or its organization is deleted *)
(* An export breaks only if its completion was interrupted.                *)
(***************************************************************************)
CONSTANT Jobs

VARIABLES phase, interrupted

lifecycle == <<phase, interrupted>>

Phases == {"none", "waiting", "available", "broken", "failed", "gone"}

Init ==
    /\ phase = [j \in Jobs |-> "none"]
    /\ interrupted = {}

Move(j, from, to) ==
    /\ phase[j] \in from
    /\ phase' = [phase EXCEPT ![j] = to]
    /\ UNCHANGED interrupted

Request(j) == Move(j, {"none"}, "waiting")
Complete(j) == Move(j, {"waiting"}, "available")
Fail(j) == Move(j, {"waiting"}, "failed")
Retry(j) == Move(j, {"failed"}, "waiting")
Withdraw(j) == Move(j, {"waiting", "available", "broken", "failed"}, "gone")

(* Whoever completes the export is interrupted right after it (and with a  *)
(* retention of no time at all it is over at once).                        *)
CompleteInterrupted(j) ==
    /\ phase[j] = "waiting"
    /\ \E p \in {"available", "gone"} : phase' = [phase EXCEPT ![j] = p]
    /\ interrupted' = interrupted \cup {j}

Break(j) == j \in interrupted /\ Move(j, {"available"}, "broken")

(* Time passes for every export at once, so several may leave together. *)
Expire(js) ==
    /\ \A j \in js : phase[j] \in {"available", "broken"}
    /\ phase' = [j \in Jobs |-> IF j \in js THEN "gone" ELSE phase[j]]
    /\ UNCHANGED interrupted

Next ==
    \/ \E j \in Jobs :
         \/ Request(j) \/ Complete(j) \/ CompleteInterrupted(j) \/ Break(j)
         \/ Fail(j) \/ Retry(j) \/ Withdraw(j)
    \/ \E js \in SUBSET Jobs : Expire(js)

Spec == Init /\ [][Next]_lifecycle
=============================================================================

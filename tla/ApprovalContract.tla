-------------------------- MODULE ApprovalContract --------------------------
(***************************************************************************)
(* What asking a person before a risky action promises, without turns,     *)
(* memory, disks or timers: a request is asked, closed once, and the       *)
(* action it is about is carried out only after it was accepted.           *)
(***************************************************************************)
CONSTANT Requests

VARIABLE phase   \* phase[r]: "none", "open", "accepted", "refused" or "done"

Init == phase = [r \in Requests |-> "none"]

Becomes(r, from, to) == phase[r] \in from /\ phase' = [phase EXCEPT ![r] = to]

Ask(r)    == Becomes(r, {"none"}, "open")
Accept(r) == Becomes(r, {"open"}, "accepted")
(* Declined, cancelled, expired, or lost with the host; a request may be   *)
(* lost as it is asked.                                                    *)
Refuse(r) == Becomes(r, {"none", "open"}, "refused")
Do(r)     == Becomes(r, {"accepted"}, "done")

Next == \E r \in Requests : Ask(r) \/ Accept(r) \/ Refuse(r) \/ Do(r)

Spec == Init /\ [][Next]_phase

(* Nobody is asked for ever.                                               *)
Close(r) == phase[r] = "open" /\ (Accept(r) \/ Refuse(r))
FairSpec == Spec /\ \A r \in Requests : WF_phase(Close(r))
=============================================================================

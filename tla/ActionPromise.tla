---------------------------- MODULE ActionPromise ----------------------------
(***************************************************************************)
(* What the controlled action loop promises to the operator: the target    *)
(* database is written for a proposal only while that proposal is being    *)
(* executed, after an approval and a second confirmation, and only once;   *)
(* a proposal that is reported blocked, rejected or expired was never      *)
(* written; a proposal is verified only after its write.                   *)
(***************************************************************************)
CONSTANT Proposals

VARIABLES
    phase,    \* phase[p]: the status the operator sees
    written   \* written[p]: whether the change statement was sent for p

vars == <<phase, written>>

Init ==
    /\ phase = [p \in Proposals |-> "absent"]
    /\ written = [p \in Proposals |-> FALSE]

Move(p, from, to) ==
    /\ phase[p] = from
    /\ phase' = [phase EXCEPT ![p] = to]
    /\ UNCHANGED written

Decide(p) ==
    \/ Move(p, "absent", "pending_approval")
    \/ Move(p, "pending_approval", "approved")
    \/ Move(p, "pending_approval", "rejected")
    \/ Move(p, "approved", "expired")
    \/ Move(p, "approved", "executing")

Write(p) ==
    /\ phase[p] = "executing" /\ ~written[p]
    /\ written' = [written EXCEPT ![p] = TRUE]
    /\ UNCHANGED phase

Finish(p) ==
    \/ ~written[p] /\ Move(p, "executing", "blocked")
    \/ Move(p, "executing", "failed")
    \/ written[p] /\ Move(p, "executing", "verifying")
    \/ Move(p, "verifying", "verified")
    \/ Move(p, "verifying", "failed")

Next == \E p \in Proposals : Decide(p) \/ Write(p) \/ Finish(p)

Spec == Init /\ [][Next]_vars
=============================================================================

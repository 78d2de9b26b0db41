----------------------------- MODULE RunPromise -----------------------------
(***************************************************************************)
(* What a Run promises to whoever watches it, whatever happens between the *)
(* requests, the background task and a restart: it is accepted once, runs  *)
(* at most once, and ends at most once, with one announcement of that end  *)
(* and with a reply exactly when it succeeded.                             *)
(***************************************************************************)
EXTENDS Naturals

CONSTANT Runs

VARIABLES
    phase,      \* phase[r]: what a reader of the Run sees
    announced,  \* announced[r]: the ends its event log has announced
    replied     \* replied[r]: how many replies its session has received

vars == <<phase, announced, replied>>

Ends == {"succeeded", "failed", "cancelled"}

Init ==
    /\ phase = [r \in Runs |-> "absent"]
    /\ announced = [r \in Runs |-> {}]
    /\ replied = [r \in Runs |-> 0]

Accept(r) ==
    /\ phase[r] = "absent"
    /\ phase' = [phase EXCEPT ![r] = "queued"]
    /\ UNCHANGED <<announced, replied>>

Start(r) ==
    /\ phase[r] = "queued"
    /\ phase' = [phase EXCEPT ![r] = "running"]
    /\ UNCHANGED <<announced, replied>>

\* A Run may be cancelled or fail before it starts; only one that runs succeeds.
End(r, end) ==
    /\ phase[r] \in IF end = "succeeded" THEN {"running"} ELSE {"queued", "running"}
    /\ phase' = [phase EXCEPT ![r] = end]
    /\ announced' = [announced EXCEPT ![r] = @ \cup {end}]
    /\ replied' = [replied EXCEPT ![r] = IF end = "succeeded" THEN @ + 1 ELSE @]

Next ==
    \E r \in Runs : Accept(r) \/ Start(r) \/ \E end \in Ends : End(r, end)

Spec == Init /\ [][Next]_vars
=============================================================================

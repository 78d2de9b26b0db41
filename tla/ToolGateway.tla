---------------------------- MODULE ToolGateway ----------------------------
(***************************************************************************)
(* The tool gateways of the domain agents: core/tool_gateway.py.           *)
(*                                                                         *)
(* Every agent run has one gateway with one worker thread.  The agent asks *)
(* for one call at a time and waits for it; the worker starts, runs and    *)
(* ends a tool in its own time.  When the wait is over before the tool is, *)
(* the call is closed, but a tool that has started keeps the worker, and   *)
(* the next call waits in the queue behind it.                             *)
(***************************************************************************)
EXTENDS Naturals, Sequences, FiniteSets

CONSTANT Agents     \* the domain agents that are registered

ASSUME AgentsAssumption == IsFiniteSet(Agents)

VARIABLE gateway    \* gateway[a]: the calls of the gateway of agent a, in order

\* What the thread pool knows of a call, and what invoke answered: the outcome
\* of the tool, whatever it is, or the end of the wait.
Phases == {"refused", "queued", "running", "finished", "cancelled"}
Closed == {"cancelled_before_start", "stop_state_unknown"}
Call == [phase : Phases, told : {"none", "expired", "answered"} \cup Closed]

NewCall(phase, told) == [phase |-> phase, told |-> told]

GatewayTypeOK == gateway \in [Agents -> Seq(Call)]
GatewayInit == gateway = [a \in Agents |-> <<>>]

Current(a) == gateway[a][Len(gateway[a])]
Waiting(a) == gateway[a] # <<>> /\ Current(a).told \in {"none", "expired"}
Running(a) == {i \in DOMAIN gateway[a] : gateway[a][i].phase = "running"}
Queued(a) == {i \in DOMAIN gateway[a] : gateway[a][i].phase = "queued"}

\* every call of every gateway
Calls == UNION {{a} \X DOMAIN gateway[a] : a \in Agents}

SetCall(a, i, call) == gateway' = [gateway EXCEPT ![a][i] = call]
SetCurrent(a, call) == SetCall(a, Len(gateway[a]), call)

\* invoke up to submit: an unregistered tool, bad arguments or a pool that
\* cannot start a thread are answered at once, and nothing of them runs.
Submitted == {NewCall("refused", "answered"), NewCall("queued", "none")}

Invoke(a) ==
    /\ ~Waiting(a)
    /\ \E call \in Submitted : gateway' = [gateway EXCEPT ![a] = Append(@, call)]

\* The worker takes the oldest call of the queue; a tool need not ever return.
WorkerStarts(a) ==
    /\ Running(a) = {}
    /\ \E i \in Queued(a) :
         /\ \A j \in Queued(a) : i <= j
         /\ SetCall(a, i, [gateway[a][i] EXCEPT !.phase = "running"])

WorkerEnds(a) ==
    \E i \in Running(a) : SetCall(a, i, [gateway[a][i] EXCEPT !.phase = "finished"])

\* The future is done before the wait is over.
Answer(a) ==
    /\ Waiting(a) /\ Current(a).told = "none" /\ Current(a).phase = "finished"
    /\ SetCurrent(a, [Current(a) EXCEPT !.told = "answered"])

\* Mutant: the wait is counted from the start of the tool.
WaitEndsOnceStarted(a) ==
    /\ Waiting(a) /\ Current(a).told = "none" /\ Current(a).phase = "running"
    /\ SetCurrent(a, [Current(a) EXCEPT !.told = "expired"])

\* future.result raises: the tool may still end, or start, before the cancel.
WaitEnds(a) ==
    /\ Waiting(a) /\ Current(a).told = "none" /\ Current(a).phase # "finished"
    /\ SetCurrent(a, [Current(a) EXCEPT !.told = "expired"])

\* Mutant: a call that has expired is answered as never started.
CloseAsCancelled(a) == SetCurrent(a, [Current(a) EXCEPT !.told = "cancelled_before_start"])

\* Mutant: what the tool returned since the wait is accepted.
CloseLate(a) ==
    SetCurrent(a, IF Current(a).phase = "queued"
                  THEN [Current(a) EXCEPT !.phase = "cancelled", !.told = "cancelled_before_start"]
                  ELSE IF Current(a).phase = "finished"
                  THEN [Current(a) EXCEPT !.told = "answered"]
                  ELSE [Current(a) EXCEPT !.told = "stop_state_unknown"])

\* future.cancel: true for a call still in the queue, false for any other.
Close(a) ==
    SetCurrent(a, IF Current(a).phase = "queued"
                  THEN [Current(a) EXCEPT !.phase = "cancelled", !.told = "cancelled_before_start"]
                  ELSE [Current(a) EXCEPT !.told = "stop_state_unknown"])

Expire(a) ==
    /\ Waiting(a) /\ Current(a).told = "expired"
    /\ Close(a)

GatewaySteps(a) == WorkerStarts(a) \/ WorkerEnds(a) \/ Answer(a) \/ WaitEnds(a) \/ Expire(a)

-----------------------------------------------------------------------------
(* Properties *)

\* tool_gateway.py invoke: what is reported of the tool behind a closed call is
\* only what the future proves.  A call reported as cancelled before its start
\* never runs, then or later; one whose stop is unknown had been started.
ClosedCallsAreHonest ==
    \A a \in Agents : \A i \in DOMAIN gateway[a] :
        LET call == gateway[a][i] IN
        /\ call.told = "cancelled_before_start" => call.phase = "cancelled"
        /\ call.told = "stop_state_unknown" => call.phase \in {"running", "finished"}

\* A result is accepted only while the call waits: an answer of the tool after
\* the wait has ended changes nothing that was reported.
LateAnswersAreClosed(a) ==
    \A i \in DOMAIN gateway[a] :
        gateway[a][i].told # "none" =>
            gateway'[a][i].told \in IF gateway[a][i].told = "expired"
                                    THEN Closed \cup {"expired"} ELSE {gateway[a][i].told}
=============================================================================

---------------------------- MODULE DomainAgent ----------------------------
(***************************************************************************)
(* The domain agents and their loop of model and tools: core/agent.py and  *)
(* core/react_graph.py over the gateways of ToolGateway.                   *)
(*                                                                         *)
(* A model answer may ask for several tools; they are called one after the *)
(* other through the one gateway of the run, then the model is asked       *)
(* again.  Steps and, for a health query, calls are bounded.               *)
(***************************************************************************)
EXTENDS ToolGateway, FiniteSetsExt

CONSTANTS
    MaxSteps,    \* max_steps: model answers of one agent run
    MaxTools,    \* bound of the tools that are asked for, in all
    Unlimited    \* an invocation limit no run reaches, for None

ASSUME LimitsAssumption == {MaxSteps, MaxTools, Unlimited} \subseteq Nat

VARIABLE agent    \* agent[a]: where the run of agent a is

\* A final answer, or one of the fixed texts of a run that ends without.
Outcomes == {"answer", "degraded"}
AgentPcs == {"idle", "thinking", "tools", "done", "raised"}
AgentState == [pc : AgentPcs, step : 0 .. MaxSteps, todo : 0 .. MaxTools, count : Nat,
               limit : Nat, outcome : Outcomes \cup {"none"}]

Idle == [pc |-> "idle", step |-> 0, todo |-> 0, count |-> 0, limit |-> 0, outcome |-> "none"]

AgentTypeOK == agent \in [Agents -> AgentState]
AgentInit == GatewayInit /\ agent = [a \in Agents |-> Idle]

SetAgent(a, state) == agent' = [agent EXCEPT ![a] = state]
Conclude(a, outcome) ==
    SetAgent(a, [agent[a] EXCEPT !.pc = "done", !.step = 0, !.todo = 0, !.outcome = outcome])

\* BaseAgent.run with its invocation limit; no step is left when max_steps is zero.
Started(limit) ==
    IF MaxSteps = 0 THEN [Idle EXCEPT !.pc = "done", !.outcome = "degraded", !.limit = limit]
    ELSE [Idle EXCEPT !.pc = "thinking", !.step = 1, !.limit = limit]

Asked == MapThenSumSet(LAMBDA a : agent[a].count + agent[a].todo, Agents)

\* model_node: a failed call, a final answer, an empty one, or tools to call.
Think(a) ==
    /\ agent[a].pc = "thinking"
    /\ \/ \E outcome \in Outcomes : Conclude(a, outcome)
       \/ \E n \in 1 .. MaxTools :
            /\ n + Asked <= MaxTools
            /\ SetAgent(a, [agent[a] EXCEPT !.pc = "tools", !.todo = n])
    /\ UNCHANGED gateway

\* What the model, the prompt or a memory file may raise in the middle of a run.
Raise(a) ==
    /\ agent[a].pc = "thinking"
    /\ SetAgent(a, [agent[a] EXCEPT !.pc = "raised"])
    /\ UNCHANGED gateway

\* Mutant: the limit is compared once for all the tools of an answer.
MayCallBatch(a) == agent[a].count - (MaxTools - agent[a].todo) < agent[a].limit

\* tools_node compares the number of calls before each of them.
MayCall(a) == agent[a].count < agent[a].limit

CallTool(a) ==
    /\ agent[a].pc = "tools" /\ agent[a].todo > 0
    /\ MayCall(a)
    /\ Invoke(a)
    /\ SetAgent(a, [agent[a] EXCEPT !.todo = @ - 1, !.count = @ + 1])

StopAtLimit(a) ==
    /\ agent[a].pc = "tools" /\ agent[a].todo > 0 /\ ~Waiting(a)
    /\ ~MayCall(a)
    /\ Conclude(a, "degraded")
    /\ UNCHANGED gateway

\* Mutant: the step that is not the last is not counted.
TurnEndsUncounted(a) ==
    /\ agent[a].pc = "tools" /\ agent[a].todo = 0 /\ ~Waiting(a)
    /\ IF agent[a].step > MaxSteps THEN Conclude(a, "degraded")
       ELSE SetAgent(a, [agent[a] EXCEPT !.pc = "thinking"])
    /\ UNCHANGED gateway

\* The tools of the last allowed answer are called, then the run is over.
TurnEnds(a) ==
    /\ agent[a].pc = "tools" /\ agent[a].todo = 0 /\ ~Waiting(a)
    /\ IF agent[a].step >= MaxSteps THEN Conclude(a, "degraded")
       ELSE SetAgent(a, [agent[a] EXCEPT !.pc = "thinking", !.step = @ + 1])
    /\ UNCHANGED gateway

\* The agent and the caller's side of its gateway.
AgentSteps(a) ==
    \/ Think(a) \/ Raise(a) \/ CallTool(a) \/ StopAtLimit(a) \/ TurnEnds(a)
    \/ (Answer(a) \/ WaitEnds(a) \/ Expire(a)) /\ UNCHANGED agent

\* The worker threads, which outlive the run of the agent.
WorkerSteps(a) == (WorkerStarts(a) \/ WorkerEnds(a)) /\ UNCHANGED agent

-----------------------------------------------------------------------------
(* Properties *)

\* react_graph.py tools_node: whatever the model asks for in one answer or in
\* many, a run starts no more calls than its limit, and every call that was
\* started before the run ended has been answered.
CallsStayInTheLimit ==
    \A a \in Agents :
        /\ agent[a].count = Len(gateway[a])
        /\ agent[a].count <= agent[a].limit
        /\ agent[a].pc = "done" => ~Waiting(a)
=============================================================================

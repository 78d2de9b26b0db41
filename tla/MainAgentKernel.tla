-------------------------- MODULE MainAgentKernel --------------------------
(***************************************************************************)
(* The main agent on one question: MainReactKernel of                      *)
(* core/main_agent_react.py with its budget, run by MainAgentRunExecutor.  *)
(*                                                                         *)
(* The kernel asks the model for one decision at a time and carries it     *)
(* out: it answers, asks for material, loads a skill and decides again, or *)
(* calls the one tool of a capability.  Decisions, loads and calls are     *)
(* counted, every wait is cut to what is left of the time of the Run, and  *)
(* a cancel may arrive at any moment from another thread.                  *)
(***************************************************************************)
EXTENDS Naturals, Sequences, ExecutorItems

CONSTANTS
    Knowledge,       \* capabilities with a skill
    Execution,       \* capabilities with a tool
    MaxDecisions,    \* MAX_MAIN_DECISIONS
    MaxLoads,        \* MAX_KNOWLEDGE_LOADS
    MaxToolCalls,    \* MAX_AGENT_TOOL_CALLS
    MaxObservations, \* MAX_OBSERVATION_MESSAGES_IN_PROMPT
    Deadline,        \* MAX_RUN_WALL_CLOCK_SECONDS
    ModelWait,       \* MAX_MODEL_CALL_SECONDS
    ToolWait         \* MAX_TOOL_WAIT_SECONDS

ASSUME BudgetAssumption ==
    /\ MaxDecisions \in Nat /\ MaxLoads \in Nat /\ MaxToolCalls \in Nat
    /\ MaxObservations \in Nat /\ Deadline \in Nat
    /\ ModelWait \in Nat \ {0} /\ ToolWait \in Nat \ {0}
ASSUME CapabilityAssumption ==
    Knowledge \cap Execution = {} /\ {"unknown", "none"} \cap (Knowledge \cup Execution) = {}

VARIABLES
    kernel,     \* the MainReactState, the budget and the call in progress
    material,   \* the sides of the material that the snapshot has
    now,        \* seconds since the budget was made
    cancel      \* where the kernel was when the Run was cancelled, and the calls begun by then

kernelVars == <<kernel, material, now, cancel, out>>

cancelled == cancel.at # "none"

-----------------------------------------------------------------------------
(* Values *)

Sides == {"text_a", "text_b"}
Missing == Sides \ material
Capabilities == Knowledge \cup Execution \cup {"unknown"}

\* The decisions the model's JSON is validated into.  Of the inputs of a call
\* the kernel tells apart those that do not fit the declared slots, and those
\* that name material of this Run or not.
Inputs == {"misfit", "foreign", "own"}
Decisions ==
    [kind : {"answer"}] \cup [kind : {"needs_input"}, slots : SUBSET Sides \ {{}}]
      \cup [kind : {"load_skill"}, id : Capabilities]
      \cup [kind : {"invoke_capability"}, id : Capabilities, inputs : Inputs]
NoDecision == [kind |-> "none"]

Failures == {"model_unavailable", "model_decision_invalid", "capability_unavailable",
             "tool_failed", "delivery_invalid", "budget_exhausted", "raised"}
Deliveries == {"answer", "answer_with_knowledge", "needs_input", "comparison"}
Pcs == {"start", "decide", "thinking", "dispatch", "calling", "ended", "over"}

KernelState ==
    [pc : Pcs, step : 0 .. MaxDecisions, decisions : 0 .. MaxDecisions, loads : 0 .. MaxLoads,
     calls : 0 .. MaxToolCalls, observations : Nat, loaded : Seq(Knowledge),
     degraded : SUBSET Knowledge, decision : Decisions \cup {NoDecision},
     until : Nat, clipped : BOOLEAN, failure : Failures \cup {"none"},
     delivery : Deliveries \cup {"none"}, canceled : BOOLEAN]

NewKernel ==
    [pc |-> "start", step |-> 0, decisions |-> 0, loads |-> 0, calls |-> 0, observations |-> 0,
     loaded |-> <<>>, degraded |-> {}, decision |-> NoDecision, until |-> 0, clipped |-> FALSE,
     failure |-> "none", delivery |-> "none", canceled |-> FALSE]

\* The labels of the signals of a decision and the statuses of a call of a tool
RouteLabels == {"answer", "needs_input", "load_skill", "load_skill_unavailable", "invoke_capability",
                "invoke_capability_unavailable", "budget_exhausted", "failed"}
ToolFailures == {"unavailable", "rejected", "error", "timeout"}

Done(state) == out' = <<>> /\ kernel' = state

KernelInit ==
    /\ kernel = NewKernel
    /\ material \in SUBSET Sides
    /\ now = 0
    /\ cancel = [at |-> "none", begun |-> 0]

KernelTypeOK ==
    /\ kernel \in KernelState
    /\ material \in SUBSET Sides
    /\ now \in Nat
    /\ cancel \in [at : Pcs \cup {"none"}, begun : Nat]

\* Calls of the model and of tools.
Begun == kernel.decisions + kernel.calls

\* The cancel endpoint, in a thread of its own.
Cancel ==
    /\ ~cancelled /\ kernel.pc # "over"
    /\ cancel' = [at |-> kernel.pc, begun |-> Begun]
    /\ UNCHANGED <<kernel, material, now, out>>

\* Time passes while a call is waited for, no longer than the call may take, and
\* while a skill is loaded and the next decision is prepared.  The first decision
\* is asked for right after the budget was made.
Tick ==
    /\ \/ kernel.pc \in {"thinking", "calling"} /\ now < kernel.until
       \/ kernel.pc = "decide" /\ kernel.decisions > 0 /\ now < Deadline
    /\ now' = now + 1
    /\ UNCHANGED <<kernel, material, cancel, out>>

-----------------------------------------------------------------------------
(* The budget *)

Smaller(a, b) == IF a < b THEN a ELSE b

Remaining == IF now < Deadline THEN Deadline - now ELSE 0

\* Mutant: a call may take its full time whatever is left.
WaitWhole(limit) == limit

\* What a grant allows to wait.
Wait(limit) == Smaller(limit, Remaining)

MayDecide == kernel.decisions < MaxDecisions /\ Remaining > 0

\* Mutant: loads are compared when they are recorded only.
MayLoadAny == Remaining > 0

MayLoad == kernel.loads < MaxLoads /\ Remaining > 0
MayCallTool == kernel.calls < MaxToolCalls /\ Remaining > 0

-----------------------------------------------------------------------------
(* What a node returns *)

\* A route signal and the end of the graph.
FailWith(state, failure, signal) ==
    /\ kernel' = [state EXCEPT !.pc = "ended", !.failure = failure]
    /\ out' = <<signal>>

StopCancelled(state) ==
    /\ kernel' = [state EXCEPT !.pc = "ended", !.canceled = TRUE]
    /\ out' = <<>>

Deliver(delivery, items) ==
    /\ kernel' = [kernel EXCEPT !.pc = "ended", !.delivery = delivery]
    /\ out' = items

RouteSignal(label) == Item("route_decided", label, kernel.step)
Failed(failure, label) == FailWith(kernel, failure, RouteSignal(label))

-----------------------------------------------------------------------------
(* The executor, up to the first node *)

\* The snapshot has a rule version that is gone, or a factory fails.
RefuseInput ==
    /\ kernel.pc = "start"
    /\ kernel' = [kernel EXCEPT !.pc = "over", !.failure = "raised"]
    /\ \/ out' = <<Item("raise", "MAIN_AGENT_RULE_UNAVAILABLE", 0)>>
       \/ out' = <<Item("failure", "raised", 0), Eof>>
    /\ UNCHANGED <<material, now, cancel>>

StartAgent ==
    /\ kernel.pc = "start"
    /\ kernel' = [kernel EXCEPT !.pc = "decide"]
    /\ out' = <<Item("agent_start", "", 0)>>
    /\ UNCHANGED <<material, now, cancel>>

-----------------------------------------------------------------------------
(* _decide_node *)

\* Mutant: the end of the budget is told like any other failure.
NoDecisionLeftUnlabelled ==
    FailWith([kernel EXCEPT !.decision = NoDecision], "budget_exhausted",
             Item("route_decided", "failed", Smaller(kernel.step + 1, MaxDecisions)))

\* Mutant: the step of the next attempt, whether there may be one or not.
NoDecisionLeftNext ==
    FailWith([kernel EXCEPT !.decision = NoDecision], "budget_exhausted",
             Item("route_decided", "budget_exhausted", kernel.step + 1))

\* The signal of a spent budget has the step of the next attempt, up to the last.
NoDecisionLeft ==
    FailWith([kernel EXCEPT !.decision = NoDecision], "budget_exhausted",
             Item("route_decided", "budget_exhausted", Smaller(kernel.step + 1, MaxDecisions)))

Decide ==
    /\ out = <<>> /\ kernel.pc = "decide"
    /\ \/ cancelled /\ StopCancelled(kernel)
       \/ ~cancelled /\ ~MayDecide /\ NoDecisionLeft
       \/ /\ ~cancelled /\ MayDecide
          /\ kernel' = [kernel EXCEPT !.pc = "thinking", !.step = @ + 1, !.decisions = @ + 1,
                                      !.decision = NoDecision,
                                      !.until = now + Wait(ModelWait),
                                      !.clipped = Remaining < ModelWait]
          /\ out' = <<>>
    /\ UNCHANGED <<material, now, cancel>>

\* Mutant: the answer of the model is carried out whatever happened meanwhile.
StopsAnswerNever == FALSE

\* Each call is followed by a look at the Run, which is there to be read.
StopsAnswer == cancelled

\* The model answers, fails, or its answer is not a decision.
ModelAnswers ==
    /\ out = <<>> /\ kernel.pc = "thinking"
    /\ IF StopsAnswer
       THEN StopCancelled(kernel)
       ELSE \/ IF kernel.clipped THEN Failed("budget_exhausted", "budget_exhausted")
               ELSE Failed("model_unavailable", "failed")
            \/ Failed("model_decision_invalid", "failed")
            \/ \E d \in Decisions :
                 Done([kernel EXCEPT !.pc = "dispatch", !.decision = d])
    /\ UNCHANGED <<material, now, cancel>>

-----------------------------------------------------------------------------
(* The nodes of a decision *)

Dispatched(kind) == out = <<>> /\ kernel.pc = "dispatch" /\ kernel.decision.kind = kind

\* finalize_answer: grounded in the skill that was loaded last, if any.
FinalizeAnswer ==
    /\ Dispatched("answer")
    /\ Deliver(IF kernel.loaded = <<>> THEN "answer" ELSE "answer_with_knowledge",
               <<RouteSignal("answer")>>)
    /\ UNCHANGED <<material, now, cancel>>

\* Mutant: any slots of the model are asked for.
AsksForMissingAny(slots) == slots # {}

\* The slots must be exactly those the snapshot lacks.
AsksForMissing(slots) == Missing # {} /\ slots = Missing

FinalizeNeedsInput ==
    /\ Dispatched("needs_input")
    /\ IF AsksForMissing(kernel.decision.slots)
       THEN Deliver("needs_input", <<RouteSignal("needs_input")>>)
       ELSE Failed("model_decision_invalid", "failed")
    /\ UNCHANGED <<material, now, cancel>>

\* A capability that does not resolve, or that failed to load before.
RefuseSkill ==
    /\ Dispatched("load_skill")
    /\ LET id == kernel.decision.id IN
       \/ id \notin Knowledge
       \/ MayLoad /\ kernel.observations < MaxObservations /\ id \in kernel.degraded
    /\ Failed("capability_unavailable", "load_skill_unavailable")
    /\ UNCHANGED <<material, now, cancel>>

NoLoadLeft ==
    /\ Dispatched("load_skill") /\ kernel.decision.id \in Knowledge
    /\ ~MayLoad \/ kernel.observations >= MaxObservations
    /\ Failed("budget_exhausted", "budget_exhausted")
    /\ UNCHANGED <<material, now, cancel>>

\* _degrade: an observation tells the model that the skill is not there, and it goes on.
Degrade ==
    [kernel EXCEPT !.pc = "decide", !.observations = @ + 1,
                   !.degraded = @ \cup {kernel.decision.id}]

\* The skill source has it, or not: then the kernel goes on without.
LoadSkill ==
    /\ Dispatched("load_skill") /\ kernel.decision.id \in Knowledge
    /\ MayLoad /\ kernel.observations < MaxObservations
    /\ kernel.decision.id \notin kernel.degraded
    /\ \/ /\ kernel' = [kernel EXCEPT !.pc = "decide", !.loads = @ + 1, !.observations = @ + 1,
                                      !.loaded = Append(@, kernel.decision.id)]
          /\ out' = <<RouteSignal("load_skill")>>
       \/ /\ kernel' = Degrade
          /\ out' = <<RouteSignal("load_skill_unavailable")>>
    /\ UNCHANGED <<material, now, cancel>>

\* Mutant: the identity of the material is not compared with the snapshot.
OwnMaterialAny(inputs) == TRUE

\* Every declared slot names the material of this snapshot.
OwnMaterial(inputs) == inputs = "own" /\ Missing = {}

\* A capability that does not resolve; no call or no time left; inputs that do
\* not fit; material that is not there.  The call is counted before its inputs
\* are looked at.
RefuseCapability ==
    /\ Dispatched("invoke_capability")
    /\ LET d == kernel.decision
           counted == [kernel EXCEPT !.calls = @ + 1]
       IN \/ /\ d.id \notin Execution
             /\ Failed("capability_unavailable", "invoke_capability_unavailable")
          \/ /\ d.id \in Execution /\ ~MayCallTool
             /\ Failed("budget_exhausted", "budget_exhausted")
          \/ /\ d.id \in Execution /\ MayCallTool /\ d.inputs = "misfit"
             /\ FailWith(counted, "model_decision_invalid", RouteSignal("failed"))
          \/ /\ d.id \in Execution /\ MayCallTool /\ d.inputs # "misfit" /\ ~OwnMaterial(d.inputs)
             /\ FailWith(counted, "capability_unavailable", RouteSignal("invoke_capability_unavailable"))
    /\ UNCHANGED <<material, now, cancel>>

CallCapability ==
    /\ Dispatched("invoke_capability") /\ kernel.decision.id \in Execution
    /\ MayCallTool /\ kernel.decision.inputs # "misfit" /\ OwnMaterial(kernel.decision.inputs)
    /\ kernel' = [kernel EXCEPT !.pc = "calling", !.calls = @ + 1,
                                !.until = now + Wait(ToolWait), !.clipped = Remaining < ToolWait]
    /\ UNCHANGED <<material, now, cancel, out>>

ToolItem(status) == Item("tool_invoked", status, kernel.step)

\* The gateway has answered: a result, one that is not the comparison that was
\* asked for, a tool that is not available, rejected or failed, or the end of the wait.
ToolAnswers ==
    /\ out = <<>> /\ kernel.pc = "calling"
    /\ \/ StopsAnswer /\ StopCancelled(kernel)
       \/ /\ ~StopsAnswer
          /\ Deliver("comparison", <<RouteSignal("invoke_capability"), ToolItem("ok")>>)
       \/ /\ ~StopsAnswer
          /\ kernel' = [kernel EXCEPT !.pc = "ended", !.failure = "delivery_invalid"]
          /\ out' = <<RouteSignal("invoke_capability_unavailable"), ToolItem("ok")>>
       \/ /\ ~StopsAnswer
          /\ \E status \in ToolFailures :
               LET spent == kernel.clipped /\ status = "timeout"
                   label == IF spent THEN "budget_exhausted" ELSE "invoke_capability_unavailable"
               IN /\ kernel' = [kernel EXCEPT !.pc = "ended",
                                    !.failure = IF spent THEN "budget_exhausted" ELSE "tool_failed"]
                  /\ out' = <<RouteSignal(label), ToolItem(status)>>
    /\ UNCHANGED <<material, now, cancel>>

-----------------------------------------------------------------------------
(* The executor, from the outcome on *)

\* A node raises: no outcome, one failure.
KernelRaises ==
    /\ out = <<>> /\ kernel.pc = "dispatch"
    /\ kernel' = [kernel EXCEPT !.pc = "over", !.failure = "raised"]
    /\ out' = <<Item("failure", "raised", 0), Eof>>
    /\ UNCHANGED <<material, now, cancel>>

\* _agent_outcome, the label of agent_done.
OutcomeLabel ==
    IF kernel.failure = "budget_exhausted" THEN "budget_exhausted"
    ELSE IF kernel.failure # "none" THEN "failed" ELSE kernel.delivery

\* A cancelled Run has had its end: the stream just stops.
ReportOutcome ==
    /\ out = <<>> /\ kernel.pc = "ended"
    /\ kernel' = [kernel EXCEPT !.pc = "over"]
    /\ out' = IF kernel.canceled THEN <<Eof>>
              ELSE <<Item("agent_done", OutcomeLabel, kernel.step),
                     IF kernel.delivery # "none" THEN Item("delivery", kernel.delivery, 0)
                     ELSE Item("failure", kernel.failure, 0), Eof>>
    /\ UNCHANGED <<material, now, cancel>>

KernelStep ==
    \/ Decide \/ ModelAnswers \/ FinalizeAnswer \/ FinalizeNeedsInput
    \/ RefuseSkill \/ NoLoadLeft \/ LoadSkill \/ RefuseCapability \/ CallCapability \/ ToolAnswers
    \/ KernelRaises \/ ReportOutcome
KernelNode == RefuseInput \/ StartAgent \/ KernelStep

\* The reader of the executor takes what was yielded.
Read ==
    /\ out # <<>>
    /\ out' = <<>>
    /\ UNCHANGED <<kernel, material, now, cancel>>

KernelNext == KernelNode \/ Cancel \/ Tick \/ Read
KernelSpec == KernelInit /\ out = <<>> /\ [][KernelNext]_kernelVars

-----------------------------------------------------------------------------
(* Properties *)

\* main_agent_budget.py: no call of the model or of a tool is given more time
\* than the Run has left, so the kernel never waits past the deadline.
WaitsFitTheDeadline ==
    kernel.pc \in {"thinking", "calling"} => now <= Deadline /\ kernel.until <= Deadline

\* main_agent_react.py: after a cancel at most the call that is under way comes
\* back, one more is begun at most, and nothing the calls return is delivered.
CancelStopsTheKernel ==
    cancelled =>
        /\ Begun <= cancel.begun + 1
        /\ cancel.at \in {"start", "decide", "thinking", "calling"} =>
             /\ Begun = cancel.begun
             /\ kernel.delivery = "none"

\* decisions, registry and result parser together: whatever the model decides,
\* material is asked for only where it lacks, a comparison needs all of it, and
\* knowledge is claimed only when some was loaded.
DeliveriesPassValidation ==
    /\ kernel.delivery = "needs_input" => kernel.decision.slots = Missing
    /\ kernel.delivery = "comparison" => Missing = {} /\ kernel.calls > 0
    /\ kernel.delivery = "answer_with_knowledge" => kernel.loads > 0
=============================================================================

------------------------- MODULE RunExecutionProofs -------------------------
(***************************************************************************)
(* What one executing Run promises, for any number of agents, steps,       *)
(* tools, decisions and revisions, and any budget; and what is shown of a  *)
(* Run of the main agent, by RunView over the same kernel.                 *)
(***************************************************************************)
EXTENDS RunExecution, RunView, FiniteSetTheorems, SequenceTheorems, TLAPS

-----------------------------------------------------------------------------
(* The gateways: calls and what is told of them *)

\* A call that has been told nothing final is with the worker or in its queue.
CallFits(call) ==
    /\ call \in Call
    /\ call.told \in {"none", "expired"} => call.phase \in {"queued", "running", "finished"}
    /\ call.told = "cancelled_before_start" => call.phase = "cancelled"
    /\ call.told = "stop_state_unknown" => call.phase \in {"running", "finished"}

GatewayInv ==
    /\ GatewayTypeOK
    /\ \A a \in Agents : \A i \in DOMAIN gateway[a] : CallFits(gateway[a][i])

\* A step of a gateway changes one call to one that fits.
LEMMA SetCallFits ==
    ASSUME GatewayInv, NEW a \in Agents, NEW i \in DOMAIN gateway[a], NEW call,
           CallFits(call), SetCall(a, i, call)
    PROVE  /\ GatewayInv'
           /\ \A b \in Agents : Len(gateway'[b]) = Len(gateway[b])
           /\ gateway'[a][i] = call
           /\ \A b \in Agents : \A j \in DOMAIN gateway[b] :
                b # a \/ j # i => gateway'[b][j] = gateway[b][j]
<1>1. gateway[a] \in Seq(Call) /\ call \in Call
  BY DEF GatewayInv, GatewayTypeOK, CallFits
<1> DEFINE new == [gateway[a] EXCEPT ![i] = call]
<1>2. new \in Seq(Call) /\ Len(new) = Len(gateway[a]) /\ DOMAIN new = DOMAIN gateway[a]
  BY <1>1
<1>3. gateway' = [gateway EXCEPT ![a] = new]
  BY DEF SetCall
<1>4. gateway' \in [Agents -> Seq(Call)]
  BY <1>2, <1>3 DEF GatewayInv, GatewayTypeOK
<1>5. \A b \in Agents : gateway'[b] = IF b = a THEN new ELSE gateway[b]
  BY <1>3 DEF GatewayInv, GatewayTypeOK
<1>6. \A j \in DOMAIN new : new[j] = IF j = i THEN call ELSE gateway[a][j]
  BY <1>1
<1>7. ASSUME NEW b \in Agents, NEW j \in DOMAIN gateway'[b]
      PROVE  CallFits(gateway'[b][j])
  BY <1>2, <1>5, <1>6, <1>7 DEF GatewayInv
<1> QED
  BY <1>2, <1>4, <1>5, <1>6, <1>7 DEF GatewayInv, GatewayTypeOK

LEMMA CurrentCall ==
    ASSUME GatewayInv, NEW a \in Agents, Waiting(a)
    PROVE  Len(gateway[a]) \in DOMAIN gateway[a] /\ CallFits(Current(a)) /\ Current(a) \in Call
<1>1. gateway[a] \in Seq(Call) /\ gateway[a] # <<>>
  BY DEF GatewayInv, GatewayTypeOK, Waiting
<1>2. Len(gateway[a]) \in DOMAIN gateway[a]
  BY <1>1
<1> QED
  BY <1>2 DEF GatewayInv, Current, CallFits

\* Every step of a gateway keeps its calls in order, and closes none that was told something.
LEMMA GatewayStepFits ==
    ASSUME GatewayInv, NEW a \in Agents, GatewaySteps(a)
    PROVE  /\ GatewayInv'
           /\ \A b \in Agents : Len(gateway'[b]) = Len(gateway[b])
           /\ \A b \in Agents : ~ Waiting(b) => ~ Waiting(b)'
           /\ \A b \in Agents : LateAnswersAreClosed(b)
<1>1. \A b \in Agents : gateway[b] \in Seq(Call)
  BY DEF GatewayInv, GatewayTypeOK
<1>2. ASSUME NEW i \in DOMAIN gateway[a], NEW call, CallFits(call), SetCall(a, i, call),
             gateway[a][i].told \in {"none", "expired"} \/ call.told = gateway[a][i].told,
             gateway[a][i].told = "expired" => call.told \in Closed \cup {"expired"}
      PROVE  /\ GatewayInv'
             /\ \A b \in Agents : Len(gateway'[b]) = Len(gateway[b])
             /\ \A b \in Agents : ~ Waiting(b) => ~ Waiting(b)'
             /\ \A b \in Agents : LateAnswersAreClosed(b)
  <2>1. /\ GatewayInv'
        /\ \A b \in Agents : Len(gateway'[b]) = Len(gateway[b])
        /\ gateway'[a][i] = call
        /\ \A b \in Agents : \A j \in DOMAIN gateway[b] :
             b # a \/ j # i => gateway'[b][j] = gateway[b][j]
    BY <1>2, SetCallFits
  <2>2. ASSUME NEW b \in Agents, ~ Waiting(b)
        PROVE  ~ Waiting(b)'
    <3>1. gateway[b] \in Seq(Call) /\ gateway'[b] \in Seq(Call)
      BY <1>1, <2>1 DEF GatewayInv, GatewayTypeOK
    <3>2. CASE gateway[b] = <<>>
      BY <2>1, <3>1, <3>2 DEF Waiting
    <3>3. CASE gateway[b] # <<>>
      <4>1. Len(gateway[b]) \in DOMAIN gateway[b] /\ Len(gateway'[b]) = Len(gateway[b])
        BY <2>1, <3>1, <3>3
      <4>2. gateway[b][Len(gateway[b])].told \notin {"none", "expired"}
        BY <2>2, <3>3 DEF Waiting, Current
      <4>3. gateway'[b][Len(gateway[b])].told = gateway[b][Len(gateway[b])].told
        BY <1>2, <2>1, <4>1, <4>2
      <4> QED
        BY <4>1, <4>2, <4>3 DEF Waiting, Current
    <3> QED
      BY <3>2, <3>3
  <2>3. ASSUME NEW b \in Agents
        PROVE  LateAnswersAreClosed(b)
    BY <1>2, <2>1 DEF LateAnswersAreClosed
  <2> QED
    BY <2>1, <2>2, <2>3
<1>3. CASE WorkerStarts(a)
  <2>1. PICK i \in Queued(a) : SetCall(a, i, [gateway[a][i] EXCEPT !.phase = "running"])
    BY <1>3 DEF WorkerStarts
  <2> DEFINE call == [gateway[a][i] EXCEPT !.phase = "running"]
  <2>2. i \in DOMAIN gateway[a] /\ gateway[a][i].phase = "queued" /\ CallFits(gateway[a][i])
    BY <2>1 DEF Queued, GatewayInv
  <2>3. CallFits(call) /\ call.told = gateway[a][i].told
    BY <2>2 DEF CallFits, Call, Phases, Closed
  <2> QED
    BY <1>2, <2>1, <2>2, <2>3
<1>4. CASE WorkerEnds(a)
  <2>1. PICK i \in Running(a) : SetCall(a, i, [gateway[a][i] EXCEPT !.phase = "finished"])
    BY <1>4 DEF WorkerEnds
  <2> DEFINE call == [gateway[a][i] EXCEPT !.phase = "finished"]
  <2>2. i \in DOMAIN gateway[a] /\ gateway[a][i].phase = "running" /\ CallFits(gateway[a][i])
    BY <2>1 DEF Running, GatewayInv
  <2>3. CallFits(call) /\ call.told = gateway[a][i].told
    BY <2>2 DEF CallFits, Call, Phases, Closed
  <2> QED
    BY <1>2, <2>1, <2>2, <2>3
<1>5. CASE Answer(a)
  <2> DEFINE call == [Current(a) EXCEPT !.told = "answered"]
  <2>1. Waiting(a) /\ Current(a).told = "none" /\ SetCall(a, Len(gateway[a]), call)
    BY <1>5 DEF Answer, SetCurrent
  <2>2. CallFits(call)
    BY <2>1, CurrentCall DEF CallFits, Call, Phases, Closed
  <2> QED
    BY <1>2, <2>1, <2>2, CurrentCall DEF Current
<1>6. CASE WaitEnds(a)
  <2> DEFINE call == [Current(a) EXCEPT !.told = "expired"]
  <2>1. Waiting(a) /\ Current(a).told = "none" /\ SetCall(a, Len(gateway[a]), call)
    BY <1>6 DEF WaitEnds, SetCurrent
  <2>2. CallFits(call)
    BY <2>1, CurrentCall DEF CallFits, Call, Phases, Closed
  <2> QED
    BY <1>2, <2>1, <2>2, CurrentCall DEF Current
<1>7. CASE Expire(a)
  <2>1. Waiting(a) /\ Current(a).told = "expired" /\ Close(a)
    BY <1>7 DEF Expire
  <2>2. PICK call : /\ CallFits(call) /\ call.told \in Closed
                    /\ SetCall(a, Len(gateway[a]), call)
    <3>1. CASE Current(a).phase = "queued"
      BY <2>1, <3>1, CurrentCall DEF Close, SetCurrent, CallFits, Call, Phases, Closed
    <3>2. CASE Current(a).phase # "queued"
      BY <2>1, <3>2, CurrentCall DEF Close, SetCurrent, CallFits, Call, Phases, Closed
    <3> QED
      BY <3>1, <3>2
  <2> QED
    BY <1>2, <2>1, <2>2, CurrentCall DEF Current
<1> QED
  BY <1>3, <1>4, <1>5, <1>6, <1>7 DEF GatewaySteps

\* A new call goes behind those there are.
LEMMA InvokeFits ==
    ASSUME GatewayInv, NEW a \in Agents, Invoke(a)
    PROVE  /\ GatewayInv'
           /\ Len(gateway'[a]) = Len(gateway[a]) + 1
           /\ \A b \in Agents \ {a} : gateway'[b] = gateway[b]
           /\ \A b \in Agents : LateAnswersAreClosed(b)
<1>1. PICK call \in Submitted : gateway' = [gateway EXCEPT ![a] = Append(@, call)]
  BY DEF Invoke
<1>2. CallFits(call) /\ call \in Call
  BY DEF Submitted, NewCall, CallFits, Call, Phases, Closed
<1>3. gateway[a] \in Seq(Call)
  BY DEF GatewayInv, GatewayTypeOK
<1> DEFINE new == Append(gateway[a], call)
<1>4. /\ new \in Seq(Call) /\ Len(new) = Len(gateway[a]) + 1
      /\ \A j \in DOMAIN gateway[a] : j \in DOMAIN new /\ new[j] = gateway[a][j]
      /\ \A j \in DOMAIN new : j \in DOMAIN gateway[a] \/ new[j] = call
  BY <1>2, <1>3
<1>5. /\ gateway' \in [Agents -> Seq(Call)] /\ gateway'[a] = new
      /\ \A b \in Agents \ {a} : gateway'[b] = gateway[b]
  BY <1>1, <1>4 DEF GatewayInv, GatewayTypeOK
<1>6. ASSUME NEW b \in Agents, NEW j \in DOMAIN gateway'[b]
      PROVE  CallFits(gateway'[b][j])
  BY <1>2, <1>4, <1>5, <1>6 DEF GatewayInv
<1>7. \A b \in Agents : LateAnswersAreClosed(b)
  BY <1>4, <1>5 DEF LateAnswersAreClosed
<1> QED
  BY <1>4, <1>5, <1>6, <1>7 DEF GatewayInv, GatewayTypeOK

-----------------------------------------------------------------------------
(* The agents: where each is, and the calls it has made *)

\* A run that is not at its tools waits for none of them, one that has not begun has made no
\* call, and one that has is within its limit.
AgentFits(a) ==
    /\ agent[a].count = Len(gateway[a])
    /\ agent[a].count <= agent[a].limit
    /\ agent[a].pc # "tools" => ~ Waiting(a)

AgentInv ==
    /\ AgentTypeOK
    /\ GatewayInv
    /\ \A a \in Agents : AgentFits(a)
    /\ \A a \in Agents : agent[a].pc = "idle" => agent[a] = Idle

LEMMA Limited == MaxSteps \in Nat /\ MaxTools \in Nat /\ Unlimited \in Nat
  BY LimitsAssumption

LEMMA Zeros == 0 \in 0 .. MaxSteps /\ 0 \in 0 .. MaxTools /\ 0 \in Nat
  BY Limited

LEMMA AgentInvPromises == AgentInv => GatewayTypeOK /\ CallsStayInTheLimit /\ ClosedCallsAreHonest
  BY DEF AgentInv, GatewayInv, AgentFits, CallFits, CallsStayInTheLimit, ClosedCallsAreHonest

LEMMA AgentStateOf ==
    ASSUME AgentInv, NEW a \in Agents
    PROVE  agent[a] \in AgentState /\ gateway[a] \in Seq(Call)
  BY DEF AgentInv, AgentTypeOK, GatewayInv, GatewayTypeOK

\* An agent moves on by itself, and its calls stay as they are.
LEMMA SetAgentFits ==
    ASSUME AgentInv, NEW a \in Agents, NEW state \in AgentState, SetAgent(a, state),
           UNCHANGED gateway,
           state.count = agent[a].count, state.count <= state.limit, state.pc # "idle",
           state.pc = "tools" \/ ~ Waiting(a)
    PROVE  AgentInv'
<1>1. AgentTypeOK' /\ GatewayInv'
  BY DEF AgentInv, AgentTypeOK, SetAgent, GatewayInv, GatewayTypeOK
<1>2. \A b \in Agents : agent'[b] = IF b = a THEN state ELSE agent[b]
  BY DEF AgentInv, AgentTypeOK, SetAgent
<1>3. \A b \in Agents : Waiting(b)' = Waiting(b)
  BY DEF Waiting, Current
<1>4. \A b \in Agents : AgentFits(b)'
  BY <1>2, <1>3 DEF AgentInv, AgentFits
<1> QED
  BY <1>1, <1>2, <1>4 DEF AgentInv

LEMMA ConcludeFits ==
    ASSUME AgentInv, NEW a \in Agents, NEW outcome \in Outcomes, Conclude(a, outcome),
           ~ Waiting(a), UNCHANGED gateway
    PROVE  AgentInv'
<1> DEFINE state == [agent[a] EXCEPT !.pc = "done", !.step = 0, !.todo = 0, !.outcome = outcome]
<1>1. agent[a] \in AgentState /\ agent[a].count <= agent[a].limit
  BY AgentStateOf DEF AgentInv, AgentFits
<1>2. state \in AgentState /\ state.count = agent[a].count /\ state.limit = agent[a].limit
      /\ state.pc = "done"
  BY <1>1, Zeros DEF AgentState, AgentPcs
<1> QED
  BY <1>1, <1>2, SetAgentFits DEF Conclude

\* The gateway of an agent that waits goes on.
LEMMA GatewayAloneFits ==
    ASSUME AgentInv, NEW a \in Agents, GatewaySteps(a), UNCHANGED agent
    PROVE  AgentInv'
<1>1. /\ GatewayInv'
      /\ \A b \in Agents : Len(gateway'[b]) = Len(gateway[b])
      /\ \A b \in Agents : ~ Waiting(b) => ~ Waiting(b)'
  BY GatewayStepFits DEF AgentInv
<1> QED
  BY <1>1 DEF AgentInv, AgentTypeOK, AgentFits

LEMMA AgentStepFits ==
    ASSUME AgentInv, NEW a \in Agents, AgentSteps(a) \/ WorkerSteps(a)
    PROVE  /\ AgentInv'
           /\ \A b \in Agents : LateAnswersAreClosed(b)
           /\ \A b \in Agents : gateway'[b] # gateway[b] => Len(gateway'[b]) >= Len(gateway[b])
<1>1. agent[a] \in AgentState /\ gateway[a] \in Seq(Call) /\ AgentFits(a)
  BY AgentStateOf DEF AgentInv
<1>2. ASSUME UNCHANGED gateway
      PROVE  \A b \in Agents : LateAnswersAreClosed(b)
  BY <1>2 DEF LateAnswersAreClosed, AgentInv, GatewayInv
<1>3. CASE Think(a)
  <2>1. CASE \E outcome \in Outcomes : Conclude(a, outcome)
    BY <1>1, <1>2, <1>3, <2>1, ConcludeFits DEF Think, AgentFits
  <2>2. ASSUME NEW n \in 1 .. MaxTools,
               SetAgent(a, [agent[a] EXCEPT !.pc = "tools", !.todo = n])
        PROVE  AgentInv'
    <3> DEFINE state == [agent[a] EXCEPT !.pc = "tools", !.todo = n]
    <3>1. n \in 0 .. MaxTools
      BY Limited
    <3>2. state \in AgentState /\ state.count = agent[a].count /\ state.limit = agent[a].limit
          /\ state.pc = "tools"
      BY <1>1, <3>1 DEF AgentState, AgentPcs
    <3> QED
      BY <1>1, <1>3, <2>2, <3>2, SetAgentFits DEF Think, AgentFits
  <2> QED
    BY <1>2, <1>3, <2>1, <2>2 DEF Think
<1>4. CASE Raise(a)
  <2> DEFINE state == [agent[a] EXCEPT !.pc = "raised"]
  <2>1. state \in AgentState /\ state.count = agent[a].count /\ state.limit = agent[a].limit
        /\ state.pc = "raised"
    BY <1>1 DEF AgentState, AgentPcs
  <2> QED
    BY <1>1, <1>2, <1>4, <2>1, SetAgentFits DEF Raise, AgentFits
<1>5. CASE CallTool(a)
  <2> DEFINE state == [agent[a] EXCEPT !.todo = @ - 1, !.count = @ + 1]
  <2>1. /\ agent[a].pc = "tools" /\ agent[a].todo > 0 /\ agent[a].count < agent[a].limit
        /\ Invoke(a) /\ SetAgent(a, state)
    BY <1>5 DEF CallTool, MayCall
  <2>2. state \in AgentState /\ state.count = agent[a].count + 1 /\ state.limit = agent[a].limit
        /\ state.pc = "tools"
    <3>1. agent[a].todo - 1 \in 0 .. MaxTools /\ agent[a].count + 1 \in Nat
      BY <1>1, <2>1, Limited DEF AgentState
    <3> QED
      BY <1>1, <2>1, <3>1 DEF AgentState
  <2> HIDE DEF state
  <2>3. /\ GatewayInv' /\ Len(gateway'[a]) = Len(gateway[a]) + 1
        /\ \A b \in Agents \ {a} : gateway'[b] = gateway[b]
        /\ \A b \in Agents : LateAnswersAreClosed(b)
    BY <2>1, InvokeFits DEF AgentInv
  <2>4. \A b \in Agents : agent'[b] = IF b = a THEN state ELSE agent[b]
    BY <2>1 DEF SetAgent, AgentInv, AgentTypeOK
  <2>5. AgentTypeOK'
    BY <2>1, <2>2 DEF SetAgent, AgentInv, AgentTypeOK
  <2>6. AgentFits(a)'
    BY <1>1, <2>1, <2>2, <2>3, <2>4 DEF AgentFits, AgentState
  <2>7. ASSUME NEW b \in Agents \ {a}
        PROVE  AgentFits(b)'
    BY <2>3, <2>4 DEF AgentInv, AgentFits, Waiting, Current
  <2>8. AgentInv'
    BY <2>2, <2>3, <2>4, <2>5, <2>6, <2>7 DEF AgentInv
  <2> QED
    BY <1>1, <2>3, <2>8
<1>6. CASE StopAtLimit(a)
  BY <1>2, <1>6, ConcludeFits DEF StopAtLimit, Outcomes
<1>7. CASE TurnEnds(a)
  <2> DEFINE state == [agent[a] EXCEPT !.pc = "thinking", !.step = @ + 1]
  <2>1. ~ Waiting(a) /\ UNCHANGED gateway
    BY <1>7 DEF TurnEnds
  <2>2. CASE agent[a].step >= MaxSteps
    BY <1>2, <1>7, <2>1, <2>2, ConcludeFits DEF TurnEnds, Outcomes
  <2>3. CASE ~ agent[a].step >= MaxSteps
    <3>1. state \in AgentState /\ state.count = agent[a].count /\ state.limit = agent[a].limit
          /\ state.pc = "thinking"
      <4>1. agent[a].step + 1 \in 0 .. MaxSteps
        BY <1>1, <2>3, Limited DEF AgentState
      <4> QED
        BY <1>1, <4>1 DEF AgentState, AgentPcs
    <3>2. SetAgent(a, state)
      BY <1>7, <2>3 DEF TurnEnds
    <3> QED
      BY <1>1, <1>2, <2>1, <3>1, <3>2, SetAgentFits DEF AgentFits
  <2> QED
    BY <2>2, <2>3
<1>8. CASE GatewaySteps(a) /\ UNCHANGED agent
  BY <1>8, GatewayAloneFits, GatewayStepFits, AgentStateOf DEF AgentInv
<1> QED
  BY <1>3, <1>4, <1>5, <1>6, <1>7, <1>8 DEF AgentSteps, WorkerSteps, GatewaySteps

LEMMA StartFits ==
    ASSUME AgentInv, NEW a \in Agents, Start(a)
    PROVE  AgentInv'
<1>1. agent[a] = Idle /\ UNCHANGED gateway /\ AgentFits(a)
  BY DEF Start, AgentInv
<1>2. PICK limit \in Nat : SetAgent(a, Started(limit))
  BY Limited DEF Start, Limits
<1>3. /\ Started(limit) \in AgentState /\ Started(limit).count = 0
      /\ Started(limit).limit = limit /\ Started(limit).pc \in {"thinking", "done"}
  <2>1. Idle \in AgentState /\ (MaxSteps # 0 => 1 \in 0 .. MaxSteps)
    BY Zeros, Limited DEF Idle, AgentState, AgentPcs
  <2> QED
    BY <2>1 DEF Started, Idle, AgentState, AgentPcs, Outcomes
<1> QED
  BY <1>1, <1>2, <1>3, SetAgentFits DEF AgentFits, Idle

-----------------------------------------------------------------------------
(* Items *)

ItemTypes == StepTypes \cup {"agent_start", "none"} \cup Ends \cup Broken

LEMMA ItemsAreItems ==
    ASSUME NEW type \in ItemTypes, NEW label \in Labels, NEW step \in Nat
    PROVE  Item(type, label, step) \in Items /\ Item(type, label, step) \in Items
  BY DEF Item, Items, ItemTypes

LEMMA ItemsInSequence ==
    ASSUME NEW T
    PROVE  /\ <<>> \in Seq(T)
           /\ \A i \in T : <<i>> \in Seq(T)
           /\ \A i, j \in T : <<i, j>> \in Seq(T)
           /\ \A i, j, k \in T : <<i, j, k>> \in Seq(T)
  OBVIOUS

-----------------------------------------------------------------------------
(* The kernel: its counts, its waits and what a cancel leaves to it *)

LEMMA Budget ==
    /\ MaxDecisions \in Nat /\ MaxLoads \in Nat /\ MaxToolCalls \in Nat /\ MaxObservations \in Nat
    /\ Deadline \in Nat /\ ModelWait \in Nat /\ ToolWait \in Nat
    /\ 0 \in 0 .. MaxDecisions /\ 0 \in 0 .. MaxLoads /\ 0 \in 0 .. MaxToolCalls
  BY BudgetAssumption

\* Where a cancel may leave the kernel: it came before a decision or while a call was waited
\* for, and nothing more is begun; while a decision is carried out, and one call more may be;
\* or after the outcome.
CancelFits ==
    /\ cancel.at \in {"start", "decide", "thinking", "calling"} =>
         Begun = cancel.begun /\ kernel.delivery = "none" /\ kernel.pc # "dispatch"
    /\ cancel.at = "dispatch" =>
         /\ Begun \in {cancel.begun, cancel.begun + 1} /\ kernel.pc # "thinking"
         /\ kernel.pc = "dispatch" => Begun = cancel.begun
    /\ cancel.at \in {"ended", "over"} =>
         Begun = cancel.begun /\ kernel.pc \in {"ended", "over"}

KernelInv ==
    /\ KernelTypeOK
    /\ now <= Deadline
    /\ kernel.pc \in {"thinking", "calling"} => now <= kernel.until /\ kernel.until <= Deadline
    /\ kernel.step = kernel.decisions
    /\ kernel.pc \notin {"ended", "over"} => kernel.delivery = "none"
    /\ kernel.loaded # <<>> => kernel.loads > 0
    /\ kernel.pc = "calling" => Missing = {} /\ kernel.calls > 0
    /\ CancelFits
    /\ DeliveriesPassValidation

LEMMA KernelStateOf ==
    ASSUME KernelInv
    PROVE  /\ kernel \in KernelState
           /\ kernel.step \in Nat /\ kernel.decisions \in Nat /\ kernel.calls \in Nat
           /\ kernel.loads \in Nat /\ now \in Nat /\ kernel.until \in Nat
           /\ cancel \in [at : Pcs \cup {"none"}, begun : Nat]
           /\ Begun \in Nat /\ cancel.begun \in Nat
  BY Budget DEF KernelInv, KernelTypeOK, KernelState, Begun

LEMMA KernelInvPromises ==
    KernelInv => WaitsFitTheDeadline /\ CancelStopsTheKernel /\ DeliveriesPassValidation
<1> SUFFICES ASSUME KernelInv
             PROVE  WaitsFitTheDeadline /\ CancelStopsTheKernel /\ DeliveriesPassValidation
  OBVIOUS
<1>1. WaitsFitTheDeadline /\ DeliveriesPassValidation
  BY DEF KernelInv, WaitsFitTheDeadline, DeliveriesPassValidation
<1>2. Begun \in Nat /\ cancel.begun \in Nat /\ cancel.at \in Pcs \cup {"none"}
  BY KernelStateOf
<1>3. CancelStopsTheKernel
  BY <1>2 DEF KernelInv, CancelFits, CancelStopsTheKernel, cancelled, Pcs
<1> QED
  BY <1>1, <1>3

\* The run of the kernel is over, with what it had.
LEMMA KernelEnds ==
    ASSUME KernelInv, kernel' \in KernelState, kernel'.pc \in {"ended", "over"},
           kernel'.step = kernel.step, kernel'.decisions = kernel.decisions,
           kernel'.calls = kernel.calls, kernel'.loads = kernel.loads,
           kernel'.loaded = kernel.loaded, kernel'.delivery = kernel.delivery,
           kernel.delivery # "none" => kernel'.decision = kernel.decision,
           UNCHANGED <<material, now, cancel>>
    PROVE  KernelInv'
<1>1. Begun' = Begun /\ Missing' = Missing
  BY DEF Begun, Missing
<1>2. CancelFits'
  BY <1>1 DEF CancelFits, KernelInv
<1>3. DeliveriesPassValidation'
  BY <1>1 DEF DeliveriesPassValidation, KernelInv
<1> QED
  BY <1>1, <1>2, <1>3 DEF KernelInv, KernelTypeOK

LEMMA FailsFit ==
    ASSUME KernelInv, NEW failure \in Failures, NEW signal \in Items,
           FailWith(kernel, failure, signal), UNCHANGED <<material, now, cancel>>
    PROVE  KernelInv' /\ out' \in Seq(Items)
<1>1. /\ kernel' = [kernel EXCEPT !.pc = "ended", !.failure = failure]
      /\ out' = <<signal>>
  BY DEF FailWith
<1>2. /\ kernel' \in KernelState /\ kernel'.pc = "ended"
      /\ kernel'.step = kernel.step /\ kernel'.decisions = kernel.decisions
      /\ kernel'.calls = kernel.calls /\ kernel'.loads = kernel.loads
      /\ kernel'.loaded = kernel.loaded /\ kernel'.delivery = kernel.delivery
      /\ kernel'.decision = kernel.decision
  BY <1>1, KernelStateOf DEF KernelState, Pcs
<1> QED
  BY <1>1, <1>2, KernelEnds, ItemsInSequence

LEMMA StopsFit ==
    ASSUME KernelInv, StopCancelled(kernel), UNCHANGED <<material, now, cancel>>
    PROVE  KernelInv' /\ out' \in Seq(Items)
<1>1. /\ kernel' = [kernel EXCEPT !.pc = "ended", !.canceled = TRUE]
      /\ out' = <<>>
  BY DEF StopCancelled
<1>2. /\ kernel' \in KernelState /\ kernel'.pc = "ended"
      /\ kernel'.step = kernel.step /\ kernel'.decisions = kernel.decisions
      /\ kernel'.calls = kernel.calls /\ kernel'.loads = kernel.loads
      /\ kernel'.loaded = kernel.loaded /\ kernel'.delivery = kernel.delivery
      /\ kernel'.decision = kernel.decision
  BY <1>1, KernelStateOf DEF KernelState, Pcs
<1> QED
  BY <1>1, <1>2, KernelEnds, ItemsInSequence

\* What passes validation is delivered, and not after a cancel that stops the kernel.
LEMMA DeliversFit ==
    ASSUME KernelInv, NEW delivery \in Deliveries, NEW items \in Seq(Items),
           Deliver(delivery, items), UNCHANGED <<material, now, cancel>>,
           cancel.at \notin {"start", "decide", "thinking", "calling"},
           delivery = "needs_input" => kernel.decision.slots = Missing,
           delivery = "comparison" => Missing = {} /\ kernel.calls > 0,
           delivery = "answer_with_knowledge" => kernel.loads > 0
    PROVE  KernelInv' /\ out' \in Seq(Items)
<1>1. /\ kernel' = [kernel EXCEPT !.pc = "ended", !.delivery = delivery]
      /\ out' = items
  BY DEF Deliver
<1>2. /\ kernel' \in KernelState /\ kernel'.pc = "ended"
      /\ kernel'.step = kernel.step /\ kernel'.decisions = kernel.decisions
      /\ kernel'.calls = kernel.calls /\ kernel'.loads = kernel.loads
      /\ kernel'.loaded = kernel.loaded /\ kernel'.delivery = delivery
      /\ kernel'.decision = kernel.decision
  BY <1>1, KernelStateOf DEF KernelState, Pcs
<1>3. Begun' = Begun /\ Missing' = Missing
  BY <1>2 DEF Begun, Missing
<1>4. CancelFits'
  BY <1>2, <1>3 DEF CancelFits, KernelInv
<1>5. DeliveriesPassValidation'
  BY <1>2, <1>3 DEF DeliveriesPassValidation
<1> QED
  BY <1>1, <1>2, <1>3, <1>4, <1>5 DEF KernelInv, KernelTypeOK

LEMMA SignalsAreItems ==
    ASSUME KernelInv
    PROVE  /\ \A label \in RouteLabels : RouteSignal(label) \in Items
           /\ \A status \in ToolFailures \cup {"ok"} : ToolItem(status) \in Items
<1>1. "route_decided" \in ItemTypes /\ "tool_invoked" \in ItemTypes /\ kernel.step \in Nat
  BY KernelStateOf DEF ItemTypes, StepTypes
<1>2. RouteLabels \subseteq Labels /\ ToolFailures \cup {"ok"} \subseteq Labels
  BY DEF Labels, StepStatuses
<1> QED
  BY <1>1, <1>2, ItemsAreItems DEF RouteSignal, ToolItem

LEMMA FailedFits ==
    ASSUME KernelInv, NEW failure \in Failures, NEW label \in RouteLabels,
           Failed(failure, label), UNCHANGED <<material, now, cancel>>
    PROVE  KernelInv' /\ out' \in Seq(Items)
  BY FailsFit, SignalsAreItems DEF Failed

\* What is granted of a limit ends by the deadline.
LEMMA WaitFits ==
    ASSUME KernelInv, NEW limit \in Nat
    PROVE  LET until == now + Wait(limit)
           IN until \in Nat /\ now <= until /\ until <= Deadline
<1>1. now \in Nat /\ Deadline \in Nat /\ now <= Deadline
  BY KernelStateOf, Budget DEF KernelInv
<1>2. Remaining \in Nat /\ now + Remaining = Deadline
  BY <1>1 DEF Remaining
<1>3. Wait(limit) \in Nat /\ Wait(limit) <= Remaining
  BY <1>2 DEF Wait, Smaller
<1> QED
  BY <1>1, <1>2, <1>3

\* Each node of the kernel keeps to its budget and to its cancel.
LEMMA DecideFits ==
    ASSUME KernelInv, Decide
    PROVE  KernelInv' /\ out' \in Seq(Items)
<1>1. UNCHANGED <<material, now, cancel>> /\ kernel.pc = "decide"
  BY DEF Decide
<1>2. CASE StopCancelled(kernel)
  BY <1>1, <1>2, StopsFit
<1>3. CASE NoDecisionLeft
  <2> DEFINE step == Smaller(kernel.step + 1, MaxDecisions)
  <2>1. step \in Nat
    BY KernelStateOf, Budget DEF Smaller
  <2>2. /\ kernel' = [kernel EXCEPT !.decision = NoDecision, !.pc = "ended",
                                    !.failure = "budget_exhausted"]
        /\ out' = <<Item("route_decided", "budget_exhausted", step)>>
    BY <1>3 DEF NoDecisionLeft, FailWith
  <2>3. /\ kernel' \in KernelState /\ kernel'.pc = "ended"
        /\ kernel'.step = kernel.step /\ kernel'.decisions = kernel.decisions
        /\ kernel'.calls = kernel.calls /\ kernel'.loads = kernel.loads
        /\ kernel'.loaded = kernel.loaded /\ kernel'.delivery = kernel.delivery
    BY <2>2, KernelStateOf DEF KernelState, Pcs, Failures
  <2>4. kernel.delivery = "none"
    BY <1>1 DEF KernelInv
  <2>5. Item("route_decided", "budget_exhausted", step) \in Items
    BY <2>1, ItemsAreItems DEF ItemTypes, StepTypes, Labels, RouteLabels
  <2> QED
    BY <1>1, <2>2, <2>3, <2>4, <2>5, KernelEnds, ItemsInSequence
<1>4. CASE /\ ~ cancelled /\ MayDecide
           /\ kernel' = [kernel EXCEPT !.pc = "thinking", !.step = @ + 1, !.decisions = @ + 1,
                                       !.decision = NoDecision,
                                       !.until = now + Wait(ModelWait),
                                       !.clipped = Remaining < ModelWait]
           /\ out' = <<>>
  <2> DEFINE until == now + Wait(ModelWait)
             clipped == Remaining < ModelWait
  <2>1. until \in Nat /\ now <= until /\ until <= Deadline
    BY <1>4, WaitFits, Budget DEF MayDecide
  <2>2. kernel.step + 1 \in 0 .. MaxDecisions /\ kernel.decisions + 1 \in 0 .. MaxDecisions
        /\ kernel.step + 1 = kernel.decisions + 1
    BY <1>4, KernelStateOf, Budget DEF MayDecide, KernelInv
  <2>3. clipped \in BOOLEAN /\ NoDecision \in Decisions \cup {NoDecision}
        /\ kernel.delivery = "none"
    BY <1>1 DEF KernelInv
  <2>7. kernel' = [kernel EXCEPT !.pc = "thinking", !.step = @ + 1, !.decisions = @ + 1,
                                 !.decision = NoDecision, !.until = until,
                                 !.clipped = clipped]
    BY <1>4
  <2> HIDE DEF until, clipped
  <2>8. kernel \in KernelState
    BY KernelStateOf
  <2>9. kernel' \in KernelState
    BY <2>1, <2>2, <2>3, <2>7, <2>8 DEF KernelState, Pcs
  <2>10. /\ kernel'.pc = "thinking" /\ kernel'.until = until
         /\ kernel'.step = kernel'.decisions
         /\ kernel'.calls = kernel.calls /\ kernel'.loads = kernel.loads
         /\ kernel'.loaded = kernel.loaded /\ kernel'.delivery = "none"
    BY <2>2, <2>3, <2>7, <2>8 DEF KernelState
  <2>4. cancel.at = "none"
    BY <1>4 DEF cancelled
  <2>5. CancelFits'
    BY <1>1, <2>4 DEF CancelFits
  <2>6. DeliveriesPassValidation'
    BY <2>10 DEF DeliveriesPassValidation
  <2> QED
    BY <1>1, <1>4, <2>1, <2>9, <2>10, <2>5, <2>6, ItemsInSequence DEF KernelInv, KernelTypeOK
<1> QED
  BY <1>2, <1>3, <1>4 DEF Decide

LEMMA ModelAnswersFits ==
    ASSUME KernelInv, ModelAnswers
    PROVE  KernelInv' /\ out' \in Seq(Items)
<1>1. UNCHANGED <<material, now, cancel>> /\ kernel.pc = "thinking"
  BY DEF ModelAnswers
<1>2. CASE StopCancelled(kernel)
  BY <1>1, <1>2, StopsFit
<1>3. ASSUME NEW failure \in Failures, NEW label \in RouteLabels,
             Failed(failure, label)
      PROVE  KernelInv' /\ out' \in Seq(Items)
  BY <1>1, <1>3, FailedFits
<1>4. ASSUME ~ StopsAnswer, NEW d \in Decisions,
             Done([kernel EXCEPT !.pc = "dispatch", !.decision = d])
      PROVE  KernelInv' /\ out' \in Seq(Items)
  <2>1. kernel' = [kernel EXCEPT !.pc = "dispatch", !.decision = d] /\ out' = <<>>
    BY <1>4 DEF Done
  <2>2. /\ kernel' \in KernelState /\ kernel'.pc = "dispatch"
        /\ kernel'.step = kernel.step /\ kernel'.decisions = kernel.decisions
        /\ kernel'.calls = kernel.calls /\ kernel'.loads = kernel.loads
        /\ kernel'.loaded = kernel.loaded /\ kernel'.delivery = "none"
    BY <1>1, <2>1, KernelStateOf DEF KernelState, Pcs, KernelInv
  <2>3. cancel.at = "none"
    BY <1>4 DEF StopsAnswer, cancelled
  <2>4. CancelFits'
    BY <1>1, <2>3 DEF CancelFits
  <2>5. DeliveriesPassValidation'
    BY <2>2 DEF DeliveriesPassValidation
  <2> QED
    BY <1>1, <2>1, <2>2, <2>4, <2>5, ItemsInSequence DEF KernelInv, KernelTypeOK
<1> QED
  BY <1>2, <1>3, <1>4 DEF ModelAnswers, Failures, RouteLabels

\* A node of a decision begins with what the model decided, before any end.
LEMMA DispatchedFits ==
    ASSUME KernelInv, NEW k, Dispatched(k)
    PROVE  /\ kernel.delivery = "none" /\ kernel.pc = "dispatch" /\ out = <<>>
           /\ cancel.at \in {"none", "dispatch"}
           /\ cancel.at = "dispatch" => Begun = cancel.begun
           /\ kernel.decision \in Decisions \cup {NoDecision}
           /\ kernel.decision.kind = k
<1>1. kernel.pc = "dispatch" /\ out = <<>> /\ kernel.decision.kind = k
  BY DEF Dispatched
<1>2. cancel.at \in {"none", "dispatch"}
  BY <1>1, KernelStateOf DEF KernelInv, CancelFits, Pcs
<1> QED
  BY <1>1, <1>2, KernelStateOf DEF KernelInv, CancelFits, KernelState

LEMMA AnswerFits ==
    ASSUME KernelInv, FinalizeAnswer \/ FinalizeNeedsInput
    PROVE  KernelInv' /\ out' \in Seq(Items)
<1>1. UNCHANGED <<material, now, cancel>>
  BY DEF FinalizeAnswer, FinalizeNeedsInput
<1>2. CASE FinalizeAnswer
  <2> DEFINE delivery == IF kernel.loaded = <<>> THEN "answer" ELSE "answer_with_knowledge"
  <2>1. Dispatched("answer") /\ Deliver(delivery, <<RouteSignal("answer")>>)
    BY <1>2 DEF FinalizeAnswer
  <2>2. <<RouteSignal("answer")>> \in Seq(Items)
    BY SignalsAreItems, ItemsInSequence DEF RouteLabels
  <2>3. /\ delivery \in Deliveries
        /\ delivery \notin {"needs_input", "comparison"}
        /\ delivery = "answer_with_knowledge" => kernel.loads > 0
    BY DEF KernelInv, Deliveries
  <2> HIDE DEF delivery
  <2> QED
    BY <1>1, <2>1, <2>2, <2>3, DispatchedFits, DeliversFit
<1>3. CASE FinalizeNeedsInput
  <2>1. Dispatched("needs_input")
    BY <1>3 DEF FinalizeNeedsInput
  <2>2. CASE AsksForMissing(kernel.decision.slots)
    <3>1. Deliver("needs_input", <<RouteSignal("needs_input")>>)
      BY <1>3, <2>2 DEF FinalizeNeedsInput
    <3>2. <<RouteSignal("needs_input")>> \in Seq(Items)
      BY SignalsAreItems, ItemsInSequence DEF RouteLabels
    <3>3. kernel.decision.slots = Missing /\ "needs_input" \in Deliveries
      BY <2>2 DEF AsksForMissing, Deliveries
    <3> QED
      BY <1>1, <2>1, <3>1, <3>2, <3>3, DispatchedFits, DeliversFit
  <2>3. CASE ~ AsksForMissing(kernel.decision.slots)
    <3>1. Failed("model_decision_invalid", "failed")
      BY <1>3, <2>3 DEF FinalizeNeedsInput
    <3> QED
      BY <1>1, <3>1, FailedFits DEF Failures, RouteLabels
  <2> QED
    BY <2>2, <2>3
<1> QED
  BY <1>2, <1>3

LEMMA SkillFits ==
    ASSUME KernelInv, RefuseSkill \/ NoLoadLeft \/ LoadSkill
    PROVE  KernelInv' /\ out' \in Seq(Items)
<1>1. UNCHANGED <<material, now, cancel>> /\ Dispatched("load_skill")
  BY DEF RefuseSkill, NoLoadLeft, LoadSkill
<1>2. CASE RefuseSkill
  BY <1>1, <1>2, FailedFits DEF RefuseSkill, Failures, RouteLabels
<1>3. CASE NoLoadLeft
  BY <1>1, <1>3, FailedFits DEF NoLoadLeft, Failures, RouteLabels
<1>4. CASE LoadSkill
  <2>1. PICK label \in RouteLabels : out' = <<RouteSignal(label)>>
    BY <1>4 DEF LoadSkill, RouteLabels
  <2>2. /\ kernel \in KernelState /\ kernel.decision.id \in Knowledge
        /\ kernel.loads + 1 \in 0 .. MaxLoads /\ kernel.observations + 1 \in Nat
        /\ kernel.loads + 1 > 0
    <3>1. kernel.loads \in Nat /\ kernel.loads < MaxLoads /\ kernel.decision.id \in Knowledge
      BY <1>4, KernelStateOf DEF LoadSkill, MayLoad
    <3>2. kernel.observations \in Nat
      BY KernelStateOf DEF KernelState
    <3> QED
      BY <3>1, <3>2, KernelStateOf, Budget
  <2>3. /\ kernel' \in KernelState /\ kernel'.pc = "decide"
        /\ kernel'.step = kernel.step /\ kernel'.decisions = kernel.decisions
        /\ kernel'.calls = kernel.calls /\ kernel'.delivery = kernel.delivery
        /\ kernel'.loaded # <<>> => kernel'.loads > 0
    <3>1. CASE kernel' = [kernel EXCEPT !.pc = "decide", !.loads = @ + 1, !.observations = @ + 1,
                                        !.loaded = Append(@, kernel.decision.id)]
      <4>1. Append(kernel.loaded, kernel.decision.id) \in Seq(Knowledge)
        BY <2>2 DEF KernelState
      <4> QED
        BY <3>1, <4>1, <2>2 DEF KernelState, Pcs
    <3>2. CASE kernel' = Degrade
      <4>1. kernel.degraded \cup {kernel.decision.id} \in SUBSET Knowledge
        BY <2>2 DEF KernelState
      <4> QED
        BY <3>2, <4>1, <2>2 DEF Degrade, KernelState, Pcs, KernelInv
    <3> QED
      BY <1>4, <3>1, <3>2 DEF LoadSkill
  <2>4. Begun' = Begun
    BY <2>3 DEF Begun
  <2>5. CancelFits' /\ kernel'.delivery = "none"
    BY <1>1, <2>3, <2>4, DispatchedFits DEF CancelFits
  <2>6. DeliveriesPassValidation'
    BY <2>5 DEF DeliveriesPassValidation
  <2>7. out' \in Seq(Items)
    BY <2>1, SignalsAreItems, ItemsInSequence
  <2> QED
    BY <1>1, <2>3, <2>5, <2>6, <2>7 DEF KernelInv, KernelTypeOK
<1> QED
  BY <1>2, <1>3, <1>4

\* A call that is counted while a decision is carried out.
LEMMA CountedFits ==
    ASSUME KernelInv, NEW k, Dispatched(k), MayCallTool,
           kernel' \in KernelState, kernel'.pc \in {"calling", "ended"},
           kernel'.step = kernel.step, kernel'.decisions = kernel.decisions,
           kernel'.calls = kernel.calls + 1, kernel'.loads = kernel.loads,
           kernel'.loaded = kernel.loaded, kernel'.delivery = kernel.delivery,
           kernel'.pc = "calling" => /\ Missing = {}
                                     /\ now <= kernel'.until /\ kernel'.until <= Deadline,
           UNCHANGED <<material, now, cancel>>
    PROVE  KernelInv'
<1>1. Begun' = Begun + 1 /\ Missing' = Missing /\ kernel'.calls > 0
  BY KernelStateOf DEF Begun, Missing
<1>2. kernel'.delivery = "none"
  BY DispatchedFits
<1>3. CancelFits'
  BY <1>1, DispatchedFits DEF CancelFits
<1>4. DeliveriesPassValidation'
  BY <1>2 DEF DeliveriesPassValidation
<1> QED
  BY <1>1, <1>2, <1>3, <1>4 DEF KernelInv, KernelTypeOK

LEMMA MoreCalls ==
    ASSUME KernelInv, MayCallTool
    PROVE  kernel.calls + 1 \in 0 .. MaxToolCalls
<1>1. kernel.calls \in Nat /\ kernel.calls < MaxToolCalls
  BY KernelStateOf DEF MayCallTool
<1> QED
  BY <1>1, Budget

LEMMA CapabilityFits ==
    ASSUME KernelInv, RefuseCapability \/ CallCapability
    PROVE  KernelInv' /\ out' \in Seq(Items)
<1>1. UNCHANGED <<material, now, cancel>> /\ Dispatched("invoke_capability")
  BY DEF RefuseCapability, CallCapability
<1>2. CASE RefuseCapability
  <2>1. ASSUME NEW failure \in Failures, NEW label \in RouteLabels,
               Failed(failure, label)
        PROVE  KernelInv' /\ out' \in Seq(Items)
    BY <1>1, <2>1, FailedFits
  <2>2. ASSUME NEW failure \in Failures, NEW label \in RouteLabels,
               MayCallTool,
               FailWith([kernel EXCEPT !.calls = @ + 1], failure, RouteSignal(label))
        PROVE  KernelInv' /\ out' \in Seq(Items)
    <3>1. /\ kernel' = [[kernel EXCEPT !.calls = @ + 1] EXCEPT !.pc = "ended", !.failure = failure]
          /\ out' = <<RouteSignal(label)>>
      BY <2>2 DEF FailWith
    <3>2. kernel \in KernelState /\ kernel.calls + 1 \in 0 .. MaxToolCalls
      BY <2>2, KernelStateOf, MoreCalls
    <3>3. /\ kernel' \in KernelState /\ kernel'.pc = "ended"
          /\ kernel'.step = kernel.step /\ kernel'.decisions = kernel.decisions
          /\ kernel'.calls = kernel.calls + 1 /\ kernel'.loads = kernel.loads
          /\ kernel'.loaded = kernel.loaded /\ kernel'.delivery = kernel.delivery
      BY <3>1, <3>2 DEF KernelState, Pcs
    <3>4. KernelInv'
      BY <1>1, <2>2, <3>3, CountedFits
    <3> QED
      BY <3>1, <3>4, SignalsAreItems, ItemsInSequence
  <2>3. \/ Failed("capability_unavailable", "invoke_capability_unavailable")
        \/ Failed("budget_exhausted", "budget_exhausted")
        \/ /\ MayCallTool
           /\ \/ FailWith([kernel EXCEPT !.calls = @ + 1], "model_decision_invalid",
                          RouteSignal("failed"))
              \/ FailWith([kernel EXCEPT !.calls = @ + 1], "capability_unavailable",
                          RouteSignal("invoke_capability_unavailable"))
    BY <1>2 DEF RefuseCapability
  <2>4. /\ {"capability_unavailable", "budget_exhausted", "model_decision_invalid"}
             \subseteq Failures
        /\ {"invoke_capability_unavailable", "budget_exhausted", "failed"}
             \subseteq RouteLabels
    BY DEF Failures, RouteLabels
  <2> QED
    BY <2>1, <2>2, <2>3, <2>4
<1>3. CASE CallCapability
  <2> DEFINE until == now + Wait(ToolWait)
             clipped == Remaining < ToolWait
  <2>1. until \in Nat /\ now <= until /\ until <= Deadline
    BY WaitFits, Budget
  <2>2. MayCallTool /\ Missing = {} /\ out' = <<>>
        /\ kernel' = [kernel EXCEPT !.pc = "calling", !.calls = @ + 1, !.until = until,
                                    !.clipped = clipped]
    BY <1>1, <1>3, DispatchedFits DEF CallCapability, OwnMaterial
  <2>3. kernel \in KernelState /\ kernel.calls + 1 \in 0 .. MaxToolCalls
        /\ clipped \in BOOLEAN
    BY <2>2, KernelStateOf, MoreCalls
  <2> HIDE DEF until, clipped
  <2>4. /\ kernel' \in KernelState /\ kernel'.pc = "calling" /\ kernel'.until = until
        /\ kernel'.step = kernel.step /\ kernel'.decisions = kernel.decisions
        /\ kernel'.calls = kernel.calls + 1 /\ kernel'.loads = kernel.loads
        /\ kernel'.loaded = kernel.loaded /\ kernel'.delivery = kernel.delivery
    BY <2>1, <2>2, <2>3 DEF KernelState, Pcs
  <2> QED
    BY <1>1, <2>1, <2>2, <2>4, CountedFits, ItemsInSequence
<1> QED
  BY <1>2, <1>3

LEMMA ToolAnswersFits ==
    ASSUME KernelInv, ToolAnswers
    PROVE  KernelInv' /\ out' \in Seq(Items)
<1>1. UNCHANGED <<material, now, cancel>> /\ kernel.pc = "calling" /\ kernel \in KernelState
  BY KernelStateOf DEF ToolAnswers
<1>2. CASE StopCancelled(kernel)
  BY <1>1, <1>2, StopsFit
<1>3. \A label \in RouteLabels, status \in ToolFailures \cup {"ok"} :
        <<RouteSignal(label), ToolItem(status)>> \in Seq(Items)
  BY SignalsAreItems, ItemsInSequence
<1>4. ASSUME ~ StopsAnswer,
             Deliver("comparison", <<RouteSignal("invoke_capability"), ToolItem("ok")>>)
      PROVE  KernelInv' /\ out' \in Seq(Items)
  <2>1. <<RouteSignal("invoke_capability"), ToolItem("ok")>> \in Seq(Items)
        /\ "comparison" \in Deliveries
    BY <1>3 DEF RouteLabels, Deliveries
  <2>2. cancel.at = "none" /\ Missing = {} /\ kernel.calls > 0
    BY <1>1, <1>4 DEF StopsAnswer, cancelled, KernelInv
  <2> QED
    BY <1>1, <1>4, <2>1, <2>2, DeliversFit
<1>5. ASSUME NEW failure \in Failures, kernel' = [kernel EXCEPT !.pc = "ended", !.failure = failure]
      PROVE  KernelInv'
  <2>1. /\ kernel' \in KernelState /\ kernel'.pc = "ended"
        /\ kernel'.step = kernel.step /\ kernel'.decisions = kernel.decisions
        /\ kernel'.calls = kernel.calls /\ kernel'.loads = kernel.loads
        /\ kernel'.loaded = kernel.loaded /\ kernel'.delivery = kernel.delivery
        /\ kernel'.decision = kernel.decision
    BY <1>1, <1>5 DEF KernelState, Pcs
  <2> QED
    BY <1>1, <2>1, KernelEnds
<1>6. ASSUME kernel' = [kernel EXCEPT !.pc = "ended", !.failure = "delivery_invalid"],
             out' = <<RouteSignal("invoke_capability_unavailable"), ToolItem("ok")>>
      PROVE  KernelInv' /\ out' \in Seq(Items)
  BY <1>3, <1>5, <1>6 DEF RouteLabels, Failures
<1>7. ASSUME NEW status \in ToolFailures, NEW spent \in BOOLEAN,
             kernel' = [kernel EXCEPT !.pc = "ended",
                                      !.failure = IF spent THEN "budget_exhausted" ELSE "tool_failed"],
             out' = <<RouteSignal(IF spent THEN "budget_exhausted"
                                  ELSE "invoke_capability_unavailable"), ToolItem(status)>>
      PROVE  KernelInv' /\ out' \in Seq(Items)
  <2>1. /\ (IF spent THEN "budget_exhausted" ELSE "tool_failed") \in Failures
        /\ (IF spent THEN "budget_exhausted" ELSE "invoke_capability_unavailable")
             \in RouteLabels
    BY DEF Failures, RouteLabels
  <2> QED
    BY <1>3, <1>5, <1>7, <2>1
<1> QED
  BY <1>2, <1>4, <1>6, <1>7 DEF ToolAnswers

LEMMA OutcomeFits ==
    ASSUME KernelInv, KernelRaises \/ ReportOutcome
    PROVE  KernelInv' /\ out' \in Seq(Items)
<1>1. UNCHANGED <<material, now, cancel>> /\ kernel \in KernelState
  BY KernelStateOf DEF KernelRaises, ReportOutcome
<1>2. {"failure", "eof", "agent_done", "delivery"} \subseteq ItemTypes
      /\ {"raised", ""} \cup Failures \cup Deliveries \cup {"failed"} \subseteq Labels
      /\ 0 \in Nat /\ kernel.step \in Nat
  BY KernelStateOf DEF ItemTypes, StepTypes, Ends, Broken, Labels, Failures, StepStatuses
<1>3. CASE KernelRaises
  <2>1. /\ kernel' = [kernel EXCEPT !.pc = "over", !.failure = "raised"]
        /\ out' = <<Item("failure", "raised", 0), Eof>> /\ kernel.pc = "dispatch"
    BY <1>3 DEF KernelRaises
  <2>2. /\ kernel' \in KernelState /\ kernel'.pc = "over"
        /\ kernel'.step = kernel.step /\ kernel'.decisions = kernel.decisions
        /\ kernel'.calls = kernel.calls /\ kernel'.loads = kernel.loads
        /\ kernel'.loaded = kernel.loaded /\ kernel'.delivery = kernel.delivery
        /\ kernel'.decision = kernel.decision
    BY <1>1, <2>1 DEF KernelState, Pcs, Failures
  <2>3. out' \in Seq(Items)
    BY <1>2, <2>1, ItemsAreItems, ItemsInSequence DEF Eof
  <2> QED
    BY <1>1, <2>2, <2>3, KernelEnds
<1>4. CASE ReportOutcome
  <2>1. kernel' = [kernel EXCEPT !.pc = "over"]
    BY <1>4 DEF ReportOutcome
  <2>2. /\ kernel' \in KernelState /\ kernel'.pc = "over"
        /\ kernel'.step = kernel.step /\ kernel'.decisions = kernel.decisions
        /\ kernel'.calls = kernel.calls /\ kernel'.loads = kernel.loads
        /\ kernel'.loaded = kernel.loaded /\ kernel'.delivery = kernel.delivery
        /\ kernel'.decision = kernel.decision
    BY <1>1, <2>1 DEF KernelState, Pcs
  <2>3. kernel.failure \in Failures \cup {"none"} /\ kernel.delivery \in Deliveries \cup {"none"}
    BY <1>1 DEF KernelState
  <2>4. OutcomeLabel \in Labels /\ kernel.failure \in Labels
        /\ (kernel.delivery # "none" => kernel.delivery \in Labels)
    <3>1. "none" \in Labels /\ "budget_exhausted" \in Labels
      BY DEF Labels, Texts, Failures
    <3>2. kernel.failure \in Labels /\ kernel.delivery \in Labels
      BY <1>2, <2>3, <3>1
    <3> QED
      BY <1>2, <3>1, <3>2 DEF OutcomeLabel
  <2>5. /\ Item("agent_done", OutcomeLabel, kernel.step) \in Items
        /\ kernel.delivery # "none" => Item("delivery", kernel.delivery, 0) \in Items
        /\ Item("failure", kernel.failure, 0) \in Items
        /\ Eof \in Items
    BY <1>2, <2>4, ItemsAreItems DEF Eof
  <2>6. out' \in Seq(Items)
    BY <1>4, <2>5, ItemsInSequence DEF ReportOutcome
  <2> QED
    BY <1>1, <2>2, <2>6, KernelEnds
<1> QED
  BY <1>3, <1>4

\* The executor around the kernel, the cancel endpoint and the clock
LEMMA StartAgentFits ==
    ASSUME KernelInv, RefuseInput \/ StartAgent
    PROVE  KernelInv' /\ out' \in Seq(Items)
<1>1. UNCHANGED <<material, now, cancel>> /\ kernel \in KernelState /\ kernel.pc = "start"
  BY KernelStateOf DEF RefuseInput, StartAgent
<1>2. /\ "failure" \in ItemTypes /\ "eof" \in ItemTypes
      /\ "agent_start" \in ItemTypes /\ "raise" \in ItemTypes
      /\ "raised" \in Labels /\ "" \in Labels /\ "MAIN_AGENT_RULE_UNAVAILABLE" \in Labels
      /\ 0 \in Nat
  BY DEF ItemTypes, StepTypes, Ends, Broken, Labels, Failures
<1>3. out' \in Seq(Items)
  <2>1. Item("raise", "MAIN_AGENT_RULE_UNAVAILABLE", 0) \in Items
    BY <1>2, ItemsAreItems
  <2>2. Item("failure", "raised", 0) \in Items
    BY <1>2, ItemsAreItems
  <2>3. Eof \in Items
    BY <1>2, ItemsAreItems DEF Eof
  <2>4. Item("agent_start", "", 0) \in Items
    BY <1>2, ItemsAreItems
  <2>5. CASE StartAgent
    BY <2>4, <2>5, ItemsInSequence DEF StartAgent
  <2>6. CASE RefuseInput
    BY <2>1, <2>2, <2>3, <2>6, ItemsInSequence DEF RefuseInput
  <2> QED
    BY <2>5, <2>6
<1>4. kernel.delivery = "none"
  BY <1>1 DEF KernelInv
<1>5. CASE RefuseInput
  <2>1. kernel' = [kernel EXCEPT !.pc = "over", !.failure = "raised"]
    BY <1>5 DEF RefuseInput
  <2>2. /\ kernel' \in KernelState /\ kernel'.pc = "over"
        /\ kernel'.step = kernel.step /\ kernel'.decisions = kernel.decisions
        /\ kernel'.calls = kernel.calls /\ kernel'.loads = kernel.loads
        /\ kernel'.loaded = kernel.loaded /\ kernel'.delivery = kernel.delivery
        /\ kernel'.decision = kernel.decision
    BY <1>1, <2>1 DEF KernelState, Pcs, Failures
  <2> QED
    BY <1>1, <1>3, <2>2, KernelEnds
<1>6. CASE StartAgent
  <2>1. kernel' = [kernel EXCEPT !.pc = "decide"]
    BY <1>6 DEF StartAgent
  <2>2. /\ kernel' \in KernelState /\ kernel'.pc = "decide"
        /\ kernel'.step = kernel.step /\ kernel'.decisions = kernel.decisions
        /\ kernel'.calls = kernel.calls /\ kernel'.loads = kernel.loads
        /\ kernel'.loaded = kernel.loaded /\ kernel'.delivery = "none"
    BY <1>1, <1>4, <2>1 DEF KernelState, Pcs
  <2>3. Begun' = Begun
    BY <2>2 DEF Begun
  <2>4. CancelFits'
    BY <1>1, <2>2, <2>3 DEF CancelFits, KernelInv
  <2>5. DeliveriesPassValidation'
    BY <2>2 DEF DeliveriesPassValidation
  <2> QED
    BY <1>1, <1>3, <2>2, <2>4, <2>5 DEF KernelInv, KernelTypeOK
<1> QED
  BY <1>5, <1>6

LEMMA WaitingFits ==
    ASSUME KernelInv, Cancel \/ Tick
    PROVE  KernelInv' /\ UNCHANGED out
<1>1. UNCHANGED <<kernel, material, out>>
  BY DEF Cancel, Tick
<1>2. Begun' = Begun /\ Missing' = Missing
  BY <1>1 DEF Begun, Missing
<1>3. DeliveriesPassValidation'
  BY <1>1, <1>2 DEF DeliveriesPassValidation, KernelInv
<1>4. CASE Cancel
  <2>1. /\ cancel' = [at |-> kernel.pc, begun |-> Begun] /\ UNCHANGED now
        /\ kernel.pc \in Pcs \ {"over"} /\ Begun \in Nat
    BY <1>4, KernelStateOf DEF Cancel, KernelState
  <2>2. cancel'.at = kernel.pc /\ cancel'.begun = Begun
    BY <2>1
  <2>3. CancelFits'
    BY <1>1, <1>2, <2>1, <2>2 DEF CancelFits, KernelInv, Pcs
  <2>4. cancel' \in [at : Pcs \cup {"none"}, begun : Nat]
    BY <2>1
  <2> QED
    BY <1>1, <1>2, <1>3, <2>1, <2>3, <2>4 DEF KernelInv, KernelTypeOK
<1>5. CASE Tick
  <2>1. UNCHANGED cancel /\ now' = now + 1 /\ now < Deadline
    <3>1. now' = now + 1 /\ UNCHANGED cancel
      BY <1>5 DEF Tick
    <3>2. kernel.pc \in {"thinking", "calling"} => kernel.until <= Deadline
      BY DEF KernelInv
    <3>3. \/ kernel.pc \in {"thinking", "calling"} /\ now < kernel.until
          \/ now < Deadline
      BY <1>5 DEF Tick
    <3> QED
      BY <3>1, <3>2, <3>3, KernelStateOf, Budget
  <2>2. now' \in Nat /\ now' <= Deadline
    BY <2>1, KernelStateOf, Budget
  <2>3. kernel.pc \in {"thinking", "calling"} => now' <= kernel.until
    BY <1>5, <2>1, KernelStateOf DEF Tick
  <2>4. CancelFits'
    BY <1>1, <1>2, <2>1 DEF CancelFits, KernelInv
  <2> QED
    BY <1>1, <1>2, <1>3, <2>1, <2>2, <2>3, <2>4 DEF KernelInv, KernelTypeOK
<1> QED
  BY <1>1, <1>4, <1>5

LEMMA KernelNodeFits ==
    ASSUME KernelInv, KernelNode
    PROVE  KernelInv' /\ out' \in Seq(Items)
  BY DecideFits, ModelAnswersFits, AnswerFits, SkillFits, CapabilityFits, ToolAnswersFits,
     OutcomeFits, StartAgentFits DEF KernelNode, KernelStep

LEMMA KernelInitFits == KernelInit => KernelInv
<1> SUFFICES ASSUME KernelInit PROVE KernelInv
  OBVIOUS
<1>1. kernel = NewKernel /\ now = 0 /\ cancel = [at |-> "none", begun |-> 0]
      /\ material \in SUBSET Sides
  BY DEF KernelInit
<1>2. kernel \in KernelState
  BY <1>1, Budget DEF KernelState, NewKernel, Pcs, NoDecision
<1>3. /\ kernel.pc = "start" /\ kernel.step = kernel.decisions /\ kernel.delivery = "none"
      /\ kernel.loaded = <<>>
  BY <1>1 DEF NewKernel
<1>4. DeliveriesPassValidation /\ CancelFits
  BY <1>1, <1>3 DEF DeliveriesPassValidation, CancelFits
<1> QED
  BY <1>1, <1>2, <1>3, <1>4, Budget DEF KernelInv, KernelTypeOK

-----------------------------------------------------------------------------
(* The diagnosis: its revisions, and that its end is that of a reviewed report *)

\* What is known of the review before it, between drafts, and when the report is complete
ReviewFits ==
    /\ diag.pc \in {"route", "direct", "chain", "parallel", "conflict_check", "debate"} =>
         diag.revision = 0 /\ diag.reviewed = 0 /\ ~ diag.feedback
    /\ diag.pc \in {"report", "reflection"} =>
         /\ diag.reviewed = diag.revision /\ diag.revision <= MaxRevision
         /\ diag.revision > 0 => ~ (diag.mock /\ diag.valid = {})

ReportFits ==
    /\ diag.revision <= MaxRevision
    /\ diag.final = diag.draft
    /\ \/ diag.reviewed = diag.revision + 1
       \/ diag.mock /\ diag.valid = {} /\ diag.revision = 0
    /\ diag.issues => diag.revision = MaxRevision

DiagInv ==
    /\ AgentInv
    /\ diag \in DiagnosisState
    /\ ReviewFits
    /\ diag.pc = "complete" => ReportFits

\* An end of a diagnosis that is on its way, held back or passed on
EndUnderWay ==
    \/ \E i \in DOMAIN out : IsEnd(out[i])
    \/ IsEnd(stream.held) \/ stream.verdict = "ended"

EndFits == kind = "diagnosis" /\ EndUnderWay => diag.pc = "over" /\ ReportFits

-----------------------------------------------------------------------------
(* The guard *)

\* While it reads, what was read is what was passed on and the end that is held back.
GuardReadsOn ==
    /\ stream.held = NoItem => Len(read) = Len(stream.passed)
    /\ stream.held # NoItem =>
         /\ Len(read) = Len(stream.passed) + 1
         /\ IsEnd(stream.held) /\ read[Len(read)] = stream.held
    /\ \A i \in DOMAIN stream.passed : IsEvent(read[i]) /\ stream.passed[i] = read[i]

StreamType ==
    stream \in [passed : Seq(Items), held : Items, verdict : {"none", "ended", "raised", "protocol"}]

GuardInv ==
    /\ StreamType /\ read \in Seq(Items) /\ out \in Seq(Items)
    /\ ~ Over => GuardReadsOn
    /\ Over => stream.held = NoItem /\ OneEndLast

RunInv == kind \in Kinds /\ KernelInv /\ DiagInv /\ GuardInv /\ EndFits

\* What the guard makes of one item: it ends the stream, holds an end back or passes an event on.
LEMMA GuardCases ==
    ASSUME StreamType, NEW item
    PROVE  \/ item.type = "eof" /\ stream.held # NoItem /\ Guard(item) = End(stream.held, "ended")
           \/ /\ item.type = "raise"
              /\ \E code \in {"default", item.label} : Guard(item) = End(Failure(code), "raised")
           \/ stream.held = NoItem /\ IsEnd(item) /\ Guard(item) = [stream EXCEPT !.held = item]
           \/ stream.held = NoItem /\ IsEvent(item) /\ Guard(item) = Pass(item)
           \/ /\ Guard(item) = End(Failure("default"), "protocol")
              /\ item.type # "raise" /\ (item.type = "eof" => stream.held = NoItem)
              /\ stream.held = NoItem => ~ IsEnd(item) /\ ~ IsEvent(item)
<1>1. CASE item.type = "raise"
  BY <1>1 DEF Guard, FailureOf
<1>2. CASE item.type # "raise"
  BY <1>2 DEF Guard
<1> QED
  BY <1>1, <1>2

LEMMA EndOf ==
    ASSUME StreamType, NEW item \in Items, NEW verdict \in {"ended", "raised", "protocol"},
           stream' = End(item, verdict)
    PROVE  /\ StreamType' /\ Over' /\ stream'.held = NoItem /\ stream'.verdict = verdict
           /\ stream'.passed = Append(stream.passed, item)
<1>1. NoItem \in Items
  BY ItemsAreItems DEF NoItem, ItemTypes, Labels
<1>2. Append(stream.passed, item) \in Seq(Items)
  BY DEF StreamType
<1>3. stream' = [stream EXCEPT !.passed = Append(@, item), !.held = NoItem, !.verdict = verdict]
  BY DEF End
<1> QED
  BY <1>1, <1>2, <1>3 DEF StreamType, Over

LEMMA PrefixIs ==
    ASSUME NEW S, NEW s \in Seq(S), NEW t \in Seq(S), Len(s) <= Len(t),
           \A i \in 1 .. Len(s) : s[i] = t[i]
    PROVE  s = SubSeq(t, 1, Len(s))
<1> DEFINE u == SubSeq(t, 1, Len(s))
<1>1. u \in Seq(S) /\ Len(u) = Len(s) /\ \A i \in 1 .. Len(s) : u[i] = t[i]
  OBVIOUS
<1> HIDE DEF u
<1>2. \A i \in 1 .. Len(s) : s[i] = u[i]
  BY <1>1
<1>3. s = u
  BY <1>1, <1>2, SeqEqual
<1> QED
  BY <1>3 DEF u

\* The guard ends with what it has passed on, then one end.
LEMMA OneEnd ==
    ASSUME StreamType, read \in Seq(Items), GuardReadsOn,
           NEW item \in Items, NEW last \in Items, IsEnd(last),
           NEW verdict \in {"ended", "raised", "protocol"},
           stream' = End(last, verdict), read' = Append(read, item),
           verdict = "ended" <=> item.type = "eof" /\ stream.held # NoItem,
           verdict = "ended" => last = stream.held,
           stream.held = NoItem => ~ IsEvent(item)
    PROVE  OneEndLast'
<1>1. /\ stream.passed \in Seq(Items) /\ Over' /\ stream'.verdict = verdict
      /\ stream'.passed = Append(stream.passed, last)
  BY EndOf DEF StreamType
<1> DEFINE n == Len(stream.passed)
<1>2. /\ n \in Nat /\ Len(stream'.passed) = n + 1 /\ stream'.passed[n + 1] = last
      /\ \A i \in 1 .. n : stream'.passed[i] = stream.passed[i]
      /\ stream'.passed \in Seq(Items)
  BY <1>1
<1>3. Len(read') = Len(read) + 1 /\ read' \in Seq(Items) /\ Len(read) \in {n, n + 1}
      /\ read'[Len(read) + 1] = item /\ \A i \in 1 .. Len(read) : read'[i] = read[i]
  BY DEF GuardReadsOn
<1>4. \A i \in 1 .. n : IsEvent(read[i]) /\ stream.passed[i] = read[i] /\ ~ IsEnd(stream.passed[i])
  BY <1>1 DEF GuardReadsOn, IsEvent, IsEnd
<1> HIDE DEF n
<1>5. Told' = n
  BY <1>1, <1>2 DEF Told
<1>6. \A i \in DOMAIN stream'.passed : IsEnd(stream'.passed[i]) => i = Len(stream'.passed)
  BY <1>2, <1>4
<1>7. /\ Told' <= Len(read')
      /\ \A i \in 1 .. Told' : IsEvent(read'[i]) /\ stream'.passed[i] = read'[i]
  BY <1>2, <1>3, <1>4, <1>5
<1>8. ~ IsEvent(read'[n + 1])
  <2>1. CASE stream.held = NoItem
    BY <2>1, <1>3 DEF GuardReadsOn, n
  <2>2. CASE stream.held # NoItem
    BY <2>2, <1>2, <1>3 DEF GuardReadsOn, n, IsEvent, IsEnd
  <2> QED
    BY <2>1, <2>2
<1>9. verdict = "ended" <=> Kept(read')
  <2>1. CASE verdict = "ended"
    <3>1. Len(read) = n + 1 /\ read[n + 1] = stream.held /\ IsEnd(stream.held)
      BY <2>1 DEF GuardReadsOn, n
    <3>2. read' # <<>> /\ read'[Len(read')].type = "eof" /\ Len(read') > 1
          /\ IsEnd(read'[Len(read') - 1])
      BY <2>1, <3>1, <1>2, <1>3
    <3>3. \A i \in 1 .. Len(read') - 2 : IsEvent(read'[i])
      BY <3>1, <1>2, <1>3, <1>4
    <3> QED
      BY <2>1, <3>2, <3>3 DEF Kept
  <2>2. CASE verdict # "ended"
    <3>1. read'[Len(read')] = item
      BY <1>2, <1>3
    <3>2. CASE item.type # "eof"
      BY <2>2, <3>1, <3>2 DEF Kept
    <3>3. CASE stream.held = NoItem
      <4>1. Len(read) = n
        BY <3>3 DEF GuardReadsOn, n
      <4>2. Len(read') > 1 => ~ IsEnd(read'[Len(read') - 1])
        BY <4>1, <1>2, <1>3, <1>4
      <4> QED
        BY <2>2, <4>2 DEF Kept
    <3> QED
      BY <2>2, <3>2, <3>3
  <2> QED
    BY <2>1, <2>2
<1>10. verdict = "ended" => stream'.passed = SubSeq(read', 1, Len(read') - 1)
  <2> SUFFICES ASSUME verdict = "ended"
               PROVE  stream'.passed = SubSeq(read', 1, Len(read') - 1)
    OBVIOUS
  <2>1. Len(read) = n + 1 /\ read[n + 1] = last
    BY DEF GuardReadsOn, n
  <2>2. stream'.passed = SubSeq(read', 1, n + 1)
    <3>1. /\ Len(stream'.passed) = n + 1 /\ Len(stream'.passed) <= Len(read')
          /\ \A i \in 1 .. Len(stream'.passed) : stream'.passed[i] = read'[i]
      BY <2>1, <1>2, <1>3, <1>4
    <3>2. stream'.passed \in Seq(Items) /\ read' \in Seq(Items)
      BY <1>2, <1>3
    <3>3. stream'.passed = SubSeq(read', 1, Len(stream'.passed))
      BY <3>1, <3>2, PrefixIs
    <3> QED
      BY <3>1, <3>3
  <2> QED
    BY <2>1, <2>2, <1>2, <1>3
<1>11. stream'.passed # <<>> /\ IsEnd(stream'.passed[Len(stream'.passed)])
  BY <1>2
<1> QED
  BY <1>1, <1>5, <1>6, <1>7, <1>8, <1>9, <1>10, <1>11 DEF OneEndLast

LEMMA ReadsFit ==
    ASSUME GuardInv, GuardReads
    PROVE  GuardInv'
<1> DEFINE item == Head(out)
<1>1. /\ out # <<>> /\ item \in Items /\ ~ Over
      /\ stream' = Guard(item) /\ read' = Append(read, item)
      /\ read \in Seq(Items)
  BY DEF GuardReads, GuardInv
<1>2. stream.passed \in Seq(Items) /\ stream.held \in Items /\ stream.verdict = "none"
      /\ StreamType /\ GuardReadsOn
  BY <1>1 DEF GuardInv, StreamType, Over
<1>3. read' \in Seq(Items) /\ Len(read') = Len(read) + 1 /\ read'[Len(read) + 1] = item
      /\ \A i \in 1 .. Len(read) : read'[i] = read[i]
  BY <1>1
<1>4. out' \in Seq(Items)
  <2>1. Tail(out) \in Seq(Items)
    BY <1>1 DEF GuardInv
  <2> QED
    BY <2>1 DEF GuardReads
<1> HIDE DEF item
<1>5. \A code \in {"default", item.label} : Failure(code) \in Items /\ IsEnd(Failure(code))
  <2>1. item.label \in Labels /\ "default" \in Labels /\ "failure" \in ItemTypes /\ 0 \in Nat
    BY <1>1 DEF Items, Labels, ItemTypes, Ends
  <2> QED
    BY <2>1, ItemsAreItems DEF Failure, IsEnd, Item, Ends
<1>6. ASSUME NEW last \in Items, NEW verdict \in {"ended", "raised", "protocol"},
             IsEnd(last), stream' = End(last, verdict),
             verdict = "ended" <=> item.type = "eof" /\ stream.held # NoItem,
             verdict = "ended" => last = stream.held,
             stream.held = NoItem => ~ IsEvent(item)
      PROVE  GuardInv'
  <2>1. StreamType' /\ Over' /\ stream'.held = NoItem
    BY <1>2, <1>6, EndOf
  <2>2. OneEndLast'
    BY <1>1, <1>2, <1>6, OneEnd
  <2> QED
    BY <1>3, <1>4, <2>1, <2>2 DEF GuardInv
<1>7. CASE item.type = "eof" /\ stream.held # NoItem /\ Guard(item) = End(stream.held, "ended")
  BY <1>1, <1>2, <1>6, <1>7 DEF GuardReadsOn
<1>8. CASE /\ item.type = "raise"
           /\ \E code \in {"default", item.label} : Guard(item) = End(Failure(code), "raised")
  BY <1>1, <1>5, <1>6, <1>8 DEF IsEvent, Broken
<1>9. CASE stream.held = NoItem /\ IsEnd(item) /\ Guard(item) = [stream EXCEPT !.held = item]
  <2>1. StreamType' /\ stream'.passed = stream.passed /\ stream'.held = item /\ ~ Over'
    BY <1>1, <1>2, <1>9 DEF StreamType, Over
  <2>2. item # NoItem
    <3>1. NoItem.type = "none" /\ item.type # "none"
      BY <1>9 DEF IsEnd, Ends, NoItem, Item
    <3> QED
      BY <3>1
  <2>3. Len(read) = Len(stream.passed)
        /\ \A i \in 1 .. Len(stream.passed) : IsEvent(read[i]) /\ stream.passed[i] = read[i]
    BY <1>2, <1>9 DEF GuardReadsOn
  <2>4. \A i \in DOMAIN stream'.passed : IsEvent(read'[i]) /\ stream'.passed[i] = read'[i]
    BY <1>2, <1>3, <2>1, <2>3
  <2>5. GuardReadsOn'
    BY <1>3, <1>9, <2>1, <2>2, <2>3, <2>4 DEF GuardReadsOn
  <2> QED
    BY <1>3, <1>4, <2>1, <2>5 DEF GuardInv
<1>10. CASE stream.held = NoItem /\ IsEvent(item) /\ Guard(item) = Pass(item)
  <2>1. /\ StreamType' /\ stream'.passed = Append(stream.passed, item)
        /\ stream'.held = NoItem /\ ~ Over'
    <3>1. Append(stream.passed, item) \in Seq(Items)
      BY <1>1, <1>2
    <3> QED
      BY <1>1, <1>2, <1>10, <3>1 DEF StreamType, Over, Pass
  <2>2. Len(read) = Len(stream.passed)
        /\ \A i \in 1 .. Len(stream.passed) : IsEvent(read[i]) /\ stream.passed[i] = read[i]
    BY <1>2, <1>10 DEF GuardReadsOn
  <2>3. \A i \in DOMAIN stream'.passed : IsEvent(read'[i]) /\ stream'.passed[i] = read'[i]
    BY <1>2, <1>3, <1>10, <2>1, <2>2
  <2>4. Len(read') = Len(stream'.passed)
    BY <1>2, <1>3, <2>1, <2>2
  <2> QED
    BY <1>3, <1>4, <2>1, <2>3, <2>4 DEF GuardInv, GuardReadsOn
<1>11. CASE /\ Guard(item) = End(Failure("default"), "protocol")
            /\ item.type # "raise" /\ (item.type = "eof" => stream.held = NoItem)
            /\ stream.held = NoItem => ~ IsEnd(item) /\ ~ IsEvent(item)
  BY <1>1, <1>5, <1>6, <1>11
<1> QED
  BY <1>2, <1>7, <1>8, <1>9, <1>10, <1>11, GuardCases

-----------------------------------------------------------------------------
(* The nodes of the diagnosis *)

Steps == StepTypes \X StepStatuses

\* What a node yields has no end in it.
Events(items) == items \in Seq(Items) /\ \A i \in DOMAIN items : IsEvent(items[i])

LEMMA EventIsEvent ==
    ASSUME NEW type \in StepTypes \cup {"agent_start"}, NEW label \in Labels
    PROVE  Event(type, label) \in Items /\ IsEvent(Event(type, label))
<1>1. 0 \in Nat
  OBVIOUS
<1>2. Event(type, label) \in Items
  BY <1>1, ItemsAreItems DEF Event, ItemTypes
<1> QED
  BY <1>2 DEF Event, Item, IsEvent, StepTypes, Ends, Broken

LEMMA EventsJoin ==
    ASSUME NEW s, NEW t, Events(s), Events(t)
    PROVE  Events(s \o t)
  BY DEF Events

LEMMA YieldsEvents ==
    ASSUME NEW trace \in Seq(Steps), diag.seen \in Nat
    PROVE  Events(YieldNew(trace))
<1> DEFINE new == SubSeq(trace, diag.seen + 1, Len(trace))
<1>1. new \in Seq(Steps)
  OBVIOUS
<1> HIDE DEF new
<1>2. \A i \in DOMAIN new : /\ new[i][1] \in StepTypes \cup {"agent_start"}
                            /\ new[i][2] \in Labels
  <2>1. \A i \in DOMAIN new : new[i] \in StepTypes \X StepStatuses
    BY <1>1 DEF Steps
  <2>2. StepStatuses \subseteq Labels
    BY DEF Labels
  <2> QED
    BY <2>1, <2>2
<1>3. \A i \in DOMAIN new : /\ Event(new[i][1], new[i][2]) \in Items
                            /\ IsEvent(Event(new[i][1], new[i][2]))
  BY <1>2, EventIsEvent
<1>4. YieldNew(trace) = [i \in DOMAIN new |-> Event(new[i][1], new[i][2])]
  BY DEF YieldNew, new
<1> QED
  BY <1>1, <1>3, <1>4 DEF Events

LEMMA EntryIsSteps ==
    ASSUME NEW type \in StepTypes, NEW status \in StepStatuses
    PROVE  Entry(type, status) \in Seq(Steps)
<1>1. <<type, status>> \in Steps
  BY DEF Steps
<1> QED
  BY <1>1 DEF Entry

LEMMA EntriesAreSteps ==
    ASSUME NEW n \in Nat
    PROVE  Entries(n) \in Seq(Steps)
<1>1. <<"tool_invoked", "">> \in Steps
  BY DEF Steps, StepTypes, StepStatuses
<1>2. Entries(n) = [i \in 1 .. n |-> <<"tool_invoked", "">>]
  BY DEF Entries
<1>3. Entries(n) \in [1 .. n -> Steps]
  BY <1>1, <1>2
<1> QED
  BY <1>3

LEMMA StepsJoin ==
    ASSUME NEW s \in Seq(Steps), NEW t \in Seq(Steps)
    PROVE  s \o t \in Seq(Steps)
  OBVIOUS

\* A node returns its state with a longer trace and yields events.
LEMMA ReturnFits ==
    ASSUME DiagInv, NEW state \in DiagnosisState, NEW entries \in Seq(Steps), NEW started,
           Events(started), Return(state, entries, started)
    PROVE  /\ diag' \in DiagnosisState /\ Events(out')
           /\ diag'.pc = state.pc /\ diag'.mock = state.mock /\ diag'.valid = state.valid
           /\ diag'.revision = state.revision /\ diag'.reviewed = state.reviewed
           /\ diag'.feedback = state.feedback /\ diag'.draft = state.draft
           /\ diag'.final = state.final /\ diag'.issues = state.issues
<1> DEFINE trace == diag.trace \o entries
<1>1. diag.trace \in Seq(Steps) /\ diag.seen \in Nat
  BY DEF DiagInv, DiagnosisState, Steps
<1>2. trace \in Seq(Steps) /\ Len(trace) \in Nat
  BY <1>1
<1>3. diag' = [state EXCEPT !.trace = trace, !.seen = Len(trace)]
      /\ out' = YieldNew(trace) \o started
  BY DEF Return
<1> HIDE DEF trace
<1>4. Events(out')
  BY <1>1, <1>2, <1>3, YieldsEvents, EventsJoin
<1>5. diag' \in DiagnosisState
  BY <1>2, <1>3 DEF DiagnosisState, Steps
<1> QED
  BY <1>3, <1>4, <1>5 DEF DiagnosisState

LEMMA AgentInvStays ==
    ASSUME AgentInv, UNCHANGED <<agent, gateway>>
    PROVE  AgentInv'
  BY DEF AgentInv, AgentFits, GatewayInv, GatewayTypeOK, AgentTypeOK, Waiting, Current

LEMMA EventsAlone == Events(<<>>)
  BY DEF Events

LEMMA ChainIsOfAgents == ChainOrder \in Seq(Agents)
<1>1. \A name : Registered(name, <<name>>) \in Seq(Agents)
  BY DEF Registered
<1>2. /\ Registered("server", <<"server">>) \in Seq(Agents)
      /\ Registered("db", <<"db">>) \in Seq(Agents)
      /\ Registered("log", <<"log">>) \in Seq(Agents)
  BY <1>1
<1> QED
  BY <1>2 DEF ChainOrder

LEMMA RouteFits ==
    ASSUME DiagInv, Route
    PROVE  DiagInv' /\ Events(out')
<1>1. PICK s \in Strategies, t \in Targets :
        Return(RoutesOf(s, t), Entry("route_decided", ""), StartEvents(RoutesOf(s, t)))
  BY DEF Route
<1> DEFINE state == RoutesOf(s, t)
           todo == IF s = "chain" THEN ChainOrder ELSE <<>>
<1>2. todo \in Seq(Agents) /\ s \in NodePcs
  BY ChainIsOfAgents DEF Strategies, NodePcs
<1>3. state = [diag EXCEPT !.pc = s, !.strategy = s, !.target = t, !.todo = todo]
  BY DEF RoutesOf
<1> HIDE DEF todo, state
<1>4. diag \in DiagnosisState
  BY DEF DiagInv
<1>5. /\ state \in DiagnosisState /\ state.pc = s /\ state.mock = diag.mock
      /\ state.revision = diag.revision /\ state.reviewed = diag.reviewed
      /\ state.feedback = diag.feedback /\ state.strategy = s
  BY <1>2, <1>3, <1>4 DEF DiagnosisState
<1>6. Entry("route_decided", "") \in Seq(Steps)
  BY EntryIsSteps DEF StepTypes, StepStatuses
<1>7. Events(StartEvents(state))
  <2>1. s \in Labels
    BY DEF Labels
  <2>2. Event("agent_start", s) \in Items /\ IsEvent(Event("agent_start", s))
    BY <2>1, EventIsEvent
  <2> QED
    BY <1>5, <2>2 DEF StartEvents, Events
<1>8. /\ diag' \in DiagnosisState /\ Events(out') /\ diag'.pc = s
      /\ diag'.revision = diag.revision /\ diag'.reviewed = diag.reviewed
      /\ diag'.feedback = diag.feedback
  BY <1>1, <1>5, <1>6, <1>7, ReturnFits DEF state
<1>9. ReviewFits' /\ diag'.pc # "complete"
  BY <1>8 DEF ReviewFits, DiagInv, Strategies, Route
<1>10. AgentInv'
  BY AgentInvStays DEF Route, DiagInv
<1> QED
  BY <1>8, <1>9, <1>10 DEF DiagInv

\* A node before the report returns, and the report is the next at the earliest.
LEMMA BeforeReportFits ==
    ASSUME DiagInv, diag.pc \in {"direct", "chain", "parallel", "conflict_check", "debate"},
           NEW state \in DiagnosisState,
           state.pc \in {"conflict_check", "debate", "report"},
           state.revision = diag.revision, state.reviewed = diag.reviewed,
           state.feedback = diag.feedback,
           NEW entries \in Seq(Steps), Return(state, entries, <<>>), UNCHANGED <<agent, gateway>>
    PROVE  DiagInv' /\ Events(out')
<1>1. /\ diag' \in DiagnosisState /\ Events(out') /\ diag'.pc = state.pc
      /\ diag'.revision = diag.revision /\ diag'.reviewed = diag.reviewed
      /\ diag'.feedback = diag.feedback
  BY ReturnFits, EventsAlone
<1>2. diag'.revision = 0 /\ diag'.reviewed = 0 /\ ~ diag'.feedback
  BY <1>1 DEF DiagInv, ReviewFits
<1>3. ReviewFits' /\ diag'.pc # "complete"
  BY <1>1, <1>2, RevisionAssumption DEF ReviewFits
<1>4. AgentInv'
  BY AgentInvStays DEF DiagInv
<1> QED
  BY <1>1, <1>3, <1>4 DEF DiagInv

\* What was concluded is of the agents that were asked.
LEMMA ConclusionsAreOf ==
    ASSUME NEW S, S \subseteq Agents, NEW V \in Conclusions(S)
    PROVE  V \in SUBSET Agents
  BY DEF Conclusions

LEMMA CallsAreFinite == ASSUME GatewayInv PROVE IsFiniteSet(Calls) /\ Cardinality(Calls) \in Nat
<1> DEFINE of(a) == {a} \X DOMAIN gateway[a]
<1>1. ASSUME NEW a \in Agents
      PROVE  IsFiniteSet(of(a))
  <2>1. IsFiniteSet(DOMAIN gateway[a])
    <3>1. DOMAIN gateway[a] = 1 .. Len(gateway[a]) /\ Len(gateway[a]) \in Nat
      BY DEF GatewayInv, GatewayTypeOK
    <3>2. IsFiniteSet(1 .. Len(gateway[a]))
      BY <3>1, FS_Interval
    <3> QED
      BY <3>1, <3>2
  <2>2. IsFiniteSet({a})
    BY FS_Singleton
  <2> QED
    BY <2>1, <2>2, FS_Product
<1>2. IsFiniteSet({of(a) : a \in Agents})
  <2> DEFINE f == [a \in Agents |-> of(a)]
  <2>1. f \in Surjection(Agents, {of(a) : a \in Agents})
    BY DEF Surjection
  <2> QED
    BY <2>1, AgentsAssumption, FS_Surjection
<1>3. IsFiniteSet(UNION {of(a) : a \in Agents})
  BY <1>1, <1>2, FS_UNION
<1> QED
  BY <1>3, FS_CardinalityType DEF Calls

LEMMA AgentEntries ==
    ASSUME GatewayInv
    PROVE  /\ \A a \in Agents : ToolEntries(a) \in Seq(Steps)
           /\ Skipped \in Seq(Steps)
           /\ \A status \in StepStatuses : Entry("agent_done", status) \in Seq(Steps)
<1>1. \A a \in Agents : Len(gateway[a]) \in Nat
  BY DEF GatewayInv, GatewayTypeOK
<1>2. {"agent_done", "conflict_checked", "debate_round"} \subseteq StepTypes
      /\ "skipped" \in StepStatuses
  BY DEF StepTypes, StepStatuses
<1> QED
  BY <1>1, <1>2, EntriesAreSteps, EntryIsSteps, StepsJoin DEF ToolEntries, Skipped

LEMMA ToReportFits ==
    ASSUME DiagInv, NEW V \in SUBSET Agents
    PROVE  LET state == [ToReport EXCEPT !.valid = V]
           IN /\ state \in DiagnosisState /\ state.pc = "report"
              /\ state.revision = diag.revision /\ state.reviewed = diag.reviewed
              /\ state.feedback = diag.feedback
<1>1. diag \in DiagnosisState /\ "report" \in NodePcs
  BY DEF DiagInv, NodePcs
<1> QED
  BY <1>1 DEF ToReport, DiagnosisState

LEMMA StartNodeFits ==
    ASSUME DiagInv, NEW a \in Agents, Start(a)
    PROVE  DiagInv' /\ UNCHANGED <<diag, out>>
  BY StartFits DEF DiagInv, Start, ReviewFits, ReportFits

LEMMA DirectFits ==
    ASSUME DiagInv, DirectSkipped \/ DirectEnds
    PROVE  DiagInv' /\ Events(out')
<1>1. diag.pc = "direct" /\ UNCHANGED <<agent, gateway>> /\ GatewayInv /\ diag \in DiagnosisState
  BY DEF DirectSkipped, DirectEnds, DiagInv, AgentInv
<1>2. CASE DirectSkipped
  <2>1. Return(ToReport, Entry("agent_done", "skipped") \o Skipped, <<>>)
    BY <1>2 DEF DirectSkipped
  <2>2. Entry("agent_done", "skipped") \o Skipped \in Seq(Steps)
    BY <1>1, AgentEntries, StepsJoin DEF StepStatuses
  <2>3. "report" \in NodePcs
    BY DEF NodePcs
  <2>4. /\ ToReport \in DiagnosisState /\ ToReport.pc = "report"
        /\ ToReport.revision = diag.revision /\ ToReport.reviewed = diag.reviewed
        /\ ToReport.feedback = diag.feedback
    BY <1>1, <2>3 DEF ToReport, DiagnosisState
  <2> QED
    BY <1>1, <2>1, <2>2, <2>4, BeforeReportFits
<1>3. CASE DirectEnds
  <2>1. PICK V \in Conclusions({diag.target}) :
          Return([ToReport EXCEPT !.valid = V],
                 ToolEntries(diag.target) \o Entry("agent_done", "ok") \o Skipped, <<>>)
    BY <1>3 DEF DirectEnds
  <2>2. diag.target \in Agents /\ V \in SUBSET Agents
    BY <1>3, <2>1, ConclusionsAreOf DEF DirectEnds
  <2>3. ToolEntries(diag.target) \o Entry("agent_done", "ok") \o Skipped \in Seq(Steps)
    BY <1>1, <2>2, AgentEntries, StepsJoin DEF StepStatuses
  <2> QED
    BY <1>1, <2>1, <2>2, <2>3, ToReportFits, BeforeReportFits
<1> QED
  BY <1>2, <1>3

LEMMA ChainFits ==
    ASSUME DiagInv, ChainGoesOn \/ ChainEnds
    PROVE  DiagInv' /\ (Events(out') \/ UNCHANGED out)
<1>1. diag.pc = "chain" /\ UNCHANGED <<agent, gateway>> /\ GatewayInv /\ diag \in DiagnosisState
  BY DEF ChainGoesOn, ChainEnds, DiagInv, AgentInv
<1>2. CASE ChainGoesOn
  <2>1. diag.todo # <<>> /\ diag' = [diag EXCEPT !.todo = Tail(@)] /\ UNCHANGED out
    BY <1>2 DEF ChainGoesOn
  <2>2. Tail(diag.todo) \in Seq(Agents)
    BY <1>1, <2>1 DEF DiagnosisState
  <2>3. /\ diag' \in DiagnosisState /\ diag'.pc = "chain"
        /\ diag'.revision = diag.revision /\ diag'.reviewed = diag.reviewed
        /\ diag'.feedback = diag.feedback
    BY <1>1, <2>1, <2>2 DEF DiagnosisState
  <2>4. ReviewFits'
    BY <1>1, <2>3 DEF ReviewFits, DiagInv
  <2>5. AgentInv'
    BY <1>1, AgentInvStays DEF DiagInv
  <2> QED
    BY <2>1, <2>3, <2>4, <2>5 DEF DiagInv
<1>3. CASE ChainEnds
  <2> DEFINE layer(name) == Registered(name, ToolEntries(name) \o Entry("agent_done", ""))
  <2>1. PICK V \in Conclusions(Chained) :
          Return([ToReport EXCEPT !.valid = V],
                 layer("server") \o layer("db") \o layer("log") \o Skipped, <<>>)
    BY <1>3 DEF ChainEnds
  <2>2. V \in SUBSET Agents
    BY <2>1, ConclusionsAreOf DEF Chained
  <2>3. \A name : layer(name) \in Seq(Steps)
    <3>1. "" \in StepStatuses
      BY DEF StepStatuses
    <3>2. \A name \in Agents : ToolEntries(name) \o Entry("agent_done", "") \in Seq(Steps)
      BY <1>1, <3>1, AgentEntries, StepsJoin
    <3>3. ASSUME NEW name PROVE layer(name) \in Seq(Steps)
      <4>1. CASE name \in Agents
        BY <3>2, <4>1 DEF Registered
      <4>2. CASE name \notin Agents
        BY <4>2 DEF Registered
      <4> QED
        BY <4>1, <4>2
    <3> QED
      BY <3>3
  <2>4. Skipped \in Seq(Steps) /\ layer("server") \in Seq(Steps) /\ layer("db") \in Seq(Steps)
        /\ layer("log") \in Seq(Steps)
    BY <1>1, <2>3, AgentEntries
  <2> HIDE DEF layer
  <2>5. layer("server") \o layer("db") \o layer("log") \o Skipped \in Seq(Steps)
    BY <2>4, StepsJoin
  <2> QED
    BY <1>1, <2>1, <2>2, <2>5, ToReportFits, BeforeReportFits
<1> QED
  BY <1>2, <1>3

LEMMA ParallelFits ==
    ASSUME DiagInv, ParallelEnds
    PROVE  DiagInv' /\ Events(out')
<1>1. diag.pc = "parallel" /\ UNCHANGED <<agent, gateway>> /\ GatewayInv /\ diag \in DiagnosisState
  BY DEF ParallelEnds, DiagInv, AgentInv
<1>2. PICK V \in Conclusions(Agents) :
        Return([diag EXCEPT !.pc = "conflict_check", !.valid = V],
               Entries(Cardinality(Calls)) \o Entry("agent_done", ""), <<>>)
  BY DEF ParallelEnds
<1>3. V \in SUBSET Agents /\ "conflict_check" \in NodePcs
  BY <1>2, ConclusionsAreOf DEF NodePcs
<1> DEFINE state == [diag EXCEPT !.pc = "conflict_check", !.valid = V]
<1>4. /\ state \in DiagnosisState /\ state.pc = "conflict_check"
      /\ state.revision = diag.revision /\ state.reviewed = diag.reviewed
      /\ state.feedback = diag.feedback
  BY <1>1, <1>3 DEF DiagnosisState
<1>5. Entries(Cardinality(Calls)) \o Entry("agent_done", "") \in Seq(Steps)
  <2>1. "" \in StepStatuses
    BY DEF StepStatuses
  <2> QED
    BY <1>1, <2>1, CallsAreFinite, EntriesAreSteps, AgentEntries, StepsJoin
<1> HIDE DEF state
<1>6. Return(state, Entries(Cardinality(Calls)) \o Entry("agent_done", ""), <<>>)
  BY <1>2 DEF state
<1> QED
  BY <1>1, <1>4, <1>5, <1>6, BeforeReportFits

LEMMA ConflictFits ==
    ASSUME DiagInv, ConflictCheck
    PROVE  DiagInv' /\ Events(out')
<1>1. /\ diag.pc = "conflict_check" /\ UNCHANGED <<agent, gateway>>
      /\ diag \in DiagnosisState
  BY DEF ConflictCheck, DiagInv
<1> DEFINE status(c) == IF Cardinality(diag.valid) < 2 THEN "skipped"
                        ELSE IF c THEN "attention" ELSE "ok"
           next(c) == IF c THEN "debate" ELSE "report"
           state(c) == [diag EXCEPT !.pc = next(c), !.conflict = c]
           entries(c) == Entry("conflict_checked", status(c))
                           \o IF c THEN <<>> ELSE Entry("debate_round", "skipped")
<1>2. PICK c \in BOOLEAN : Return(state(c), entries(c), <<>>)
  BY DEF ConflictCheck
<1>3. next(c) \in NodePcs /\ next(c) \in {"debate", "report"}
  BY DEF NodePcs
<1>4. entries(c) \in Seq(Steps)
  <2>1. status(c) \in StepStatuses /\ "skipped" \in StepStatuses
        /\ {"conflict_checked", "debate_round"} \subseteq StepTypes
    BY DEF StepStatuses, StepTypes
  <2> HIDE DEF status
  <2>2. Entry("conflict_checked", status(c)) \in Seq(Steps)
        /\ Entry("debate_round", "skipped") \in Seq(Steps)
    BY <2>1, EntryIsSteps
  <2> QED
    BY <2>2
<1> HIDE DEF next, entries
<1>5. /\ state(c) \in DiagnosisState /\ state(c).pc = next(c)
      /\ state(c).revision = diag.revision /\ state(c).reviewed = diag.reviewed
      /\ state(c).feedback = diag.feedback
  BY <1>1, <1>3 DEF DiagnosisState
<1> HIDE DEF state
<1> QED
  BY <1>1, <1>2, <1>3, <1>4, <1>5, BeforeReportFits

LEMMA DebateFits ==
    ASSUME DiagInv, Debate
    PROVE  DiagInv' /\ Events(out')
<1>1. /\ diag.pc = "debate" /\ UNCHANGED <<agent, gateway>> /\ diag \in DiagnosisState
  BY DEF Debate, DiagInv
<1>2. PICK text \in Texts :
        Return([ToReport EXCEPT !.consensus = text], Entry("debate_round", "ok"), <<>>)
  BY DEF Debate, ModelTexts, Texts
<1> DEFINE state == [ToReport EXCEPT !.consensus = text]
<1>3. "report" \in NodePcs
  BY DEF NodePcs
<1>4. /\ state \in DiagnosisState /\ state.pc = "report"
      /\ state.revision = diag.revision /\ state.reviewed = diag.reviewed
      /\ state.feedback = diag.feedback
  BY <1>1, <1>3 DEF ToReport, DiagnosisState
<1>5. Entry("debate_round", "ok") \in Seq(Steps)
  BY EntryIsSteps DEF StepTypes, StepStatuses
<1> HIDE DEF state
<1>6. Return(state, Entry("debate_round", "ok"), <<>>)
  BY <1>2 DEF state
<1> QED
  BY <1>1, <1>4, <1>5, <1>6, BeforeReportFits

LEMMA WriteReportFits ==
    ASSUME DiagInv, WriteReport
    PROVE  DiagInv' /\ Events(out')
<1>1. /\ diag.pc = "report" /\ UNCHANGED <<agent, gateway>> /\ diag \in DiagnosisState
  BY DEF WriteReport, DiagInv
<1>2. PICK text \in Texts :
        Return([diag EXCEPT !.pc = "reflection", !.draft = text], Entry("report", ""), <<>>)
  BY DEF WriteReport, ModelTexts, Texts
<1> DEFINE state == [diag EXCEPT !.pc = "reflection", !.draft = text]
<1>3. "reflection" \in NodePcs
  BY DEF NodePcs
<1>4. /\ state \in DiagnosisState /\ state.pc = "reflection"
      /\ state.revision = diag.revision /\ state.reviewed = diag.reviewed
      /\ state.mock = diag.mock /\ state.valid = diag.valid
  BY <1>1, <1>3 DEF DiagnosisState
<1>5. Entry("report", "") \in Seq(Steps)
  BY EntryIsSteps DEF StepTypes, StepStatuses
<1> HIDE DEF state
<1>6. Return(state, Entry("report", ""), <<>>)
  BY <1>2 DEF state
<1>7. /\ diag' \in DiagnosisState /\ Events(out') /\ diag'.pc = "reflection"
      /\ diag'.revision = diag.revision /\ diag'.reviewed = diag.reviewed
      /\ diag'.mock = diag.mock /\ diag'.valid = diag.valid
  BY <1>4, <1>5, <1>6, ReturnFits, EventsAlone
<1>8. ReviewFits'
  BY <1>1, <1>7 DEF DiagInv, ReviewFits
<1>9. AgentInv'
  BY <1>1, AgentInvStays DEF DiagInv
<1> QED
  BY <1>7, <1>8, <1>9 DEF DiagInv

\* The review completes the report: the draft, with what was found in it.
LEMMA FinishFits ==
    ASSUME DiagInv, diag.pc = "reflection", UNCHANGED <<agent, gateway>>,
           NEW issues \in BOOLEAN, NEW status \in {"skipped", "failed", "ok"},
           Finish(issues, status), issues => diag.revision = MaxRevision,
           status = "skipped" => diag.mock /\ diag.valid = {}
    PROVE  DiagInv' /\ Events(out')
<1>1. diag \in DiagnosisState /\ "complete" \in NodePcs
  BY DEF DiagInv, NodePcs
<1> DEFINE reviewed == IF status = "skipped" THEN diag.reviewed ELSE diag.reviewed + 1
           state == [diag EXCEPT !.pc = "complete", !.final = diag.draft, !.feedback = FALSE,
                                 !.issues = issues, !.reviewed = reviewed]
<1>2. reviewed \in Nat /\ diag.draft \in Texts /\ FALSE \in BOOLEAN
  BY <1>1 DEF DiagnosisState
<1>3. Return(state, Entry("reflection", status), <<>>)
  BY <1>1 DEF Finish, DiagnosisState
<1> HIDE DEF reviewed
<1>4. /\ state \in DiagnosisState /\ state.pc = "complete" /\ state.revision = diag.revision
      /\ state.reviewed = reviewed /\ state.final = state.draft /\ state.issues = issues
      /\ state.mock = diag.mock /\ state.valid = diag.valid
  BY <1>1, <1>2 DEF DiagnosisState
<1>5. Entry("reflection", status) \in Seq(Steps)
  BY EntryIsSteps DEF StepTypes, StepStatuses
<1> HIDE DEF state
<1>6. /\ diag' \in DiagnosisState /\ Events(out') /\ diag'.pc = "complete"
      /\ diag'.revision = diag.revision /\ diag'.reviewed = reviewed
      /\ diag'.final = diag'.draft /\ diag'.issues = issues
      /\ diag'.mock = diag.mock /\ diag'.valid = diag.valid
  BY <1>3, <1>4, <1>5, ReturnFits, EventsAlone
<1>7. /\ diag.reviewed = diag.revision /\ diag.revision <= MaxRevision /\ diag.revision \in Nat
      /\ diag.revision > 0 => ~ (diag.mock /\ diag.valid = {})
  BY <1>1 DEF DiagInv, ReviewFits, DiagnosisState
<1>8. ReportFits'
  <2>1. \/ diag'.reviewed = diag'.revision + 1
        \/ diag'.mock /\ diag'.valid = {} /\ diag'.revision = 0
    BY <1>6, <1>7 DEF reviewed
  <2> QED
    BY <1>6, <1>7, <2>1 DEF ReportFits
<1>9. ReviewFits' /\ AgentInv'
  BY <1>6, AgentInvStays DEF ReviewFits, DiagInv
<1> QED
  BY <1>6, <1>8, <1>9 DEF DiagInv

LEMMA ReflectFits ==
    ASSUME DiagInv, Reflect
    PROVE  DiagInv' /\ Events(out')
<1>1. /\ diag.pc = "reflection" /\ UNCHANGED <<agent, gateway>> /\ diag \in DiagnosisState
      /\ diag.reviewed = diag.revision /\ diag.revision <= MaxRevision
      /\ diag.revision \in Nat /\ diag.reviewed \in Nat
  BY DEF Reflect, DiagInv, ReviewFits, DiagnosisState
<1>2. CASE diag.mock /\ diag.valid = {}
  BY <1>1, <1>2, FinishFits DEF Reflect
<1>3. CASE ~ (diag.mock /\ diag.valid = {})
  <2>1. PICK issues \in BOOLEAN :
          IF issues /\ SentBack(diag.revision)
          THEN Return([diag EXCEPT !.pc = "report", !.feedback = TRUE, !.revision = @ + 1,
                                   !.reviewed = @ + 1], Entry("reflection", "attention"), <<>>)
          ELSE Finish(issues, IF issues THEN "failed" ELSE "ok")
    BY <1>3 DEF Reflect
  <2>2. CASE ~ (issues /\ SentBack(diag.revision))
    <3>1. Finish(issues, IF issues THEN "failed" ELSE "ok")
      BY <2>1, <2>2
    <3>2. issues => diag.revision = MaxRevision
      BY <1>1, <2>2, RevisionAssumption DEF SentBack
    <3> QED
      BY <1>1, <3>1, <3>2, FinishFits
  <2>3. CASE issues /\ SentBack(diag.revision)
    <3> DEFINE state == [diag EXCEPT !.pc = "report", !.feedback = TRUE, !.revision = @ + 1,
                                     !.reviewed = @ + 1]
    <3>1. diag.revision + 1 \in Nat /\ diag.reviewed + 1 \in Nat /\ "report" \in NodePcs
          /\ TRUE \in BOOLEAN /\ diag.revision + 1 <= MaxRevision
      BY <1>1, <2>3, RevisionAssumption DEF NodePcs, SentBack
    <3>2. /\ state \in DiagnosisState /\ state.pc = "report"
          /\ state.revision = diag.revision + 1 /\ state.reviewed = diag.reviewed + 1
          /\ state.mock = diag.mock /\ state.valid = diag.valid
      BY <1>1, <3>1 DEF DiagnosisState
    <3>3. Return(state, Entry("reflection", "attention"), <<>>)
      BY <2>1, <2>3
    <3>4. Entry("reflection", "attention") \in Seq(Steps)
      BY EntryIsSteps DEF StepTypes, StepStatuses
    <3> HIDE DEF state
    <3>5. /\ diag' \in DiagnosisState /\ Events(out') /\ diag'.pc = "report"
          /\ diag'.revision = diag.revision + 1 /\ diag'.reviewed = diag.reviewed + 1
          /\ diag'.mock = diag.mock /\ diag'.valid = diag.valid
      BY <3>2, <3>3, <3>4, ReturnFits, EventsAlone
    <3>6. ReviewFits'
      BY <1>1, <1>3, <3>1, <3>5 DEF ReviewFits
    <3>7. AgentInv'
      BY <1>1, AgentInvStays DEF DiagInv
    <3> QED
      BY <3>5, <3>6, <3>7 DEF DiagInv
  <2> QED
    BY <2>2, <2>3
<1> QED
  BY <1>2, <1>3

\* What the diagnosis may yield: events, an exception, or the one report it ends with.
YieldFits ==
    /\ out \in Seq(Items)
    /\ (\E i \in DOMAIN out : IsEnd(out[i])) => diag.pc = "over" /\ ReportFits

LEMMA EventsFit == ASSUME Events(out') PROVE YieldFits'
  BY DEF Events, YieldFits, IsEvent, IsEnd

LEMMA DiagOver ==
    ASSUME DiagInv, diag' = [diag EXCEPT !.pc = "over"], UNCHANGED <<agent, gateway>>
    PROVE  DiagInv' /\ diag'.pc = "over" /\ (ReportFits => ReportFits')
<1>1. diag \in DiagnosisState /\ "over" \in NodePcs
  BY DEF DiagInv, NodePcs
<1>2. /\ diag' \in DiagnosisState /\ diag'.pc = "over" /\ diag'.revision = diag.revision
      /\ diag'.reviewed = diag.reviewed /\ diag'.final = diag.final /\ diag'.draft = diag.draft
      /\ diag'.issues = diag.issues /\ diag'.mock = diag.mock /\ diag'.valid = diag.valid
  BY <1>1 DEF DiagnosisState
<1>3. ReviewFits' /\ (ReportFits => ReportFits')
  BY <1>2 DEF ReviewFits, ReportFits
<1>4. AgentInv'
  BY AgentInvStays DEF DiagInv
<1> QED
  BY <1>2, <1>3, <1>4 DEF DiagInv

LEMMA FailFits ==
    ASSUME DiagInv, Fail, UNCHANGED <<agent, gateway>>
    PROVE  DiagInv' /\ YieldFits'
<1>1. diag' = [diag EXCEPT !.pc = "over"] /\ out' = <<Raised>>
  BY DEF Fail
<1>2. Raised \in Items /\ ~ IsEnd(Raised)
  <2>1. "raise" \in ItemTypes /\ "" \in Labels /\ 0 \in Nat
    BY DEF ItemTypes, Broken, Labels
  <2> QED
    BY <2>1, ItemsAreItems DEF Raised, IsEnd, Item, Ends
<1>3. YieldFits'
  BY <1>1, <1>2 DEF YieldFits
<1> QED
  BY <1>1, <1>3, DiagOver

LEMMA CompleteFits ==
    ASSUME DiagInv, Complete
    PROVE  DiagInv' /\ YieldFits'
<1>1. /\ diag' = [diag EXCEPT !.pc = "over"] /\ out' = <<Event("result", diag.final), Eof>>
      /\ UNCHANGED <<agent, gateway>> /\ ReportFits
  BY DEF Complete, DiagInv
<1>2. Event("result", diag.final) \in Items /\ Eof \in Items
  <2>1. /\ "result" \in ItemTypes /\ "eof" \in ItemTypes /\ "" \in Labels /\ 0 \in Nat
        /\ Texts \subseteq Labels
    BY DEF ItemTypes, Ends, Broken, Labels
  <2>2. diag.final \in Texts
    BY DEF DiagInv, DiagnosisState
  <2> QED
    BY <2>1, <2>2, ItemsAreItems DEF Event, Eof
<1>3. out' \in Seq(Items)
  BY <1>1, <1>2, ItemsInSequence
<1>4. DiagInv' /\ diag'.pc = "over" /\ ReportFits'
  BY <1>1, DiagOver
<1> QED
  BY <1>3, <1>4 DEF YieldFits

LEMMA GraphNodeFits ==
    ASSUME DiagInv, YieldFits, out = <<>>, GraphNode
    PROVE  DiagInv' /\ YieldFits'
<1>1. CASE FactoryFails \/ AgentFails
  BY <1>1, FailFits DEF FactoryFails, AgentFails
<1>2. CASE Route \/ DirectSkipped \/ DirectEnds \/ ParallelEnds \/ ConflictCheck \/ Debate
             \/ WriteReport \/ Reflect
  BY <1>2, RouteFits, DirectFits, ParallelFits, ConflictFits, DebateFits, WriteReportFits,
     ReflectFits, EventsFit
<1>3. CASE ChainGoesOn \/ ChainEnds
  <2>1. DiagInv' /\ (Events(out') \/ UNCHANGED out)
    BY <1>3, ChainFits
  <2>2. Events(out') \/ out' = <<>>
    BY <2>1
  <2> QED
    BY <2>1, <2>2, EventsFit, EventsAlone
<1>4. CASE DirectStarts \/ ChainStarts \/ ParallelStarts
  <2>1. PICK a \in Agents : Start(a)
    <3>1. ChainStarts => Head(diag.todo) \in Agents
      BY DEF ChainStarts, DiagInv, DiagnosisState
    <3> QED
      BY <1>4, <3>1 DEF DirectStarts, ChainStarts, ParallelStarts
  <2>2. DiagInv' /\ UNCHANGED <<diag, out>>
    BY <2>1, StartNodeFits
  <2>3. out' = <<>>
    BY <2>2
  <2> QED
    BY <2>2, <2>3, EventsFit, EventsAlone
<1>5. CASE Complete
  BY <1>5, CompleteFits
<1> QED
  BY <1>1, <1>2, <1>3, <1>4, <1>5 DEF GraphNode

\* A step of an agent or of a worker leaves the diagnosis and what it has yielded.
LEMMA AgentsFit ==
    ASSUME DiagInv, NEW a \in Agents, AgentSteps(a) \/ WorkerSteps(a), UNCHANGED diag
    PROVE  DiagInv'
<1>1. AgentInv'
  BY AgentStepFits DEF DiagInv
<1>2. ReviewFits' /\ (diag.pc = "complete" => ReportFits')
  BY DEF DiagInv, ReviewFits, ReportFits
<1> QED
  BY <1>1, <1>2 DEF DiagInv

LEMMA GraphInitFits == GraphInit => DiagInv
<1> SUFFICES ASSUME GraphInit PROVE DiagInv
  OBVIOUS
<1>1. PICK mock \in BOOLEAN : diag = NewDiagnosis(mock)
  BY DEF GraphInit
<1>2. gateway = [a \in Agents |-> <<>>] /\ agent = [a \in Agents |-> Idle]
  BY DEF GraphInit, AgentInit, GatewayInit
<1>3. Idle \in AgentState /\ Idle.count = 0 /\ Idle.pc = "idle" /\ Idle.limit = 0
  BY Zeros, Limited DEF Idle, AgentState, AgentPcs
<1>4. AgentTypeOK /\ GatewayTypeOK
  BY <1>2, <1>3 DEF AgentTypeOK, GatewayTypeOK
<1>5. \A a \in Agents : gateway[a] = <<>> /\ agent[a] = Idle
  BY <1>2
<1>6. GatewayInv
  BY <1>4, <1>5 DEF GatewayInv
<1>7. \A a \in Agents : AgentFits(a)
  BY <1>3, <1>5 DEF AgentFits, Waiting
<1>8. AgentInv
  BY <1>4, <1>5, <1>6, <1>7 DEF AgentInv
<1>9. diag \in DiagnosisState
  <2>1. /\ 0 \in Nat /\ {} \in SUBSET Agents /\ <<>> \in Seq(Agents) /\ <<>> \in Seq(Steps)
        /\ "route" \in NodePcs /\ "none" \in Texts /\ "none" \in Targets /\ FALSE \in BOOLEAN
    BY DEF NodePcs, Texts, Targets
  <2> QED
    BY <1>1, <2>1 DEF NewDiagnosis, DiagnosisState, Steps
<1>10. diag.pc = "route" /\ diag.revision = 0 /\ diag.reviewed = 0 /\ diag.feedback = FALSE
  BY <1>1 DEF NewDiagnosis
<1> QED
  BY <1>8, <1>9, <1>10 DEF DiagInv, ReviewFits

-----------------------------------------------------------------------------
(* The Run *)

LEMMA KernelStays ==
    ASSUME KernelInv, UNCHANGED mainVars
    PROVE  KernelInv'
<1>1. UNCHANGED <<kernel, material, now, cancel>>
  BY DEF mainVars
<1>2. Begun' = Begun /\ Missing' = Missing
  BY <1>1 DEF Begun, Missing
<1> QED
  BY <1>1, <1>2 DEF KernelInv, CancelFits, KernelTypeOK, DeliveriesPassValidation

LEMMA DiagStays ==
    ASSUME DiagInv, UNCHANGED graphVars
    PROVE  DiagInv'
<1>1. UNCHANGED <<gateway, agent, diag>>
  BY DEF graphVars
<1> QED
  BY <1>1, AgentInvStays DEF DiagInv, ReviewFits, ReportFits

LEMMA GuardStays ==
    ASSUME GuardInv, UNCHANGED <<stream, read>>, out' \in Seq(Items)
    PROVE  GuardInv'
<1>1. Over' = Over /\ Told' = Told
  BY DEF Over, Told
<1>2. OneEndLast' = OneEndLast /\ GuardReadsOn' = GuardReadsOn /\ StreamType' = StreamType
  BY <1>1 DEF OneEndLast, GuardReadsOn, StreamType
<1> QED
  BY <1>1, <1>2 DEF GuardInv

LEMMA ReadingKeepsEnds ==
    ASSUME GuardInv, EndFits, GuardReads
    PROVE  EndFits'
<1>1. /\ out # <<>> /\ out \in Seq(Items) /\ stream' = Guard(Head(out)) /\ StreamType
      /\ stream.verdict = "none" /\ UNCHANGED <<kind, graphVars>>
  BY DEF GuardReads, GuardInv, Over
<1>2. UNCHANGED diag
  BY <1>1 DEF graphVars
<1>3. ~ IsEnd(NoItem)
  BY DEF IsEnd, NoItem, Item, Ends
<1>4. \A i \in DOMAIN out' : \E j \in DOMAIN out : out'[i] = out[j]
  <2>1. \A i \in DOMAIN Tail(out) : Tail(out)[i] = out[i + 1] /\ i + 1 \in DOMAIN out
    BY <1>1
  <2> QED
    BY <2>1 DEF GuardReads
<1>5. IsEnd(stream'.held) => IsEnd(stream.held) \/ IsEnd(out[1])
  <2>1. \A item, verdict : End(item, verdict).held = NoItem
    BY <1>1 DEF End, StreamType
  <2>2. \A item : [stream EXCEPT !.held = item].held = item
    BY <1>1 DEF StreamType
  <2>3. \A item : Pass(item).held = stream.held
    BY <1>1 DEF Pass, StreamType
  <2>4. Head(out) = out[1]
    BY <1>1
  <2> QED
    BY <1>1, <1>3, <2>1, <2>2, <2>3, <2>4, GuardCases
<1>6. stream'.verdict = "ended" => IsEnd(stream.held)
  <2>1. \A item, verdict : End(item, verdict).verdict = verdict
    BY <1>1 DEF End, StreamType
  <2>2. \A item : [stream EXCEPT !.held = item].verdict = "none" /\ Pass(item).verdict = "none"
    BY <1>1 DEF Pass, StreamType
  <2>3. stream.held # NoItem => IsEnd(stream.held)
    BY <1>1 DEF GuardInv, GuardReadsOn, Over
  <2>4. \/ stream.held # NoItem
        \/ \E item : \E verdict \in {"raised", "protocol"} : stream' = End(item, verdict)
        \/ stream' = [stream EXCEPT !.held = Head(out)]
        \/ stream' = Pass(Head(out))
    BY <1>1, GuardCases
  <2>5. CASE stream.held # NoItem
    BY <2>3, <2>5
  <2>6. CASE \E item : \E verdict \in {"raised", "protocol"} : stream' = End(item, verdict)
    BY <2>1, <2>6
  <2>7. CASE stream' = [stream EXCEPT !.held = Head(out)] \/ stream' = Pass(Head(out))
    BY <2>2, <2>7
  <2> QED
    BY <2>4, <2>5, <2>6, <2>7
<1>7. 1 \in DOMAIN out
  BY <1>1
<1>8. EndUnderWay' => EndUnderWay
  BY <1>4, <1>5, <1>6, <1>7 DEF EndUnderWay
<1> QED
  BY <1>1, <1>2, <1>8 DEF EndFits, ReportFits

LEMMA DiagnosisFits ==
    ASSUME RunInv, Diagnosis
    PROVE  RunInv'
<1>1. /\ kind = "diagnosis" /\ GraphSteps /\ UNCHANGED <<kind, mainVars, stream, read>>
      /\ DiagInv /\ YieldFits
  BY DEF Diagnosis, RunInv, GuardInv, EndFits, EndUnderWay, YieldFits
<1>2. CASE out = <<>> /\ GraphNode
  <2>1. DiagInv' /\ YieldFits'
    BY <1>1, <1>2, GraphNodeFits
  <2>2. diag.pc # "over"
    BY <1>2 DEF GraphNode, FactoryFails, Route, DirectSkipped, DirectStarts, DirectEnds, ChainStarts,
                ChainGoesOn, ChainEnds, ParallelStarts, ParallelEnds, AgentFails, ConflictCheck,
                Debate, WriteReport, Reflect, Complete
  <2>3. ~ IsEnd(stream.held) /\ stream.verdict # "ended"
    BY <1>1, <2>2 DEF RunInv, EndFits, EndUnderWay
  <2>4. EndFits'
    BY <1>1, <2>1, <2>3 DEF EndFits, EndUnderWay, YieldFits
  <2>5. GuardInv'
    BY <1>1, <2>1, GuardStays DEF RunInv, YieldFits
  <2> QED
    BY <1>1, <2>1, <2>4, <2>5, KernelStays DEF RunInv
<1>3. CASE \E a \in Agents : AgentSteps(a) /\ UNCHANGED <<diag, out>>
  <2>1. DiagInv' /\ UNCHANGED <<diag, out>>
    BY <1>1, <1>3, AgentsFit
  <2>2. EndFits'
    BY <1>1, <2>1 DEF RunInv, EndFits, EndUnderWay, ReportFits
  <2>3. GuardInv'
    BY <1>1, <2>1, GuardStays DEF RunInv, GuardInv
  <2> QED
    BY <1>1, <2>1, <2>2, <2>3, KernelStays DEF RunInv
<1> QED
  BY <1>1, <1>2, <1>3 DEF GraphSteps

LEMMA OthersFit ==
    ASSUME RunInv, Other
    PROVE  RunInv'
<1>1. UNCHANGED <<kind, graphVars, mainVars, stream, read>> /\ kind = "other"
  BY DEF Other
<1>2. OtherItems \subseteq Items
  <2>1. /\ "agent_start" \in ItemTypes /\ "delivery" \in ItemTypes /\ "failure" \in ItemTypes
        /\ "unknown" \in ItemTypes /\ "raise" \in ItemTypes /\ "eof" \in ItemTypes /\ 0 \in Nat
        /\ "" \in Labels /\ "answer" \in Labels /\ "raised" \in Labels /\ "coded" \in Labels
    BY DEF ItemTypes, StepTypes, Ends, Broken, Labels, Deliveries, Failures
  <2>2. /\ Item("agent_start", "", 0) \in Items /\ Item("delivery", "answer", 0) \in Items
        /\ Item("failure", "raised", 0) \in Items
    BY <2>1, ItemsAreItems
  <2>3. /\ Item("unknown", "", 0) \in Items /\ Item("raise", "coded", 0) \in Items
        /\ Item("raise", "", 0) \in Items /\ Eof \in Items
    BY <2>1, ItemsAreItems DEF Eof
  <2> QED
    BY <2>2, <2>3 DEF OtherItems
<1>3. out' \in Seq(Items)
  BY <1>2 DEF Other
<1>4. EndFits'
  BY <1>1 DEF EndFits
<1> QED
  BY <1>1, <1>3, <1>4, KernelStays, DiagStays, GuardStays DEF RunInv

LEMMA RunStepFits == RunInv /\ [Next]_vars => RunInv'
<1> SUFFICES ASSUME RunInv, [Next]_vars PROVE RunInv'
  OBVIOUS
<1>1. CASE GuardReads
  BY <1>1, ReadsFit, ReadingKeepsEnds, KernelStays, DiagStays DEF GuardReads, RunInv
<1>2. CASE MainAgent
  <2>1. UNCHANGED <<kind, graphVars, stream, read>> /\ KernelNode /\ kind = "main_agent"
    BY <1>2 DEF MainAgent
  <2>2. KernelInv' /\ out' \in Seq(Items)
    BY <2>1, KernelNodeFits DEF RunInv
  <2> QED
    BY <2>1, <2>2, DiagStays, GuardStays DEF RunInv, EndFits
<1>3. CASE MainAgentWaits
  <2>1. UNCHANGED <<kind, graphVars, stream, read>> /\ (Cancel \/ Tick)
        /\ kind = "main_agent"
    BY <1>3 DEF MainAgentWaits
  <2>2. KernelInv' /\ out' \in Seq(Items)
    BY <2>1, WaitingFits DEF RunInv, GuardInv
  <2> QED
    BY <2>1, <2>2, DiagStays, GuardStays DEF RunInv, EndFits
<1>4. CASE Diagnosis
  BY <1>4, DiagnosisFits
<1>5. CASE ToolThreads
  <2>1. UNCHANGED <<kind, mainVars, stream, read>>
    BY <1>5 DEF ToolThreads
  <2>2. PICK a \in Agents : WorkerSteps(a) /\ UNCHANGED <<diag, out>>
    BY <1>5 DEF ToolThreads, Workers
  <2>3. DiagInv'
    BY <2>2, AgentsFit DEF RunInv
  <2>4. EndFits'
    BY <2>1, <2>2 DEF RunInv, EndFits, EndUnderWay, ReportFits
  <2>5. GuardInv'
    BY <2>1, <2>2, GuardStays DEF RunInv, GuardInv
  <2> QED
    BY <2>1, <2>3, <2>4, <2>5, KernelStays DEF RunInv
<1>6. CASE Other
  BY <1>6, OthersFit
<1>7. CASE UNCHANGED vars
  <2>1. UNCHANGED <<kind, graphVars, mainVars, out, stream, read>>
    BY <1>7 DEF vars
  <2>2. UNCHANGED diag
    BY <2>1 DEF graphVars
  <2>3. EndFits'
    BY <2>1, <2>2 DEF RunInv, EndFits, EndUnderWay, ReportFits
  <2>4. GuardInv'
    BY <2>1, GuardStays DEF RunInv, GuardInv
  <2> QED
    BY <2>1, <2>3, <2>4, KernelStays, DiagStays DEF RunInv
<1> QED
  BY <1>1, <1>2, <1>3, <1>4, <1>5, <1>6, <1>7 DEF Next

LEMMA RunInitFits == Init => RunInv
<1> SUFFICES ASSUME Init PROVE RunInv
  OBVIOUS
<1>1. /\ out = <<>> /\ read = <<>> /\ kind \in Kinds
      /\ stream = [passed |-> <<>>, held |-> NoItem, verdict |-> "none"]
  BY DEF Init
<1>2. KernelInv /\ DiagInv
  BY KernelInitFits, GraphInitFits DEF Init
<1>3. NoItem \in Items /\ ~ IsEnd(NoItem)
  <2>1. "none" \in ItemTypes /\ "" \in Labels /\ 0 \in Nat
    BY DEF ItemTypes, Labels
  <2> QED
    BY <2>1, ItemsAreItems DEF NoItem, IsEnd, Item, Ends
<1>4. StreamType /\ ~ Over /\ stream.passed = <<>> /\ stream.held = NoItem
  BY <1>1, <1>3 DEF StreamType, Over
<1>5. GuardReadsOn
  BY <1>1, <1>4 DEF GuardReadsOn
<1>6. GuardInv
  BY <1>1, <1>4, <1>5 DEF GuardInv
<1>7. EndFits
  BY <1>1, <1>3 DEF EndFits, EndUnderWay
<1> QED
  BY <1>1, <1>2, <1>6, <1>7 DEF RunInv

LEMMA RunInvHolds == Spec => []RunInv
<1>1. Init => RunInv
  BY RunInitFits
<1>2. RunInv /\ [Next]_vars => RunInv'
  BY RunStepFits
<1> QED
  BY <1>1, <1>2, PTL DEF Spec

-----------------------------------------------------------------------------
(* What every Run promises *)

\* The guard holds nothing else than what it has read: the stream is well formed.
LEMMA StreamOf == RunInv => StreamIsGuarded
<1> SUFFICES ASSUME RunInv PROVE StreamIsGuarded
  OBVIOUS
<1>1. GatewayTypeOK /\ AgentTypeOK
  BY DEF RunInv, DiagInv, AgentInv, GatewayInv
<1>2. KernelTypeOK /\ diag \in DiagnosisState /\ kind \in Kinds
  BY DEF RunInv, KernelInv, DiagInv
<1>3. TypeOK
  BY <1>1, <1>2 DEF TypeOK, RunInv, GuardInv, StreamType
<1>4. OneEndLast
  <2>1. CASE Over
    BY <2>1 DEF RunInv, GuardInv
  <2>2. CASE ~ Over
    <3>1. GuardReadsOn /\ stream.passed \in Seq(Items) /\ read \in Seq(Items)
          /\ Told = Len(stream.passed)
      BY <2>2 DEF RunInv, GuardInv, StreamType, Told
    <3>2. \A i \in DOMAIN stream.passed : ~ IsEnd(stream.passed[i])
      BY <3>1 DEF GuardReadsOn, IsEvent, IsEnd
    <3>3. Told <= Len(read)
      BY <3>1 DEF GuardReadsOn
    <3>4. \A i \in 1 .. Told : IsEvent(read[i]) /\ stream.passed[i] = read[i]
      BY <3>1 DEF GuardReadsOn
    <3>5. Told < Len(read) => ~ IsEvent(read[Told + 1])
      BY <3>1 DEF GuardReadsOn, IsEvent, IsEnd
    <3> QED
      BY <2>2, <3>2, <3>3, <3>4, <3>5 DEF OneEndLast
  <2> QED
    BY <2>1, <2>2
<1> QED
  BY <1>3, <1>4 DEF StreamIsGuarded

\* guard_run_stream, for every executor: whatever is yielded and whenever it raises, the service
\* is told the events before the first item that is none, in their order, then exactly one end,
\* which is the executor's own only if the executor stopped right after it.
THEOREM EveryStreamIsGuarded == Spec => []StreamIsGuarded
  BY RunInvHolds, StreamOf, PTL

LEMMA BudgetsOf == RunInv => BudgetsHold /\ CancelStopsTheKernel /\ DeliveriesPassValidation
                               /\ ClosedCallsAreHonest
  BY KernelInvPromises, AgentInvPromises DEF RunInv, DiagInv, BudgetsHold

\* main_agent_budget.py and react_graph.py: no call of the model or of a tool is given more time
\* than the Run has left, and no agent starts more calls than its limit, whatever is asked for.
THEOREM BudgetsAlwaysHold == Spec => []BudgetsHold
  BY RunInvHolds, BudgetsOf, PTL

\* main_agent_react.py: after a cancel at most one more call is begun, and when the cancel came
\* before a decision or while a call was waited for, none is, and nothing is delivered.
THEOREM CancelAlwaysStopsTheKernel == Spec => []CancelStopsTheKernel
  BY RunInvHolds, BudgetsOf, PTL

\* What the kernel delivers has passed its validation: material is asked for only where it
\* lacks, a comparison has all of it and a call behind it, and knowledge was loaded.
THEOREM DeliveriesAreValidated == Spec => []DeliveriesPassValidation
  BY RunInvHolds, BudgetsOf, PTL

\* graph.py reflection: the report a diagnosis returns is its last draft, reviewed after it was
\* written, and clean unless the revisions are used up.
THEOREM FinalReportsWereReviewed == Spec => []FinalReportWasReviewed
<1>1. RunInv => FinalReportWasReviewed
  BY DEF RunInv, EndFits, EndUnderWay, ReportFits, FinalReportWasReviewed, DiagnosisDone
<1> QED
  BY <1>1, RunInvHolds, PTL

LEMMA LateStaysClosed ==
    ASSUME RunInv, [Next]_vars
    PROVE  [\A a \in Agents : LateAnswersAreClosed(a)]_gateway
<1>1. CASE UNCHANGED gateway
  BY <1>1
<1>2. ASSUME NEW a \in Agents, AgentSteps(a) \/ WorkerSteps(a)
      PROVE  \A b \in Agents : LateAnswersAreClosed(b)
  BY <1>2, AgentStepFits DEF RunInv, DiagInv
<1>3. CASE Diagnosis
  <2>1. GraphNode => UNCHANGED gateway
    BY DEF GraphNode, FactoryFails, Route, DirectSkipped, DirectStarts, DirectEnds, ChainStarts,
           ChainGoesOn, ChainEnds, ParallelStarts, ParallelEnds, AgentFails, ConflictCheck,
           Debate, WriteReport, Reflect, Complete, Start
  <2> QED
    BY <1>1, <1>2, <1>3, <2>1 DEF Diagnosis, GraphSteps
<1>4. CASE ToolThreads
  BY <1>2, <1>4 DEF ToolThreads, Workers
<1> QED
  BY <1>1, <1>3, <1>4 DEF Next, GuardReads, MainAgent, MainAgentWaits, Other, vars, graphVars

\* tool_gateway.py: what is reported of a call is what its future proves, and nothing a tool
\* does after the wait was over changes it.
THEOREM CallsStayHonest == Spec => CallsAreHonest
<1>1. RunInv /\ RunInv' /\ [Next]_vars => [\A a \in Agents : LateAnswersAreClosed(a)]_gateway
  BY LateStaysClosed
<1>2. Spec => []ClosedCallsAreHonest
  BY RunInvHolds, BudgetsOf, PTL
<1>3. Spec => LateAnswersStayClosed
  BY <1>1, RunInvHolds, PTL DEF Spec, LateAnswersStayClosed
<1> QED
  BY <1>2, <1>3 DEF CallsAreHonest

-----------------------------------------------------------------------------
(* What a client is shown: RunView, over the same kernel.  What was told of *)
(* the kernel is in its events, and each event tells what happened.         *)

\* What is known of the kernel where it stands: no time has passed before its first decision,
\* a decision precedes every end but that by a cancel, and a call is of what was decided.
StageFits ==
    /\ kernel.pc = "start" => now = 0 /\ kernel.decisions = 0 /\ kernel.loaded = <<>>
    /\ kernel.pc = "decide" /\ kernel.decisions = 0 => now = 0
    /\ kernel.pc \in {"thinking", "dispatch", "calling"} => kernel.decisions > 0
    /\ kernel.pc = "ended" /\ ~kernel.canceled =>
         kernel.decisions > 0 /\ (kernel.failure # "none" \/ kernel.delivery # "none")
    /\ kernel.pc = "calling" => kernel.decision.kind = "invoke_capability" /\ kernel.decision.id \in Execution
    /\ kernel.canceled => cancelled
    /\ kernel.delivery = "answer_with_knowledge" => kernel.loaded # <<>>
    /\ kernel.delivery = "comparison" =>
         kernel.decision.kind = "invoke_capability" /\ kernel.decision.id \in Execution

\* The uses of capabilities in a state k of the kernel, by the decision that asked for them
Loaded(k, id) == \E j \in DOMAIN k.loaded : k.loaded[j] = id
WasUsed(k, decision, id) ==
    \/ decision = "load_skill" /\ Loaded(k, id)
    \/ decision = "invoke_capability" /\ k.delivery = "comparison" /\ id = k.decision.id

\* An item on its way from the kernel: a signal of a use is about the decision at hand.
SignalFits(k, item) ==
    /\ item.label \in RouteLabels /\ item.step \in 1 .. MaxDecisions
    /\ item.label \in {"load_skill", "invoke_capability"} =>
         k.decision.kind = item.label /\ WasUsed(k, item.label, k.decision.id)
ItemFits(k, item) ==
    /\ item.type \in {"agent_start", "tool_invoked", "route_decided", "agent_done"} \cup StreamEnds
    /\ item.type = "route_decided" => k.pc # "over" /\ SignalFits(k, item)
    /\ item.type = "agent_done" =>
         k.pc = "over" /\ item.label \in DoneOutcomes /\ item.step = k.decisions /\ item.step > 0
    /\ item.type = "delivery" => k.delivery # "none"
    /\ item.type \in StreamEnds => k.pc = "over"

\* Only ends follow the outcome.
OutFits ==
    /\ out \in Seq(Items)
    /\ \A i \in DOMAIN out : ItemFits(kernel, out[i])
    /\ \A i, j \in DOMAIN out : out[i].type = "agent_done" /\ i # j => i < j /\ out[j].type \in StreamEnds

Signals(decision, id) ==
    \E i \in DOMAIN out : /\ out[i].type = "route_decided" /\ out[i].label = decision
                          /\ kernel.decision.kind = decision /\ kernel.decision.id = id
DoneOnItsWay == \E i \in DOMAIN out : out[i].type = "agent_done"

\* What the kernel has done stays done.
GoesOn ==
    /\ kernel.decisions <= kernel'.decisions
    /\ \A id : Loaded(kernel, id) => Loaded(kernel', id)
    /\ kernel.delivery # "none" =>
         /\ kernel'.delivery = kernel.delivery /\ kernel'.decision = kernel.decision
         /\ kernel'.loaded = kernel.loaded

\* A node tells what it does.
NodeFits ==
    /\ StageFits' /\ OutFits' /\ GoesOn
    /\ \A d, id : WasUsed(kernel', d, id) => WasUsed(kernel, d, id) \/ Signals(d, id)'
    /\ \A i \in DOMAIN out' : out'[i].type = "route_decided" =>
         out'[i].step <= kernel'.decisions \/ kernel'.pc = "ended"
    /\ kernel.pc = "ended" => kernel'.pc = "over" /\ (kernel'.canceled \/ DoneOnItsWay')

LEMMA OfOne == ASSUME NEW a PROVE DOMAIN <<a>> = {1} /\ <<a>>[1] = a
  OBVIOUS
LEMMA OfTwo ==
    ASSUME NEW a, NEW b PROVE DOMAIN <<a, b>> = {1, 2} /\ <<a, b>>[1] = a /\ <<a, b>>[2] = b
  OBVIOUS
LEMMA OfThree ==
    ASSUME NEW a, NEW b, NEW c
    PROVE  DOMAIN <<a, b, c>> = {1, 2, 3} /\ <<a, b, c>>[1] = a /\ <<a, b, c>>[2] = b /\ <<a, b, c>>[3] = c
  OBVIOUS

\* A signal that tells no use fits any state, and so does that of a tool.
LEMMA SignalsFit ==
    /\ \A k : \A label \in RouteLabels, step \in 1 .. MaxDecisions :
         label \notin {"load_skill", "invoke_capability"} /\ k.pc # "over" =>
           ItemFits(k, Item("route_decided", label, step))
    /\ \A k, label, step : ItemFits(k, Item("tool_invoked", label, step))
    /\ \A k, label, step : ItemFits(k, Item("agent_start", label, step))
  BY DEF ItemFits, SignalFits, Item, StreamEnds

\* A node of a run that is not over and delivers and loads nothing
LEMMA QuietFits ==
    ASSUME KernelInv, StageFits', out' \in Seq(Items),
           kernel.pc \notin {"ended", "over"}, kernel.decisions <= kernel'.decisions,
           kernel'.loaded = kernel.loaded, kernel'.delivery = kernel.delivery,
           \A i \in DOMAIN out' : /\ ItemFits(kernel', out'[i]) /\ out'[i].type # "agent_done"
                                  /\ out'[i].type = "route_decided" =>
                                       out'[i].step <= kernel'.decisions \/ kernel'.pc = "ended"
    PROVE  NodeFits
<1>1. kernel.delivery = "none"
  BY DEF KernelInv
<1>2. GoesOn
  BY <1>1 DEF GoesOn, Loaded
<1>3. \A d, id : WasUsed(kernel', d, id) => WasUsed(kernel, d, id)
  BY <1>1 DEF WasUsed, Loaded
<1>4. OutFits'
  BY DEF OutFits
<1> QED
  BY <1>2, <1>3, <1>4 DEF NodeFits

LEMMA StepRange ==
    ASSUME KernelInv, kernel.decisions > 0
    PROVE  kernel.step \in 1 .. MaxDecisions /\ kernel.step = kernel.decisions /\ kernel.decisions \in Nat
  BY KernelStateOf, Budget DEF KernelInv, KernelState

\* The graph ends with a failure and its signal.
LEMMA FailedTells ==
    ASSUME KernelInv, KernelInv', StageFits, NEW failure \in Failures,
           NEW label \in RouteLabels \ {"load_skill", "invoke_capability"},
           NEW signal, signal = RouteSignal(label), signal \in Items,
           kernel.pc \in {"thinking", "dispatch", "calling"},
           kernel' \in KernelState, kernel'.pc = "ended", kernel'.failure = failure,
           kernel'.decisions = kernel.decisions, kernel'.loaded = kernel.loaded,
           kernel'.delivery = kernel.delivery, kernel'.canceled = kernel.canceled,
           out' = <<signal>>, UNCHANGED <<now, cancel>>
    PROVE  NodeFits
<1>1. kernel.decisions > 0 /\ kernel.delivery = "none" /\ failure # "none"
  BY DEF StageFits, KernelInv, Failures
<1>2. StageFits'
  BY <1>1 DEF StageFits, cancelled
<1>3. kernel.step \in 1 .. MaxDecisions /\ kernel.decisions \in Nat
  BY <1>1, StepRange
<1>4. ItemFits(kernel', signal)
  BY <1>3, SignalsFit DEF RouteSignal
<1>5. signal.type = "route_decided"
  BY DEF RouteSignal, Item
<1>6. \A i \in DOMAIN out' : out'[i] = signal
  BY OfOne
<1>7. out' \in Seq(Items)
  BY ItemsInSequence
<1> QED
  BY <1>1, <1>2, <1>3, <1>4, <1>5, <1>6, <1>7, QuietFits

LEMMA FailedNode ==
    ASSUME KernelInv, StageFits, NEW failure \in Failures,
           NEW label \in RouteLabels \ {"load_skill", "invoke_capability"},
           Failed(failure, label), kernel.pc \in {"thinking", "dispatch", "calling"},
           UNCHANGED <<material, now, cancel>>
    PROVE  NodeFits
<1>1. KernelInv'
  BY FailedFits
<1>2. PICK signal \in Items : signal = RouteSignal(label)
  BY SignalsAreItems
<1>3. kernel' = [kernel EXCEPT !.pc = "ended", !.failure = failure] /\ out' = <<signal>>
  BY <1>2 DEF Failed, FailWith
<1>4. /\ kernel' \in KernelState /\ kernel'.pc = "ended" /\ kernel'.failure = failure
      /\ kernel'.decisions = kernel.decisions /\ kernel'.loaded = kernel.loaded
      /\ kernel'.delivery = kernel.delivery /\ kernel'.canceled = kernel.canceled
  BY <1>3, KernelStateOf DEF KernelState, Pcs
<1> QED
  BY <1>1, <1>2, <1>3, <1>4, FailedTells

LEMMA StoppedNode ==
    ASSUME KernelInv, StageFits, StopCancelled(kernel), cancelled,
           kernel.pc \notin {"ended", "over"}, UNCHANGED <<material, now, cancel>>
    PROVE  NodeFits
<1>1. kernel' = [kernel EXCEPT !.pc = "ended", !.canceled = TRUE] /\ out' = <<>>
  BY DEF StopCancelled
<1>2. /\ kernel'.pc = "ended" /\ kernel'.canceled /\ kernel'.decisions = kernel.decisions
      /\ kernel'.loaded = kernel.loaded /\ kernel'.delivery = kernel.delivery
      /\ kernel.decisions \in Nat
  BY <1>1, KernelStateOf DEF KernelState
<1>3. kernel.delivery = "none"
  BY DEF KernelInv
<1>4. StageFits'
  BY <1>2, <1>3 DEF StageFits, cancelled
<1>5. out' \in Seq(Items) /\ DOMAIN out' = {}
  BY <1>1
<1> QED
  BY <1>2, <1>4, <1>5, QuietFits

LEMMA DecideTells ==
    ASSUME KernelInv, StageFits, Decide
    PROVE  NodeFits
<1>1. UNCHANGED <<material, now, cancel>> /\ kernel.pc = "decide" /\ KernelInv' /\ out' \in Seq(Items)
  BY DecideFits DEF Decide
<1>2. /\ kernel \in KernelState /\ kernel.delivery = "none" /\ kernel.decisions \in Nat
      /\ kernel.step = kernel.decisions /\ now \in Nat
  BY <1>1, KernelStateOf DEF KernelInv
<1>3. CASE cancelled /\ StopCancelled(kernel)
  BY <1>1, <1>3, StoppedNode
<1>4. CASE ~ cancelled /\ ~ MayDecide /\ NoDecisionLeft
  <2>1. PICK step : step = Smaller(kernel.step + 1, MaxDecisions)
    OBVIOUS
  <2>2. step \in 1 .. MaxDecisions
    BY <1>2, <2>1, Budget, ViewAssumption DEF Smaller
  <2>3. kernel.decisions > 0
    <3>1. CASE kernel.decisions = 0
      <4>1. now = 0
        BY <1>1, <3>1 DEF StageFits
      <4>2. MayDecide
        BY <3>1, <4>1, Budget, ViewAssumption DEF MayDecide, Remaining
      <4> QED
        BY <1>4, <4>2
    <3> QED
      BY <1>2, <3>1
  <2>4. PICK signal : signal = Item("route_decided", "budget_exhausted", step)
    OBVIOUS
  <2>5. /\ kernel' = [kernel EXCEPT !.decision = NoDecision, !.pc = "ended",
                                    !.failure = "budget_exhausted"]
        /\ out' = <<signal>>
    BY <1>4, <2>1, <2>4 DEF NoDecisionLeft, FailWith
  <2>6. /\ kernel'.pc = "ended" /\ kernel'.failure = "budget_exhausted"
        /\ kernel'.decisions = kernel.decisions /\ kernel'.loaded = kernel.loaded
        /\ kernel'.delivery = kernel.delivery /\ kernel'.canceled = kernel.canceled
    BY <1>2, <2>5 DEF KernelState
  <2>7. StageFits'
    BY <1>1, <1>2, <2>3, <2>6 DEF StageFits, cancelled
  <2>8. ItemFits(kernel', signal)
    BY <2>2, <2>4, <2>6, SignalsFit DEF RouteLabels
  <2>9. \A i \in DOMAIN out' : out'[i] = signal
    BY <2>5, OfOne
  <2>10. signal.type = "route_decided"
    BY <2>4 DEF Item
  <2> QED
    BY <1>1, <1>2, <2>6, <2>7, <2>8, <2>9, <2>10, QuietFits
<1>5. CASE /\ ~ cancelled /\ MayDecide
           /\ kernel' = [kernel EXCEPT !.pc = "thinking", !.step = @ + 1, !.decisions = @ + 1,
                                       !.decision = NoDecision,
                                       !.until = now + Wait(ModelWait),
                                       !.clipped = Remaining < ModelWait]
           /\ out' = <<>>
  <2>1. /\ kernel'.pc = "thinking" /\ kernel'.decisions = kernel.decisions + 1
        /\ kernel'.loaded = kernel.loaded /\ kernel'.delivery = kernel.delivery
        /\ kernel'.canceled = kernel.canceled
    BY <1>2, <1>5 DEF KernelState
  <2>2. StageFits'
    BY <1>1, <1>2, <2>1 DEF StageFits, cancelled
  <2>3. DOMAIN out' = {}
    BY <1>5
  <2> QED
    BY <1>1, <1>2, <2>1, <2>2, <2>3, QuietFits
<1> QED
  BY <1>3, <1>4, <1>5 DEF Decide

LEMMA ModelTells ==
    ASSUME KernelInv, StageFits, ModelAnswers
    PROVE  NodeFits
<1>1. UNCHANGED <<material, now, cancel>> /\ kernel.pc = "thinking" /\ KernelInv' /\ out' \in Seq(Items)
  BY ModelAnswersFits DEF ModelAnswers
<1>2. CASE cancelled /\ StopCancelled(kernel)
  BY <1>1, <1>2, StoppedNode
<1>3. ASSUME NEW failure \in Failures,
             NEW label \in RouteLabels \ {"load_skill", "invoke_capability"},
             Failed(failure, label)
      PROVE  NodeFits
  BY <1>1, <1>3, FailedNode
<1>4. ASSUME NEW d \in Decisions,
             Done([kernel EXCEPT !.pc = "dispatch", !.decision = d])
      PROVE  NodeFits
  <2>1. kernel' = [kernel EXCEPT !.pc = "dispatch", !.decision = d] /\ out' = <<>>
    BY <1>4 DEF Done
  <2>2. /\ kernel'.pc = "dispatch" /\ kernel'.decisions = kernel.decisions /\ kernel.decisions \in Nat
        /\ kernel'.loaded = kernel.loaded /\ kernel'.delivery = kernel.delivery
        /\ kernel'.canceled = kernel.canceled /\ kernel.delivery = "none"
    BY <1>1, <2>1, KernelStateOf DEF KernelState, KernelInv
  <2>3. StageFits'
    BY <1>1, <2>2 DEF StageFits, cancelled
  <2>4. DOMAIN out' = {}
    BY <2>1
  <2> QED
    BY <1>1, <2>2, <2>3, <2>4, QuietFits
<1> QED
  BY <1>2, <1>3, <1>4 DEF ModelAnswers, StopsAnswer, Failures, RouteLabels

\* What is delivered was not before; a comparison is told with the decision that asked for it.
LEMMA DeliversTells ==
    ASSUME KernelInv, KernelInv', StageFits, NEW delivery \in Deliveries,
           NEW items \in Seq(Items), Deliver(delivery, items),
           kernel.pc \in {"dispatch", "calling"},
           delivery = "answer_with_knowledge" => kernel.loaded # <<>>,
           delivery = "comparison" => kernel.pc = "calling",
           NEW label \in RouteLabels, items[1] = RouteSignal(label), 1 \in DOMAIN items,
           label # "load_skill", label = "invoke_capability" <=> delivery = "comparison",
           \A i \in DOMAIN items \ {1} : items[i].type = "tool_invoked",
           UNCHANGED <<now, cancel>>
    PROVE  NodeFits
<1>1. /\ kernel \in KernelState /\ kernel.delivery = "none" /\ kernel.decisions > 0
      /\ kernel.step = kernel.decisions /\ kernel.decisions \in Nat
      /\ kernel.step \in 1 .. MaxDecisions /\ delivery # "none"
  BY KernelStateOf, StepRange DEF KernelInv, StageFits, Deliveries
<1>2. kernel' = [kernel EXCEPT !.pc = "ended", !.delivery = delivery] /\ out' = items
  BY DEF Deliver
<1>3. /\ kernel'.pc = "ended" /\ kernel'.delivery = delivery /\ kernel'.loaded = kernel.loaded
      /\ kernel'.decisions = kernel.decisions /\ kernel'.decision = kernel.decision
      /\ kernel'.canceled = kernel.canceled /\ kernel'.failure = kernel.failure
  BY <1>1, <1>2 DEF KernelState
<1>4. delivery = "comparison" =>
        kernel.decision.kind = "invoke_capability" /\ kernel.decision.id \in Execution
  BY DEF StageFits
<1>5. StageFits'
  BY <1>1, <1>3, <1>4 DEF StageFits, cancelled
<1>6. GoesOn
  BY <1>1, <1>3 DEF GoesOn, Loaded
<1>7. /\ items[1].type = "route_decided" /\ items[1].label = label /\ items[1].step = kernel.step
  BY DEF RouteSignal, Item
<1>8. ItemFits(kernel', items[1])
  BY <1>1, <1>3, <1>4, <1>7 DEF ItemFits, SignalFits, WasUsed, StreamEnds
<1>9. \A i \in DOMAIN out' : ItemFits(kernel', out'[i]) /\ out'[i].type # "agent_done"
  BY <1>2, <1>7, <1>8 DEF ItemFits, StreamEnds
<1>10. OutFits'
  BY <1>2, <1>9 DEF OutFits
<1>11. \A d, id : WasUsed(kernel', d, id) => WasUsed(kernel, d, id) \/ Signals(d, id)'
  BY <1>2, <1>3, <1>4, <1>7 DEF WasUsed, Loaded, Signals
<1> QED
  BY <1>3, <1>5, <1>6, <1>10, <1>11 DEF NodeFits

LEMMA AnswerTells ==
    ASSUME KernelInv, StageFits, FinalizeAnswer \/ FinalizeNeedsInput
    PROVE  NodeFits
<1>1. /\ UNCHANGED <<material, now, cancel>> /\ kernel.pc = "dispatch" /\ KernelInv'
      /\ out' \in Seq(Items)
  BY AnswerFits DEF FinalizeAnswer, FinalizeNeedsInput, Dispatched
<1>2. ASSUME NEW delivery \in {"answer", "answer_with_knowledge", "needs_input"},
             NEW label \in {"answer", "needs_input"},
             Deliver(delivery, <<RouteSignal(label)>>),
             delivery = "answer_with_knowledge" => kernel.loaded # <<>>
      PROVE  NodeFits
  <2>1. PICK items : items = <<RouteSignal(label)>>
    OBVIOUS
  <2>2. items \in Seq(Items) /\ items[1] = RouteSignal(label) /\ DOMAIN items = {1}
    BY <2>1, SignalsAreItems, ItemsInSequence, OfOne DEF RouteLabels
  <2>3. delivery \in Deliveries /\ label \in RouteLabels
    BY DEF Deliveries, RouteLabels
  <2>4. Deliver(delivery, items)
    BY <1>2, <2>1
  <2> QED
    BY <1>1, <1>2, <2>2, <2>3, <2>4, DeliversTells
<1>3. CASE FinalizeAnswer
  BY <1>2, <1>3 DEF FinalizeAnswer
<1>4. CASE FinalizeNeedsInput
  <2>1. CASE AsksForMissing(kernel.decision.slots)
    BY <1>2, <1>4, <2>1 DEF FinalizeNeedsInput
  <2>2. CASE ~ AsksForMissing(kernel.decision.slots)
    BY <1>1, <1>4, <2>2, FailedNode DEF FinalizeNeedsInput, Failures, RouteLabels
  <2> QED
    BY <2>1, <2>2
<1> QED
  BY <1>3, <1>4

LEMMA SkillTells ==
    ASSUME KernelInv, StageFits, RefuseSkill \/ NoLoadLeft \/ LoadSkill
    PROVE  NodeFits
<1>1. /\ UNCHANGED <<material, now, cancel>> /\ kernel.pc = "dispatch" /\ KernelInv'
      /\ out' \in Seq(Items) /\ kernel.decision.kind = "load_skill"
  BY SkillFits DEF RefuseSkill, NoLoadLeft, LoadSkill, Dispatched
<1>2. CASE RefuseSkill
  BY <1>1, <1>2, FailedNode DEF RefuseSkill, Failures, RouteLabels
<1>3. CASE NoLoadLeft
  BY <1>1, <1>3, FailedNode DEF NoLoadLeft, Failures, RouteLabels
<1>4. CASE LoadSkill
  <2>1. /\ kernel \in KernelState /\ kernel.delivery = "none" /\ kernel.decisions > 0
        /\ kernel.step = kernel.decisions /\ kernel.decisions \in Nat
        /\ kernel.step \in 1 .. MaxDecisions /\ kernel.loaded \in Seq(Knowledge)
        /\ kernel.decision.id \in Knowledge
    BY <1>1, <1>4, KernelStateOf, StepRange
       DEF KernelInv, StageFits, KernelState, LoadSkill
  <2>2. PICK more : more = Append(kernel.loaded, kernel.decision.id)
    OBVIOUS
  <2>3. /\ \A id : Loaded(kernel, id) => \E j \in DOMAIN more : more[j] = id
        /\ \A j \in DOMAIN more : \/ j \in DOMAIN kernel.loaded /\ more[j] = kernel.loaded[j]
                                  \/ more[j] = kernel.decision.id
        /\ \E j \in DOMAIN more : more[j] = kernel.decision.id
    <3>1. /\ \A j \in DOMAIN kernel.loaded : j \in DOMAIN more /\ more[j] = kernel.loaded[j]
          /\ \A j \in DOMAIN more : \/ j \in DOMAIN kernel.loaded /\ more[j] = kernel.loaded[j]
                                    \/ more[j] = kernel.decision.id
          /\ Len(kernel.loaded) + 1 \in DOMAIN more
          /\ more[Len(kernel.loaded) + 1] = kernel.decision.id
      BY <2>1, <2>2
    <3> QED
      BY <3>1 DEF Loaded
  <2>4. CASE /\ kernel' = [kernel EXCEPT !.pc = "decide", !.loads = @ + 1, !.observations = @ + 1,
                                         !.loaded = Append(@, kernel.decision.id)]
             /\ out' = <<RouteSignal("load_skill")>>
    <3>1. /\ kernel'.pc = "decide" /\ kernel'.decisions = kernel.decisions /\ kernel'.loaded = more
          /\ kernel'.delivery = "none" /\ kernel'.decision = kernel.decision
          /\ kernel'.canceled = kernel.canceled
      BY <2>1, <2>2, <2>4 DEF KernelState
    <3>2. StageFits'
      BY <1>1, <2>1, <3>1 DEF StageFits, cancelled
    <3>3. GoesOn
      BY <2>1, <2>3, <3>1 DEF GoesOn, Loaded
    <3>4. PICK signal : signal = RouteSignal("load_skill")
      OBVIOUS
    <3>5. /\ signal.type = "route_decided" /\ signal.label = "load_skill" /\ signal.step = kernel.step
          /\ DOMAIN out' = {1} /\ out'[1] = signal
      BY <2>4, <3>4, OfOne DEF RouteSignal, Item
    <3>6. ItemFits(kernel', signal)
      BY <1>1, <2>1, <2>3, <3>1, <3>5
         DEF ItemFits, SignalFits, WasUsed, Loaded, StreamEnds, RouteLabels
    <3>7. OutFits'
      BY <1>1, <3>5, <3>6 DEF OutFits
    <3>8. \A d, id : WasUsed(kernel', d, id) => WasUsed(kernel, d, id) \/ Signals(d, id)'
      BY <1>1, <2>3, <3>1, <3>5 DEF WasUsed, Loaded, Signals
    <3> QED
      BY <1>1, <2>1, <3>1, <3>2, <3>3, <3>5, <3>7, <3>8 DEF NodeFits
  <2>5. CASE kernel' = Degrade /\ out' = <<RouteSignal("load_skill_unavailable")>>
    <3>1. /\ kernel'.pc = "decide" /\ kernel'.decisions = kernel.decisions
          /\ kernel'.loaded = kernel.loaded /\ kernel'.delivery = kernel.delivery
          /\ kernel'.canceled = kernel.canceled
      BY <2>1, <2>5 DEF Degrade, KernelState
    <3>2. StageFits'
      BY <1>1, <2>1, <3>1 DEF StageFits, cancelled
    <3>3. PICK signal : signal = RouteSignal("load_skill_unavailable")
      OBVIOUS
    <3>4. ItemFits(kernel', signal)
      BY <2>1, <3>1, <3>3, SignalsFit DEF RouteSignal, RouteLabels
    <3>5. signal.type = "route_decided" /\ signal.step = kernel.step
      BY <3>3 DEF RouteSignal, Item
    <3>6. \A i \in DOMAIN out' : out'[i] = signal
      BY <2>5, <3>3, OfOne
    <3> QED
      BY <1>1, <2>1, <3>1, <3>2, <3>4, <3>5, <3>6, QuietFits
  <2> QED
    BY <1>4, <2>4, <2>5 DEF LoadSkill
<1> QED
  BY <1>2, <1>3, <1>4

LEMMA CapabilityTells ==
    ASSUME KernelInv, StageFits, RefuseCapability \/ CallCapability
    PROVE  NodeFits
<1>1. /\ UNCHANGED <<material, now, cancel>> /\ kernel.pc = "dispatch" /\ KernelInv'
      /\ out' \in Seq(Items) /\ kernel.decision.kind = "invoke_capability" /\ out = <<>>
      /\ kernel \in KernelState /\ kernel.decisions \in Nat
  BY CapabilityFits, KernelStateOf
     DEF RefuseCapability, CallCapability, Dispatched
<1>2. CASE RefuseCapability
  <2>1. ASSUME NEW failure \in Failures,
               NEW label \in RouteLabels \ {"load_skill", "invoke_capability"},
               Failed(failure, label)
        PROVE  NodeFits
    BY <1>1, <2>1, FailedNode
  <2>2. ASSUME NEW failure \in Failures,
               NEW label \in RouteLabels \ {"load_skill", "invoke_capability"},
               MayCallTool,
               FailWith([kernel EXCEPT !.calls = @ + 1], failure, RouteSignal(label))
        PROVE  NodeFits
    <3>1. PICK signal \in Items : signal = RouteSignal(label)
      BY SignalsAreItems
    <3>2. /\ kernel' = [[kernel EXCEPT !.calls = @ + 1] EXCEPT !.pc = "ended", !.failure = failure]
          /\ out' = <<signal>>
      BY <2>2, <3>1 DEF FailWith
    <3>3. kernel.calls + 1 \in 0 .. MaxToolCalls
      BY <2>2, MoreCalls
    <3>4. /\ kernel' \in KernelState /\ kernel'.pc = "ended" /\ kernel'.failure = failure
          /\ kernel'.decisions = kernel.decisions /\ kernel'.loaded = kernel.loaded
          /\ kernel'.delivery = kernel.delivery /\ kernel'.canceled = kernel.canceled
      BY <1>1, <3>2, <3>3 DEF KernelState, Pcs
    <3> QED
      BY <1>1, <3>1, <3>2, <3>4, FailedTells
  <2>3. \/ Failed("capability_unavailable", "invoke_capability_unavailable")
        \/ Failed("budget_exhausted", "budget_exhausted")
        \/ /\ MayCallTool
           /\ \/ FailWith([kernel EXCEPT !.calls = @ + 1], "model_decision_invalid",
                          RouteSignal("failed"))
              \/ FailWith([kernel EXCEPT !.calls = @ + 1], "capability_unavailable",
                          RouteSignal("invoke_capability_unavailable"))
    BY <1>2 DEF RefuseCapability
  <2>4. /\ {"capability_unavailable", "budget_exhausted", "model_decision_invalid"}
             \subseteq Failures
        /\ {"invoke_capability_unavailable", "budget_exhausted", "failed"}
             \subseteq RouteLabels \ {"load_skill", "invoke_capability"}
    BY DEF Failures, RouteLabels
  <2> QED
    BY <2>1, <2>2, <2>3, <2>4
<1>3. CASE CallCapability
  <2>1. /\ kernel' = [kernel EXCEPT !.pc = "calling", !.calls = @ + 1,
                                    !.until = now + Wait(ToolWait),
                                    !.clipped = Remaining < ToolWait]
        /\ out' = <<>> /\ kernel.decision.id \in Execution
    BY <1>1, <1>3 DEF CallCapability
  <2>2. /\ kernel'.pc = "calling" /\ kernel'.decisions = kernel.decisions
        /\ kernel'.loaded = kernel.loaded /\ kernel'.delivery = kernel.delivery
        /\ kernel'.decision = kernel.decision /\ kernel'.canceled = kernel.canceled
        /\ kernel.delivery = "none"
    BY <1>1, <2>1 DEF KernelState, KernelInv
  <2>3. StageFits'
    BY <1>1, <2>1, <2>2 DEF StageFits, cancelled
  <2>4. DOMAIN out' = {}
    BY <2>1
  <2> QED
    BY <1>1, <2>2, <2>3, <2>4, QuietFits
<1> QED
  BY <1>2, <1>3

LEMMA ToolTells ==
    ASSUME KernelInv, StageFits, ToolAnswers
    PROVE  NodeFits
<1>1. /\ UNCHANGED <<material, now, cancel>> /\ kernel.pc = "calling" /\ KernelInv'
      /\ out' \in Seq(Items) /\ kernel \in KernelState
      /\ kernel.decisions \in Nat /\ kernel.decisions > 0
      /\ kernel.step \in 1 .. MaxDecisions /\ kernel.step = kernel.decisions
  BY ToolAnswersFits, KernelStateOf, StepRange DEF ToolAnswers, StageFits
<1>2. CASE cancelled /\ StopCancelled(kernel)
  BY <1>1, <1>2, StoppedNode
<1>3. CASE Deliver("comparison", <<RouteSignal("invoke_capability"), ToolItem("ok")>>)
  <2>1. PICK items : items = <<RouteSignal("invoke_capability"), ToolItem("ok")>>
    OBVIOUS
  <2>2. /\ items \in Seq(Items) /\ items[1] = RouteSignal("invoke_capability")
        /\ items[2] = ToolItem("ok") /\ DOMAIN items = {1, 2}
    BY <2>1, SignalsAreItems, ItemsInSequence, OfTwo DEF RouteLabels
  <2>3. items[2].type = "tool_invoked"
    BY <2>2 DEF ToolItem, Item
  <2>4. "comparison" \in Deliveries /\ "invoke_capability" \in RouteLabels
    BY DEF Deliveries, RouteLabels
  <2>5. Deliver("comparison", items)
    BY <1>3, <2>1
  <2> QED
    BY <1>1, <2>2, <2>3, <2>4, <2>5, DeliversTells
<1>4. ASSUME NEW failure \in Failures,
             NEW label \in RouteLabels \ {"load_skill", "invoke_capability"}, NEW status,
             kernel' = [kernel EXCEPT !.pc = "ended", !.failure = failure],
             out' = <<RouteSignal(label), ToolItem(status)>>
      PROVE  NodeFits
  <2>1. PICK signal, item : signal = RouteSignal(label) /\ item = ToolItem(status)
    OBVIOUS
  <2>2. DOMAIN out' = {1, 2} /\ out'[1] = signal /\ out'[2] = item
    BY <1>4, <2>1, OfTwo
  <2>4. /\ kernel'.pc = "ended" /\ kernel'.failure = failure /\ failure # "none"
        /\ kernel'.decisions = kernel.decisions /\ kernel'.loaded = kernel.loaded
        /\ kernel'.delivery = kernel.delivery /\ kernel'.canceled = kernel.canceled
        /\ kernel.delivery = "none"
    BY <1>1, <1>4 DEF KernelState, Failures, KernelInv
  <2>3. /\ ItemFits(kernel', signal) /\ signal.type = "route_decided" /\ signal.step = kernel.step
        /\ ItemFits(kernel', item) /\ item.type = "tool_invoked"
    BY <1>1, <2>1, <2>4, SignalsFit DEF RouteSignal, ToolItem, Item
  <2>5. StageFits'
    BY <1>1, <2>4 DEF StageFits, cancelled
  <2> QED
    BY <1>1, <2>2, <2>3, <2>4, <2>5, QuietFits
<1>5. CASE /\ kernel' = [kernel EXCEPT !.pc = "ended", !.failure = "delivery_invalid"]
           /\ out' = <<RouteSignal("invoke_capability_unavailable"), ToolItem("ok")>>
  BY <1>4, <1>5 DEF Failures, RouteLabels
<1>6. ASSUME NEW status, NEW spent \in BOOLEAN,
             kernel' = [kernel EXCEPT !.pc = "ended",
                                      !.failure = IF spent THEN "budget_exhausted" ELSE "tool_failed"],
             out' = <<RouteSignal(IF spent THEN "budget_exhausted"
                                  ELSE "invoke_capability_unavailable"), ToolItem(status)>>
      PROVE  NodeFits
  <2>1. /\ (IF spent THEN "budget_exhausted" ELSE "tool_failed") \in Failures
        /\ (IF spent THEN "budget_exhausted" ELSE "invoke_capability_unavailable")
             \in RouteLabels \ {"load_skill", "invoke_capability"}
    BY DEF Failures, RouteLabels
  <2> QED
    BY <1>4, <1>6, <2>1
<1> QED
  BY <1>2, <1>3, <1>5, <1>6 DEF ToolAnswers, StopsAnswer

LEMMA OutcomeTells ==
    ASSUME KernelInv, StageFits, KernelRaises \/ ReportOutcome
    PROVE  NodeFits
<1>1. /\ UNCHANGED <<material, now, cancel>> /\ KernelInv' /\ out' \in Seq(Items)
      /\ kernel \in KernelState /\ kernel.decisions \in Nat
  BY OutcomeFits, KernelStateOf DEF KernelRaises, ReportOutcome
<1>2. CASE KernelRaises
  <2>1. /\ kernel' = [kernel EXCEPT !.pc = "over", !.failure = "raised"] /\ kernel.pc = "dispatch"
        /\ out' = <<Item("failure", "raised", 0), Eof>>
    BY <1>2 DEF KernelRaises
  <2>2. /\ kernel'.pc = "over" /\ kernel'.decisions = kernel.decisions
        /\ kernel'.loaded = kernel.loaded /\ kernel'.delivery = kernel.delivery
        /\ kernel'.canceled = kernel.canceled /\ kernel.delivery = "none"
    BY <1>1, <2>1 DEF KernelState, KernelInv
  <2>3. StageFits'
    BY <1>1, <2>2 DEF StageFits, cancelled
  <2>4. \A i \in DOMAIN out' : out'[i].type \in {"failure", "eof"}
    <3>1. PICK a, b : a = Item("failure", "raised", 0) /\ b = Eof
      OBVIOUS
    <3>2. a.type = "failure" /\ b.type = "eof"
      BY <3>1 DEF Item, Eof
    <3> QED
      BY <2>1, <3>1, <3>2, OfTwo
  <2>5. \A i \in DOMAIN out' : ItemFits(kernel', out'[i])
    BY <2>2, <2>4 DEF ItemFits, StreamEnds
  <2> QED
    BY <1>1, <2>1, <2>2, <2>3, <2>4, <2>5, QuietFits
<1>3. CASE ReportOutcome
  <2>1. kernel' = [kernel EXCEPT !.pc = "over"] /\ kernel.pc = "ended"
    BY <1>3 DEF ReportOutcome
  <2>2. /\ kernel'.pc = "over" /\ kernel'.decisions = kernel.decisions
        /\ kernel'.loaded = kernel.loaded /\ kernel'.delivery = kernel.delivery
        /\ kernel'.canceled = kernel.canceled /\ kernel'.decision = kernel.decision
    BY <1>1, <2>1 DEF KernelState
  <2>3. StageFits'
    BY <1>1, <2>2 DEF StageFits, cancelled
  <2>4. GoesOn /\ \A d, id : WasUsed(kernel', d, id) => WasUsed(kernel, d, id)
    BY <1>1, <2>2 DEF GoesOn, WasUsed, Loaded
  <2>5. CASE kernel.canceled
    <3>1. out' = <<Eof>>
      BY <1>3, <2>5 DEF ReportOutcome
    <3>2. \A i \in DOMAIN out' : out'[i].type = "eof"
      <4>1. PICK a : a = Eof
        OBVIOUS
      <4>2. a.type = "eof"
        BY <4>1 DEF Item, Eof
      <4> QED
        BY <3>1, <4>1, <4>2, OfOne
    <3>3. OutFits'
      BY <1>1, <2>2, <3>2 DEF OutFits, ItemFits, StreamEnds
    <3> QED
      BY <2>2, <2>3, <2>4, <2>5, <3>2, <3>3 DEF NodeFits
  <2>6. CASE ~ kernel.canceled
    <3>1. PICK done, end :
            /\ done = Item("agent_done", OutcomeLabel, kernel.step)
            /\ end = IF kernel.delivery # "none" THEN Item("delivery", kernel.delivery, 0)
                     ELSE Item("failure", kernel.failure, 0)
      OBVIOUS
    <3>2. out' = <<done, end, Eof>>
      BY <1>3, <2>6, <3>1 DEF ReportOutcome
    <3>3. /\ DOMAIN out' = {1, 2, 3} /\ out'[1] = done /\ out'[2] = end /\ out'[3].type = "eof"
      <4>1. PICK a : a = Eof
        OBVIOUS
      <4>2. a.type = "eof"
        BY <4>1 DEF Item, Eof
      <4> QED
        BY <3>2, <4>1, <4>2, OfThree
    <3>4. kernel.decisions > 0 /\ kernel.step = kernel.decisions
      BY <2>1, <2>6, StepRange DEF StageFits
    <3>5. OutcomeLabel \in DoneOutcomes
      BY <1>1, <2>1, <2>6 DEF StageFits, OutcomeLabel, DoneOutcomes, KernelState,
                             Deliveries
    <3>6. /\ done.type = "agent_done" /\ done.label \in DoneOutcomes /\ done.step = kernel.decisions
          /\ end.type \in {"delivery", "failure"} /\ (end.type = "delivery" => kernel.delivery # "none")
      BY <3>1, <3>4, <3>5 DEF Item
    <3>7. ItemFits(kernel', done) /\ ItemFits(kernel', end)
      BY <2>2, <3>4, <3>6 DEF ItemFits, StreamEnds
    <3>8. ItemFits(kernel', out'[3])
      BY <2>2, <3>3 DEF ItemFits, StreamEnds
    <3>9. OutFits'
      BY <1>1, <3>3, <3>6, <3>7, <3>8 DEF OutFits, StreamEnds
    <3>10. DoneOnItsWay' /\ \A i \in DOMAIN out' : out'[i].type # "route_decided"
      BY <3>3, <3>6 DEF DoneOnItsWay
    <3> QED
      BY <2>2, <2>3, <2>4, <3>9, <3>10 DEF NodeFits
  <2> QED
    BY <2>5, <2>6
<1> QED
  BY <1>2, <1>3

LEMMA StepsTell ==
    ASSUME KernelInv, StageFits, KernelStep
    PROVE  NodeFits
  BY DecideTells, ModelTells, AnswerTells, SkillTells, CapabilityTells, ToolTells, OutcomeTells
     DEF KernelStep

LEMMA StartTells ==
    ASSUME KernelInv, StageFits, RefuseInput \/ StartAgent
    PROVE  NodeFits
<1>1. /\ UNCHANGED <<material, now, cancel>> /\ KernelInv' /\ out' \in Seq(Items)
      /\ kernel.pc = "start" /\ kernel \in KernelState /\ kernel.decisions = 0
      /\ kernel.delivery = "none" /\ now = 0
  BY StartAgentFits, KernelStateOf DEF RefuseInput, StartAgent, StageFits, KernelInv
<1>2. CASE StartAgent
  <2>1. kernel' = [kernel EXCEPT !.pc = "decide"] /\ out' = <<Item("agent_start", "", 0)>>
    BY <1>2 DEF StartAgent
  <2>2. /\ kernel'.pc = "decide" /\ kernel'.decisions = kernel.decisions
        /\ kernel'.loaded = kernel.loaded /\ kernel'.delivery = kernel.delivery
        /\ kernel'.canceled = kernel.canceled
    BY <1>1, <2>1 DEF KernelState
  <2>3. StageFits'
    BY <1>1, <2>2 DEF StageFits, cancelled
  <2>4. \A i \in DOMAIN out' : out'[i].type = "agent_start"
    <3>1. PICK a : a = Item("agent_start", "", 0)
      OBVIOUS
    <3>2. a.type = "agent_start"
      BY <3>1 DEF Item
    <3> QED
      BY <2>1, <3>1, <3>2, OfOne
  <2> QED
    BY <1>1, <2>2, <2>3, <2>4, QuietFits DEF ItemFits, StreamEnds
<1>3. CASE RefuseInput
  <2>1. kernel' = [kernel EXCEPT !.pc = "over", !.failure = "raised"]
    BY <1>3 DEF RefuseInput
  <2>2. /\ kernel'.pc = "over" /\ kernel'.decisions = kernel.decisions
        /\ kernel'.loaded = kernel.loaded /\ kernel'.delivery = kernel.delivery
        /\ kernel'.canceled = kernel.canceled
    BY <1>1, <2>1 DEF KernelState
  <2>3. StageFits'
    BY <1>1, <2>2 DEF StageFits, cancelled
  <2>4. \A i \in DOMAIN out' : out'[i].type \in {"raise", "failure", "eof"}
    <3>0. PICK a, b, c : /\ a = Item("raise", "MAIN_AGENT_RULE_UNAVAILABLE", 0)
                         /\ b = Item("failure", "raised", 0) /\ c = Eof
      OBVIOUS
    <3>1. a.type = "raise" /\ b.type = "failure" /\ c.type = "eof"
      BY <3>0 DEF Item, Eof
    <3>2. out' = <<a>> \/ out' = <<b, c>>
      BY <1>3, <3>0 DEF RefuseInput
    <3> QED
      BY <3>1, <3>2, OfOne, OfTwo
  <2> QED
    BY <1>1, <2>2, <2>3, <2>4, QuietFits DEF ItemFits, StreamEnds
<1> QED
  BY <1>2, <1>3

-----------------------------------------------------------------------------
(* The rows, and a read of them *)

\* An event tells what the kernel did, as RunView and the browser read it.
EventFits(k, e) ==
    /\ e \in StoredEvent /\ e.step \in 1 .. MaxDecisions
    /\ e.type = "route_decided" =>
         /\ e.decision \in RouteDecisions
         /\ e.cap # "none" => e.status # "none" /\ (e.status = "ok" => WasUsed(k, e.decision, e.cap))
    /\ e.type = "agent_done" =>
         /\ k.pc = "over" /\ e.decision \in DoneOutcomes /\ e.step = k.decisions
         /\ e.cap = "none" /\ e.status = "none"

DoneStored == \E i \in DOMAIN trail : trail[i].type = "agent_done"

\* Nothing is stored behind the outcome.
TrailFits ==
    /\ trail \in Seq(StoredEvent)
    /\ \A i \in DOMAIN trail : EventFits(kernel, trail[i])
    /\ \A i \in DOMAIN trail : trail[i].type = "agent_done" => i = Len(trail)
    /\ DoneStored => \A i \in DOMAIN out : out[i].type \in StreamEnds

\* Unless the Run was cancelled, each use is told or about to be.
Tells(decision, id) ==
    \E i \in DOMAIN trail : /\ trail[i].type = "route_decided" /\ trail[i].status = "ok"
                            /\ trail[i].decision = decision /\ trail[i].cap = id
ToldFits ==
    ~ cancelled =>
        \A d \in {"load_skill", "invoke_capability"}, id \in Knowledge \cup Execution :
            WasUsed(kernel, d, id) => Tells(d, id) \/ Signals(d, id)

\* A step beyond the decisions taken is told only before an outcome that tells the right one.
StepsFit ==
    ~ cancelled =>
        \/ kernel.pc = "ended" \/ DoneOnItsWay \/ DoneStored
        \/ /\ \A i \in DOMAIN trail : trail[i].type = "route_decided" => trail[i].step <= kernel.decisions
           /\ \A i \in DOMAIN out : out[i].type = "route_decided" => out[i].step <= kernel.decisions

\* The delivery as it was stored
StoredDelivery == [kind |-> kernel.delivery, cap |-> Grounding]
RowFits ==
    /\ run \in Run
    /\ run.kind = "main_agent" => ~run.result
    /\ run.kind = "diagnosis" =>
         /\ run.delivery = NoDelivery /\ out = <<>> /\ kernel.pc = "start"
         /\ (run.result <=> run.status = "succeeded")
    /\ (run.delivery # NoDelivery <=> run.kind = "main_agent" /\ run.status = "succeeded")
    /\ \/ run.delivery \in {NoDelivery, Unreadable}
       \/ kernel.delivery # "none" /\ run.delivery = StoredDelivery
    /\ (cancelled <=> run.status = "cancelled")
    /\ run.status = "queued" => out = <<>> /\ kernel.pc = "start"
    /\ run.kind = "main_agent" /\ run.status \in {"succeeded", "failed"} => out = <<>> /\ kernel.pc = "over"

Reads == [pc : {"none", "delivery", "events", "done"}, page : Pages \cup {"none"},
          status : RunStatuses \cup {"none"}, result : BOOLEAN,
          delivery : Delivery \cup {NoDelivery}, events : Seq(StoredEvent)]

\* What a read has found of a Run that was over is what the Run has.
ReaderFits ==
    /\ reader \in Reads
    /\ reader.pc # "none" => reader.status # "none"
    /\ reader.pc = "events" => run.kind = "main_agent"
    /\ reader.pc = "delivery" => reader.page = "detail"
    /\ reader.status \in TerminalStatuses => run.status = reader.status
    /\ reader.page = "detail" /\ reader.pc \in {"events", "done"} =>
         /\ reader.result => run.result
         /\ reader.delivery # NoDelivery => run.delivery # NoDelivery
         /\ reader.status \in TerminalStatuses =>
              /\ run.result => reader.result
              /\ run.delivery # NoDelivery => reader.delivery # NoDelivery
         /\ \/ reader.delivery \in {NoDelivery, Unreadable}
            \/ kernel.delivery # "none" /\ reader.delivery = StoredDelivery
    /\ reader.page = "detail" /\ reader.pc = "done" /\ run.kind = "main_agent" =>
         reader.events = IF reader.status \in TerminalStatuses THEN trail ELSE <<>>

ViewInv ==
    /\ KernelInv /\ StageFits /\ OutFits
    /\ TrailFits /\ ToldFits /\ StepsFit /\ RowFits /\ ReaderFits
    /\ damage \in 0 .. MaxDamage

\* An event stays true while the kernel goes on.
LEMMA EventStays ==
    ASSUME NEW e, EventFits(kernel, e), GoesOn,
           kernel.pc = "over" => kernel'.pc = "over" /\ kernel'.decisions = kernel.decisions
    PROVE  EventFits(kernel', e)
<1>1. \A d, id : WasUsed(kernel, d, id) => WasUsed(kernel', d, id)
  BY DEF GoesOn, WasUsed
<1> QED
  BY <1>1 DEF EventFits

LEMMA ViewFacts ==
    ASSUME ViewInv
    PROVE  /\ kernel \in KernelState /\ kernel.decisions \in Nat
           /\ cancel \in [at : Pcs \cup {"none"}, begun : Nat]
           /\ run \in Run /\ trail \in Seq(StoredEvent) /\ out \in Seq(Items)
  BY KernelStateOf DEF ViewInv, RowFits, TrailFits, OutFits

\* A node of the kernel while its Run is claimed, or as it is claimed
LEMMA NodeKeepsView ==
    ASSUME ViewInv, KernelInv', NodeFits, out = <<>>, kernel.pc # "over", UNCHANGED <<cancel, trail, reader, damage>>,
           run.kind = "main_agent",
           \/ run' = run /\ run.status # "queued"
           \/ run.status = "queued" /\ run' = [run EXCEPT !.status = "running"]
    PROVE  ViewInv'
<1>1. /\ run.status \in {"queued", "running", "cancelled"} /\ run.delivery = NoDelivery
      /\ ~run.result
  BY ViewFacts DEF ViewInv, RowFits, Run, RunStatuses
<1>2. ~ DoneStored /\ ~ DoneOnItsWay /\ ~ \E d, id : Signals(d, id)
  BY DEF ViewInv, TrailFits, DoneStored, DoneOnItsWay, EventFits, Signals
<1>3. TrailFits'
  <2>1. \A i \in DOMAIN trail : EventFits(kernel', trail[i])
    BY EventStays DEF ViewInv, TrailFits, NodeFits
  <2>2. ~ DoneStored'
    BY <1>2 DEF DoneStored
  <2> QED
    BY <1>2, <2>1, <2>2 DEF ViewInv, TrailFits, DoneStored
<1>4. ToldFits'
  <2>1. \A d, id : WasUsed(kernel', d, id) => WasUsed(kernel, d, id) \/ Signals(d, id)'
    BY DEF NodeFits
  <2>2. \A d, id : Tells(d, id) => Tells(d, id)'
    BY DEF Tells
  <2> QED
    BY <1>2, <2>1, <2>2 DEF ViewInv, ToldFits, cancelled
<1>5. StepsFit'
  <2>1. CASE kernel.pc = "ended"
    <3>1. kernel'.canceled \/ DoneOnItsWay'
      BY <2>1 DEF NodeFits
    <3>2. kernel'.canceled => cancelled'
      BY DEF NodeFits, StageFits
    <3> QED
      BY <3>1, <3>2 DEF StepsFit
  <2>2. CASE kernel.pc # "ended" /\ ~ cancelled
    <3>1. \A i \in DOMAIN trail : trail[i].type = "route_decided" => trail[i].step <= kernel.decisions
      BY <1>2, <2>2 DEF ViewInv, StepsFit
    <3>2. \A i \in DOMAIN trail : trail[i].step \in Nat
      BY Budget DEF ViewInv, TrailFits, EventFits
    <3>3. kernel.decisions \in Nat /\ kernel'.decisions \in Nat /\ kernel.decisions <= kernel'.decisions
      BY KernelStateOf, ViewFacts DEF NodeFits, GoesOn, KernelInv, KernelTypeOK, KernelState
    <3>4. \A i \in DOMAIN trail : trail[i].type = "route_decided" => trail[i].step <= kernel'.decisions
      BY <3>1, <3>2, <3>3
    <3> QED
      BY <3>4 DEF StepsFit, NodeFits
  <2>3. CASE cancelled
    BY <2>3 DEF StepsFit, cancelled
  <2> QED
    BY <2>1, <2>2, <2>3
<1>6. /\ run' \in Run /\ run'.kind = run.kind /\ run'.result = run.result
      /\ run'.delivery = run.delivery /\ run'.status \in {"running", "cancelled"}
      /\ (run'.status = "cancelled" <=> run.status = "cancelled")
      /\ (run'.status = run.status \/ run.status = "queued")
  BY <1>1, ViewFacts DEF Run, RunStatuses
<1>7. RowFits'
  BY <1>1, <1>6 DEF ViewInv, RowFits, cancelled
<1>8. ReaderFits'
  BY <1>1, <1>6 DEF ViewInv, ReaderFits, TerminalStatuses
<1> QED
  BY <1>3, <1>4, <1>5, <1>7, <1>8 DEF ViewInv, NodeFits

LEMMA WorkKeepsView ==
    ASSUME ViewInv, Work
    PROVE  ViewInv'
<1>1. UNCHANGED <<run, trail, reader, damage>> /\ run.kind = "main_agent" /\ run.status # "queued"
  BY DEF Work, rowVars, Claimed
<1>2. CASE KernelStep
  <2>1. NodeFits /\ KernelInv'
    BY <1>2, StepsTell, KernelNodeFits DEF ViewInv, KernelNode
  <2>2. out = <<>> /\ kernel.pc # "over" /\ UNCHANGED cancel
    BY <1>2 DEF KernelStep, Decide, ModelAnswers, FinalizeAnswer,
                FinalizeNeedsInput, RefuseSkill, NoLoadLeft, LoadSkill,
                RefuseCapability, CallCapability, ToolAnswers, KernelRaises,
                ReportOutcome, Dispatched
  <2> QED
    BY <1>1, <2>1, <2>2, NodeKeepsView
<1>3. CASE Tick
  <2>1. UNCHANGED <<kernel, cancel, out>> /\ KernelInv'
    BY <1>3, WaitingFits DEF Tick, ViewInv
  <2>2. StageFits'
    BY <1>3, <2>1 DEF ViewInv, StageFits, Tick, cancelled
  <2>3. OutFits' /\ TrailFits' /\ ToldFits' /\ StepsFit'
    BY <1>1, <2>1 DEF ViewInv, OutFits, TrailFits, DoneStored, ToldFits, StepsFit, DoneOnItsWay,
                      Tells, Signals, cancelled
  <2>4. RowFits' /\ ReaderFits'
    BY <1>1, <2>1 DEF ViewInv, RowFits, ReaderFits, StoredDelivery, Grounding, cancelled
  <2> QED
    BY <1>1, <2>1, <2>2, <2>3, <2>4 DEF ViewInv
<1> QED
  BY <1>2, <1>3 DEF Work

LEMMA ClaimKeepsView ==
    ASSUME ViewInv, Claim \/ ClaimFails
    PROVE  ViewInv'
<1>1. /\ UNCHANGED <<trail, reader, damage>> /\ run.status = "queued"
      /\ run' = [run EXCEPT !.status = "running"] /\ out = <<>> /\ kernel.pc = "start"
      /\ run.kind \in {"main_agent", "diagnosis"}
  BY ViewFacts DEF Claim, ClaimFails, ViewInv, RowFits, Run, RunKinds
<1>2. CASE run.kind = "main_agent"
  <2>1. StartAgent \/ RefuseInput
    BY <1>2 DEF Claim, ClaimFails
  <2>2. NodeFits /\ KernelInv' /\ UNCHANGED cancel
    BY <2>1, StartTells, StartAgentFits DEF ViewInv, StartAgent, RefuseInput
  <2> QED
    BY <1>1, <1>2, <2>2, NodeKeepsView
<1>3. CASE run.kind = "diagnosis"
  <2>1. UNCHANGED <<kernel, material, now, cancel, out>>
    BY <1>3 DEF Claim, ClaimFails, kernelVars
  <2>2. KernelInv' /\ StageFits' /\ OutFits' /\ TrailFits' /\ ToldFits' /\ StepsFit'
    BY <1>1, <2>1 DEF ViewInv, KernelInv, CancelFits, KernelTypeOK, DeliveriesPassValidation,
         Missing, Begun, StageFits, OutFits, TrailFits, DoneStored, ToldFits, StepsFit,
         DoneOnItsWay, Tells, Signals, cancelled
  <2>3. /\ run' \in Run /\ run'.kind = run.kind /\ run'.result = run.result
        /\ run'.delivery = run.delivery /\ run'.status = "running"
    BY <1>1, ViewFacts DEF Run, RunStatuses
  <2>4. RowFits'
    BY <1>1, <1>3, <2>1, <2>3 DEF ViewInv, RowFits, cancelled
  <2>5. ReaderFits'
    BY <1>1, <2>1, <2>3 DEF ViewInv, ReaderFits, StoredDelivery, Grounding, TerminalStatuses
  <2> QED
    BY <1>1, <2>2, <2>4, <2>5 DEF ViewInv
<1> QED
  BY <1>1, <1>2, <1>3

\* What is stored of a signal tells what the signal told.
LEMMA StoredEventFits ==
    ASSUME ViewInv, NEW item, ItemFits(kernel, item), item.type \in Projected
    PROVE  LET e == SafeEvent(item) IN
           /\ EventFits(kernel, e) /\ e.type = item.type /\ e.step = item.step
           /\ \A d \in {"load_skill", "invoke_capability"}, id \in Knowledge \cup Execution :
                item.type = "route_decided" /\ item.label = d
                  /\ kernel.decision.kind = d /\ kernel.decision.id = id
                => e.status = "ok" /\ e.decision = d /\ e.cap = id
<1>1. PICK e : e = SafeEvent(item)
  OBVIOUS
<1>2. item.type \in {"route_decided", "agent_done"}
  BY DEF Projected
<1>3. item.step \in 1 .. MaxDecisions /\ item.step \in 0 .. MaxDecisions
  <2>1. CASE item.type = "agent_done"
    BY <2>1, ViewFacts, Budget DEF ItemFits, KernelState
  <2>2. CASE item.type = "route_decided"
    BY <2>2, Budget DEF ItemFits, SignalFits
  <2> QED
    BY <1>2, <2>1, <2>2
<1>4. e.type = item.type /\ e.step = item.step
  BY <1>1, <1>3 DEF SafeEvent, SafeStep
<1>5. CASE item.type = "agent_done"
  <2>1. e = [type |-> "agent_done", step |-> item.step, decision |-> item.label,
             cap |-> "none", status |-> "none"]
    BY <1>1, <1>3, <1>5 DEF SafeEvent, SafeStep
  <2>2. item.label \in DoneOutcomes /\ kernel.pc = "over" /\ item.step = kernel.decisions
    BY <1>5 DEF ItemFits
  <2>3. e \in StoredEvent
    BY <1>3, <2>1, <2>2 DEF StoredEvent
  <2>4. EventFits(kernel, e)
    BY <1>3, <2>1, <2>2, <2>3 DEF EventFits
  <2> QED
    BY <1>1, <1>4, <1>5, <2>4
<1>6. CASE item.type = "route_decided"
  <2>1. /\ SignalFits(kernel, item) /\ item.label \in RouteLabels
    BY <1>6 DEF ItemFits, SignalFits
  <2> DEFINE decision == DecisionOf(item.label)
             cap == Known(Named(item.label))
             status == RouteStatus(item.label)
  <2>2. e = [type |-> "route_decided", step |-> item.step, decision |-> decision,
             cap |-> cap, status |-> status]
    BY <1>1, <1>3, <1>6 DEF SafeEvent, SafeStep
  <2>3. decision \in RouteDecisions /\ status \in {"ok", "unavailable"}
    BY <2>1 DEF DecisionOf, RouteStatus, RouteDecisions, LoadLabels, CallLabels,
                RouteLabels
  <2>4. cap \in Knowledge \cup Execution \cup {"none"}
    BY DEF Known
  <2>5. cap # "none" /\ status = "ok" =>
          /\ item.label \in {"load_skill", "invoke_capability"} /\ decision = item.label
          /\ cap = kernel.decision.id
    <3>1. SUFFICES ASSUME cap # "none", status = "ok" PROVE
            /\ item.label \in {"load_skill", "invoke_capability"} /\ decision = item.label
            /\ cap = kernel.decision.id
      OBVIOUS
    <3>2. Named(item.label) # "none" /\ cap = Named(item.label)
      BY <3>1, CapabilityAssumption DEF Known
    <3>3. item.label \notin {"answer", "needs_input"} /\ cap = kernel.decision.id
      BY <3>2 DEF Named
    <3>4. item.label \in {"load_skill", "invoke_capability"}
      BY <3>1, <3>3 DEF RouteStatus
    <3> QED
      BY <3>3, <3>4 DEF DecisionOf, LoadLabels, CallLabels
  <2>6. cap # "none" /\ status = "ok" => WasUsed(kernel, decision, cap)
    BY <2>1, <2>5 DEF SignalFits
  <2>7. ASSUME NEW d \in {"load_skill", "invoke_capability"}, NEW id \in Knowledge \cup Execution,
               item.label = d, kernel.decision.kind = d, kernel.decision.id = id
        PROVE  status = "ok" /\ decision = d /\ cap = id
    BY <2>7 DEF RouteStatus, DecisionOf, LoadLabels, CallLabels, Named, Known
  <2> HIDE DEF decision, cap, status
  <2>8. /\ e.type = "route_decided" /\ e.decision = decision /\ e.cap = cap /\ e.status = status
        /\ e.step = item.step
    BY <2>2
  <2>9. e \in StoredEvent
    BY <1>3, <2>2, <2>3, <2>4 DEF StoredEvent
  <2>10. EventFits(kernel, e)
    BY <1>3, <2>3, <2>6, <2>8, <2>9 DEF EventFits
  <2> QED
    BY <1>1, <1>4, <2>7, <2>8, <2>10
<1> QED
  BY <1>2, <1>5, <1>6

LEMMA TailOf ==
    ASSUME NEW T, NEW s \in Seq(T), s # <<>>
    PROVE  /\ Tail(s) \in Seq(T) /\ Head(s) = s[1] /\ 1 \in DOMAIN s
           /\ \A i \in DOMAIN Tail(s) : i + 1 \in DOMAIN s /\ Tail(s)[i] = s[i + 1] /\ i >= 1 /\ i \in Nat
           /\ \A i \in DOMAIN s : i = 1 \/ (i - 1 \in DOMAIN Tail(s) /\ Tail(s)[i - 1] = s[i])
  OBVIOUS

LEMMA AppendOf ==
    ASSUME NEW T, NEW s \in Seq(T), NEW e \in T
    PROVE  /\ Append(s, e) \in Seq(T) /\ Len(Append(s, e)) = Len(s) + 1
           /\ Append(s, e)[Len(s) + 1] = e /\ Len(s) + 1 \in DOMAIN Append(s, e)
           /\ \A i \in DOMAIN s : i \in DOMAIN Append(s, e) /\ Append(s, e)[i] = s[i]
           /\ \A i \in DOMAIN Append(s, e) : i = Len(s) + 1 \/ i \in DOMAIN s
  OBVIOUS

\* An event is stored while the Run is running.
LEMMA StoringKeepsView ==
    ASSUME ViewInv, out # <<>>, Head(out).type \notin StreamEnds, run.status = "running",
           trail' = (IF Head(out).type \in Projected THEN Append(trail, SafeEvent(Head(out)))
                     ELSE trail),
           out' = Tail(out), UNCHANGED <<kernel, material, now, cancel, run, reader, damage>>
    PROVE  ViewInv'
<1>1. /\ out' \in Seq(Items) /\ Head(out) = out[1] /\ 1 \in DOMAIN out
      /\ \A i \in DOMAIN out' : i + 1 \in DOMAIN out /\ out'[i] = out[i + 1] /\ i >= 1 /\ i \in Nat
      /\ \A i \in DOMAIN out : i = 1 \/ (i - 1 \in DOMAIN out' /\ out'[i - 1] = out[i])
  BY TailOf, ViewFacts
<1>2. PICK item : item = out[1]
  OBVIOUS
<1>3. ItemFits(kernel, item) /\ item.type \notin StreamEnds /\ ~ DoneStored
  BY <1>1, <1>2 DEF ViewInv, OutFits, TrailFits
<1>4. KernelInv' /\ StageFits'
  BY DEF ViewInv, KernelInv, CancelFits, KernelTypeOK, DeliveriesPassValidation,
         Missing, Begun, StageFits, cancelled
<1>5. OutFits'
  <2>1. \A i \in DOMAIN out' : ItemFits(kernel', out'[i])
    BY <1>1 DEF ViewInv, OutFits
  <2>2. \A i, j \in DOMAIN out' : out'[i].type = "agent_done" /\ i # j => i < j /\ out'[j].type \in StreamEnds
    <3>1. TAKE i, j \in DOMAIN out'
    <3>2. /\ i + 1 \in DOMAIN out /\ out'[i] = out[i + 1] /\ i \in Nat
          /\ j + 1 \in DOMAIN out /\ out'[j] = out[j + 1] /\ j \in Nat
      BY <1>1
    <3>3. out[i + 1].type = "agent_done" /\ i + 1 # j + 1 => i + 1 < j + 1 /\ out[j + 1].type \in StreamEnds
      BY <3>2 DEF ViewInv, OutFits
    <3> QED
      BY <3>2, <3>3
  <2> QED
    BY <1>1, <2>1, <2>2 DEF OutFits
<1>6. ~ cancelled /\ ~ cancelled'
  BY DEF ViewInv, RowFits, cancelled
<1>7. RowFits'
  <2>1. out' # <<>> => out # <<>>
    OBVIOUS
  <2> QED
    BY DEF ViewInv, RowFits, StoredDelivery, Grounding, cancelled
<1>8. ReaderFits'
  BY DEF ViewInv, ReaderFits, StoredDelivery, Grounding, TerminalStatuses
<1>9. CASE item.type \in Projected
  <2>1. PICK e : e = SafeEvent(item)
    OBVIOUS
  <2>2. /\ EventFits(kernel, e) /\ e.type = item.type /\ e.step = item.step
        /\ \A d \in {"load_skill", "invoke_capability"}, id \in Knowledge \cup Execution :
             item.type = "route_decided" /\ item.label = d
               /\ kernel.decision.kind = d /\ kernel.decision.id = id
             => e.status = "ok" /\ e.decision = d /\ e.cap = id
    BY <1>3, <1>9, <2>1, StoredEventFits
  <2>3. trail' = Append(trail, e) /\ e \in StoredEvent
    BY <1>1, <1>2, <1>9, <2>1, <2>2 DEF EventFits
  <2>4. /\ trail' \in Seq(StoredEvent) /\ Len(trail') = Len(trail) + 1
        /\ trail'[Len(trail) + 1] = e /\ Len(trail) + 1 \in DOMAIN trail'
        /\ \A i \in DOMAIN trail : i \in DOMAIN trail' /\ trail'[i] = trail[i]
        /\ \A i \in DOMAIN trail' : i = Len(trail) + 1 \/ i \in DOMAIN trail
    BY <2>3, AppendOf, ViewFacts
  <2>5. TrailFits'
    <3>1. \A i \in DOMAIN trail' : EventFits(kernel', trail'[i])
      BY <2>2, <2>4 DEF ViewInv, TrailFits
    <3>2. \A i \in DOMAIN trail' : trail'[i].type = "agent_done" => i = Len(trail')
      BY <1>3, <2>4 DEF DoneStored
    <3>3. DoneStored' => \A i \in DOMAIN out' : out'[i].type \in StreamEnds
      <4>1. SUFFICES ASSUME DoneStored', NEW i \in DOMAIN out' PROVE out'[i].type \in StreamEnds
        OBVIOUS
      <4>2. item.type = "agent_done"
        BY <1>3, <2>2, <2>4, <4>1 DEF DoneStored
      <4>3. i + 1 \in DOMAIN out /\ out'[i] = out[i + 1] /\ i + 1 # 1
        BY <1>1
      <4> QED
        BY <1>1, <1>2, <4>2, <4>3 DEF ViewInv, OutFits
    <3> QED
      BY <2>4, <3>1, <3>2, <3>3 DEF TrailFits
  <2>6. ToldFits'
    <3>1. ASSUME NEW d \in {"load_skill", "invoke_capability"}, NEW id \in Knowledge \cup Execution,
                 WasUsed(kernel, d, id)
          PROVE  Tells(d, id)' \/ Signals(d, id)'
      <4>1. Tells(d, id) \/ Signals(d, id)
        BY <1>6, <3>1 DEF ViewInv, ToldFits
      <4>2. CASE Tells(d, id)
        BY <2>4, <4>2 DEF Tells
      <4>3. CASE Signals(d, id)
        <5>1. PICK i \in DOMAIN out : /\ out[i].type = "route_decided" /\ out[i].label = d
                                      /\ kernel.decision.kind = d /\ kernel.decision.id = id
          BY <4>3 DEF Signals
        <5>2. CASE i = 1
          <6>1. e.type = "route_decided" /\ e.status = "ok" /\ e.decision = d /\ e.cap = id
            BY <1>2, <2>2, <5>1, <5>2
          <6> QED
            BY <2>4, <6>1 DEF Tells
        <5>3. CASE i # 1
          BY <1>1, <5>1, <5>3 DEF Signals
        <5> QED
          BY <5>2, <5>3
      <4> QED
        BY <4>1, <4>2, <4>3
    <3>2. \A d \in {"load_skill", "invoke_capability"}, id \in Knowledge \cup Execution :
            WasUsed(kernel', d, id) => Tells(d, id)' \/ Signals(d, id)'
      BY <3>1
    <3> QED
      BY <3>2 DEF ToldFits
  <2>7. StepsFit'
    <3>1. CASE kernel.pc = "ended" \/ DoneStored
      BY <1>3, <3>1 DEF StepsFit
    <3>2. CASE DoneOnItsWay
      <4>1. PICK i \in DOMAIN out : out[i].type = "agent_done"
        BY <3>2 DEF DoneOnItsWay
      <4>2. CASE i = 1
        BY <1>2, <2>2, <2>4, <4>1, <4>2 DEF StepsFit, DoneStored
      <4>3. CASE i # 1
        BY <1>1, <4>1, <4>3 DEF StepsFit, DoneOnItsWay
      <4> QED
        BY <4>2, <4>3
    <3>3. CASE /\ \A i \in DOMAIN trail : trail[i].type = "route_decided" => trail[i].step <= kernel.decisions
               /\ \A i \in DOMAIN out : out[i].type = "route_decided" => out[i].step <= kernel.decisions
      <4>1. e.type = "route_decided" => e.step <= kernel.decisions
        BY <1>1, <1>2, <2>2, <3>3
      <4>2. \A i \in DOMAIN trail' : trail'[i].type = "route_decided" => trail'[i].step <= kernel'.decisions
        BY <2>4, <3>3, <4>1
      <4>3. \A i \in DOMAIN out' : out'[i].type = "route_decided" => out'[i].step <= kernel'.decisions
        BY <1>1, <3>3
      <4> QED
        BY <4>2, <4>3 DEF StepsFit
    <3> QED
      BY <1>6, <3>1, <3>2, <3>3 DEF ViewInv, StepsFit
  <2> QED
    BY <1>4, <1>5, <1>7, <1>8, <2>5, <2>6, <2>7 DEF ViewInv
<1>10. CASE item.type \notin Projected
  <2>1. trail' = trail /\ item.type \notin {"route_decided", "agent_done"}
    BY <1>1, <1>2, <1>10 DEF Projected
  <2>2. TrailFits'
    BY <1>3, <2>1 DEF ViewInv, TrailFits, DoneStored
  <2>3. \A d, id : Signals(d, id) => Signals(d, id)'
    BY <1>1, <1>2, <2>1 DEF Signals
  <2>4. \A d, id : Tells(d, id) => Tells(d, id)'
    BY <2>1 DEF Tells
  <2>5. ToldFits'
    BY <1>6, <2>3, <2>4 DEF ViewInv, ToldFits
  <2>6. DoneOnItsWay => DoneOnItsWay'
    BY <1>1, <1>2, <2>1 DEF DoneOnItsWay
  <2>7. DoneStored' <=> DoneStored
    BY <2>1 DEF DoneStored
  <2>8. StepsFit'
    <3>1. (\A i \in DOMAIN out : out[i].type = "route_decided" => out[i].step <= kernel.decisions)
          => \A i \in DOMAIN out' : out'[i].type = "route_decided" => out'[i].step <= kernel'.decisions
      BY <1>1
    <3> QED
      BY <1>6, <2>1, <2>6, <2>7, <3>1 DEF ViewInv, StepsFit
  <2> QED
    BY <1>4, <1>5, <1>7, <1>8, <2>2, <2>5, <2>8 DEF ViewInv
<1> QED
  BY <1>9, <1>10

\* An event is dropped with the rest of the stream only after a cancel.
LEMMA StoppingKeepsView ==
    ASSUME ViewInv, out # <<>>, run.status # "running", out' = <<>>, kernel' = Stop,
           UNCHANGED <<material, now, cancel, run, trail, reader, damage>>
    PROVE  ViewInv'
<1>1. run.status = "cancelled" /\ cancelled /\ cancelled' /\ run.kind = "main_agent"
  BY ViewFacts DEF ViewInv, RowFits, Run, RunStatuses, RunKinds, cancelled
<1>2. kernel' = [kernel EXCEPT !.pc = "over"]
  BY DEF Stop
<1>3. /\ kernel' \in KernelState /\ kernel'.pc = "over"
      /\ kernel'.step = kernel.step /\ kernel'.decisions = kernel.decisions
      /\ kernel'.calls = kernel.calls /\ kernel'.loads = kernel.loads
      /\ kernel'.loaded = kernel.loaded /\ kernel'.delivery = kernel.delivery
      /\ kernel'.decision = kernel.decision /\ kernel'.canceled = kernel.canceled
  BY <1>2, ViewFacts DEF KernelState, Pcs
<1>4. KernelInv'
  BY <1>3, KernelEnds DEF ViewInv
<1>5. StageFits'
  BY <1>1, <1>3 DEF ViewInv, StageFits
<1>6. OutFits'
  BY DEF OutFits
<1>7. GoesOn
  BY <1>3, ViewFacts DEF GoesOn, Loaded
<1>8. TrailFits'
  <2>1. \A i \in DOMAIN trail : EventFits(kernel', trail[i])
    BY <1>3, <1>7, EventStays DEF ViewInv, TrailFits
  <2> QED
    BY <2>1 DEF ViewInv, TrailFits, DoneStored
<1>9. ToldFits' /\ StepsFit'
  BY <1>1 DEF ToldFits, StepsFit
<1>10. RowFits'
  BY <1>1, <1>3 DEF ViewInv, RowFits, StoredDelivery, Grounding
<1>11. ReaderFits'
  BY <1>3 DEF ViewInv, ReaderFits, StoredDelivery, Grounding
<1> QED
  BY <1>4, <1>5, <1>6, <1>8, <1>9, <1>10, <1>11 DEF ViewInv

LEMMA StoreEventKeepsView == ASSUME ViewInv, StoreEvent PROVE ViewInv'
  BY StoringKeepsView, StoppingKeepsView DEF StoreEvent, MayAppend

\* What a delivery names is a capability of the Run.
LEMMA GroundingFits ==
    ASSUME ViewInv
    PROVE  Grounding \in Knowledge \cup Execution \cup {"none"}
<1>1. CASE kernel.delivery = "answer_with_knowledge"
  <2>1. kernel.loaded \in Seq(Knowledge) /\ kernel.loaded # <<>>
    BY <1>1, ViewFacts DEF KernelState, ViewInv, StageFits
  <2>2. kernel.loaded[Len(kernel.loaded)] \in Knowledge
    BY <2>1
  <2> QED
    BY <1>1, <2>2 DEF Grounding
<1>2. CASE kernel.delivery # "answer_with_knowledge"
  BY <1>2 DEF Grounding, ViewInv, StageFits
<1> QED
  BY <1>1, <1>2

\* A step of the row alone keeps what is known of the kernel and of the trail.
LEMMA RowAlone ==
    ASSUME ViewInv, UNCHANGED <<kernel, material, now, cancel, out, trail>>
    PROVE  KernelInv' /\ StageFits' /\ OutFits' /\ TrailFits' /\ ToldFits' /\ StepsFit'
  BY DEF ViewInv, KernelInv, CancelFits, KernelTypeOK, DeliveriesPassValidation,
         Missing, Begun, StageFits, OutFits, TrailFits, DoneStored, ToldFits, StepsFit,
         DoneOnItsWay, Tells, Signals, cancelled

\* The end of the stream: the outcome has been told, or there is none.
LEMMA StoreEndKeepsView == ASSUME ViewInv, StoreEnd PROVE ViewInv'
<1>1. /\ out # <<>> /\ out' = <<>> /\ Head(out) = out[1] /\ 1 \in DOMAIN out
      /\ UNCHANGED <<kernel, material, now, cancel, trail, reader, damage>>
      /\ Head(out).type \in StreamEnds
  BY ViewFacts, TailOf DEF StoreEnd
<1>2. /\ run.kind = "main_agent" /\ run.status # "queued" /\ kernel.pc = "over"
      /\ (out[1].type = "delivery" => kernel.delivery # "none")
  BY <1>1, ViewFacts DEF ViewInv, RowFits, OutFits, ItemFits, Run, RunKinds
<1>3. ~ DoneOnItsWay /\ ~ \E d, id : Signals(d, id)
  <2>1. \A i \in DOMAIN out : out[i].type \notin {"agent_done", "route_decided"}
    <3>1. TAKE i \in DOMAIN out
    <3>2. out[i].type # "route_decided"
      BY <1>2 DEF ViewInv, OutFits, ItemFits
    <3>3. out[i].type = "agent_done" => i = 1
      <4>1. i >= 1
        BY ViewFacts
      <4> QED
        BY <1>1, <4>1, ViewFacts DEF ViewInv, OutFits
    <3> QED
      BY <1>1, <3>2, <3>3 DEF StreamEnds
  <2> QED
    BY <2>1 DEF DoneOnItsWay, Signals
<1>4. KernelInv' /\ StageFits'
  BY <1>1 DEF ViewInv, KernelInv, CancelFits, KernelTypeOK, DeliveriesPassValidation,
         Missing, Begun, StageFits, cancelled
<1>5. OutFits' /\ TrailFits'
  BY <1>1 DEF ViewInv, OutFits, TrailFits, DoneStored
<1>6. ToldFits' /\ StepsFit'
  <2>1. DOMAIN out' = {}
    BY <1>1
  <2> QED
    BY <1>1, <1>3, <2>1 DEF ViewInv, ToldFits, StepsFit, Tells, Signals, DoneOnItsWay, DoneStored, cancelled
<1>7. CASE run.status = "running" /\ kernel.delivery # "none"
             /\ run' = [run EXCEPT !.status = "succeeded", !.delivery = StoredDelivery]
  <2>1. StoredDelivery \in Delivery
    BY <1>7, GroundingFits, ViewFacts DEF StoredDelivery, Delivery, Deliveries, KernelState
  <2>2. StoredDelivery # NoDelivery /\ StoredDelivery' = StoredDelivery
    BY <1>1, <1>7 DEF StoredDelivery, NoDelivery, Grounding
  <2> HIDE DEF StoredDelivery
  <2>3. /\ run' \in Run /\ run'.kind = run.kind /\ run'.result = run.result
        /\ run'.delivery = StoredDelivery /\ run'.status = "succeeded"
    BY <1>7, <2>1, ViewFacts DEF Run, RunStatuses
  <2>4. RowFits'
    BY <1>1, <1>2, <1>7, <2>2, <2>3 DEF ViewInv, RowFits, cancelled
  <2>5. ReaderFits'
    BY <1>1, <1>7, <2>2, <2>3 DEF ViewInv, ReaderFits, TerminalStatuses
  <2> QED
    BY <1>1, <1>4, <1>5, <1>6, <2>4, <2>5 DEF ViewInv
<1>8. CASE run.status = "running" /\ run' = [run EXCEPT !.status = "failed"]
  <2>1. /\ run' \in Run /\ run'.kind = run.kind /\ run'.result = run.result
        /\ run'.delivery = run.delivery /\ run'.status = "failed"
    BY <1>8, ViewFacts DEF Run, RunStatuses
  <2>2. RowFits'
    BY <1>1, <1>2, <1>8, <2>1 DEF ViewInv, RowFits, cancelled
  <2>3. ReaderFits'
    BY <1>1, <1>8, <2>1 DEF ViewInv, ReaderFits, TerminalStatuses, StoredDelivery, Grounding
  <2> QED
    BY <1>1, <1>4, <1>5, <1>6, <2>2, <2>3 DEF ViewInv
<1>9. CASE run' = run
  <2>1. RowFits'
    BY <1>1, <1>2, <1>9 DEF ViewInv, RowFits, cancelled, StoredDelivery, Grounding
  <2>2. ReaderFits'
    BY <1>1, <1>9 DEF ViewInv, ReaderFits, StoredDelivery, Grounding
  <2> QED
    BY <1>1, <1>4, <1>5, <1>6, <2>1, <2>2 DEF ViewInv
<1> QED
  BY <1>1, <1>2, <1>7, <1>8, <1>9 DEF StoreEnd, StoredDelivery

\* The executor of a diagnosis, and a stored delivery that becomes unreadable
LEMMA RowKeepsView ==
    ASSUME ViewInv, FinishDiagnosis \/ Damage
    PROVE  ViewInv'
<1>1. UNCHANGED <<kernel, material, now, cancel, out, trail, reader>>
  BY DEF FinishDiagnosis, Damage, kernelVars
<1>2. KernelInv' /\ StageFits' /\ OutFits' /\ TrailFits' /\ ToldFits' /\ StepsFit'
  BY <1>1, RowAlone
<1>3. StoredDelivery' = StoredDelivery
  BY <1>1 DEF StoredDelivery, Grounding
<1>4. damage' \in 0 .. MaxDamage
  BY ViewAssumption DEF FinishDiagnosis, Damage, ViewInv
<1>5. CASE FinishDiagnosis
  <2>1. /\ run.kind = "diagnosis" /\ run.status = "running"
        /\ run' \in Run /\ run'.kind = run.kind /\ run'.delivery = run.delivery
        /\ \/ run'.status = "succeeded" /\ run'.result
           \/ run'.status = "failed" /\ run'.result = run.result
    BY <1>5, ViewFacts DEF FinishDiagnosis, Run, RunStatuses
  <2>2. RowFits'
    BY <1>1, <1>3, <2>1 DEF ViewInv, RowFits, cancelled
  <2>3. ReaderFits'
    BY <1>1, <1>3, <2>1 DEF ViewInv, ReaderFits, RowFits, TerminalStatuses
  <2> QED
    BY <1>2, <1>4, <2>2, <2>3 DEF ViewInv
<1>6. CASE Damage
  <2>1. /\ run.delivery # NoDelivery /\ run' = [run EXCEPT !.delivery = Unreadable]
        /\ Unreadable # NoDelivery /\ Unreadable \in Delivery
    BY <1>6 DEF Damage, Unreadable, NoDelivery, Delivery
  <2>2. /\ run' \in Run /\ run'.kind = run.kind /\ run'.result = run.result
        /\ run'.status = run.status /\ run'.delivery = Unreadable
    BY <2>1, ViewFacts DEF Run
  <2>3. RowFits'
    BY <1>1, <2>1, <2>2 DEF ViewInv, RowFits, cancelled
  <2>4. ReaderFits'
    BY <1>1, <1>3, <2>1, <2>2 DEF ViewInv, ReaderFits
  <2> QED
    BY <1>2, <1>4, <2>3, <2>4 DEF ViewInv
<1> QED
  BY <1>5, <1>6

LEMMA CancelKeepsView == ASSUME ViewInv, CancelRun PROVE ViewInv'
<1>1. /\ run.status \in {"queued", "running"} /\ run' = [run EXCEPT !.status = "cancelled"]
      /\ cancel' = [at |-> kernel.pc, begun |-> Begun]
      /\ UNCHANGED <<kernel, material, now, out, trail, reader, damage>>
  BY DEF CancelRun, Begun
<1>2. /\ kernel.pc \in Pcs /\ Begun \in Nat /\ Begun' = Begun
      /\ Missing' = Missing
  BY <1>1, KernelStateOf DEF ViewInv, KernelState, Begun, Missing
<1>3. /\ cancel'.at = kernel.pc /\ cancel'.begun = Begun
      /\ cancel' \in [at : Pcs \cup {"none"}, begun : Nat]
  BY <1>1, <1>2
<1>4. KernelInv'
  <2>1. CancelFits'
    BY <1>1, <1>2, <1>3 DEF ViewInv, KernelInv, CancelFits, Pcs
  <2>2. DeliveriesPassValidation'
    BY <1>1, <1>2 DEF ViewInv, KernelInv, DeliveriesPassValidation
  <2>3. KernelTypeOK'
    <3>1. kernel \in KernelState /\ material \in SUBSET Sides /\ now \in Nat
      BY DEF ViewInv, KernelInv, KernelTypeOK
    <3>2. kernel' = kernel /\ material' = material /\ now' = now
      BY <1>1
    <3> QED
      BY <1>3, <3>1, <3>2 DEF KernelTypeOK
  <2>4. kernel' = kernel /\ now' = now
    BY <1>1
  <2> QED
    BY <1>2, <2>1, <2>2, <2>3, <2>4 DEF ViewInv, KernelInv
<1>5. cancelled'
  BY <1>2, <1>3 DEF cancelled, Pcs
<1>6. StageFits' /\ OutFits' /\ TrailFits' /\ ToldFits' /\ StepsFit'
  BY <1>1, <1>5 DEF ViewInv, StageFits, OutFits, TrailFits, DoneStored, ToldFits, StepsFit
<1>7. /\ run' \in Run /\ run'.kind = run.kind /\ run'.result = run.result
      /\ run'.delivery = run.delivery /\ run'.status = "cancelled"
  BY <1>1, ViewFacts DEF Run, RunStatuses
<1>8. RowFits'
  BY <1>1, <1>5, <1>7 DEF ViewInv, RowFits
<1>9. ReaderFits'
  BY <1>1, <1>7 DEF ViewInv, ReaderFits, TerminalStatuses, StoredDelivery, Grounding
<1> QED
  BY <1>1, <1>4, <1>6, <1>8, <1>9 DEF ViewInv

LEMMA NoReadIsRead == NoRead \in Reads
<1>1. <<>> \in Seq(StoredEvent)
  OBVIOUS
<1> QED
  BY <1>1 DEF NoRead, Reads

\* The statements of a read
LEMMA ReadsKeepView ==
    ASSUME ViewInv, OpenRead \/ ReadDelivery \/ ReadEvents \/ ReadClosed
    PROVE  ViewInv'
<1>1. UNCHANGED <<kernel, material, now, cancel, out, run, trail, damage>>
  BY DEF OpenRead, ReadDelivery, ReadEvents, ReadClosed, kernelVars
<1>2. KernelInv' /\ StageFits' /\ OutFits' /\ TrailFits' /\ ToldFits' /\ StepsFit'
  BY <1>1, RowAlone
<1>3. RowFits' /\ StoredDelivery' = StoredDelivery
  BY <1>1 DEF ViewInv, RowFits, StoredDelivery, Grounding, cancelled
<1>4. run.status \in RunStatuses /\ run.kind \in {"main_agent", "diagnosis"} /\ run.result \in BOOLEAN
      /\ "none" \notin RunStatuses
  BY ViewFacts DEF Run, RunKinds, RunStatuses
<1>5. CASE OpenRead
  <2>1. PICK page \in Pages :
          reader' = [NoRead EXCEPT !.page = page, !.status = run.status,
                       !.pc = IF page = "detail" THEN "delivery"
                              ELSE IF run.kind = "main_agent" THEN "events" ELSE "done"]
    BY <1>5 DEF OpenRead
  <2>2. /\ reader'.page = page /\ reader'.status = run.status
        /\ reader'.pc = IF page = "detail" THEN "delivery"
                        ELSE IF run.kind = "main_agent" THEN "events" ELSE "done"
    BY <2>1 DEF NoRead
  <2>3. reader' \in Reads
    BY <1>4, <2>1, NoReadIsRead DEF Reads
  <2>4. ReaderFits'
    BY <1>1, <1>4, <2>2, <2>3 DEF ReaderFits, TerminalStatuses, Pages
  <2> QED
    BY <1>1, <1>2, <1>3, <2>4 DEF ViewInv
<1>6. CASE ReadDelivery
  <2>1. /\ reader.pc = "delivery"
        /\ reader' = [reader EXCEPT !.result = run.result, !.delivery = run.delivery,
                                    !.pc = IF run.kind = "main_agent" THEN "events" ELSE "done"]
    BY <1>6 DEF ReadDelivery
  <2>2. reader \in Reads /\ reader.page = "detail" /\ reader.status # "none"
    BY <2>1 DEF ViewInv, ReaderFits
  <2>3. run.delivery \in Delivery \cup {NoDelivery}
    BY ViewFacts DEF Run
  <2>4. /\ reader' \in Reads /\ reader'.result = run.result /\ reader'.delivery = run.delivery
        /\ reader'.page = "detail" /\ reader'.status = reader.status
        /\ reader'.pc = IF run.kind = "main_agent" THEN "events" ELSE "done"
    BY <1>4, <2>1, <2>2, <2>3 DEF Reads
  <2>5. ReaderFits'
    BY <1>1, <1>3, <1>4, <2>1, <2>2, <2>4 DEF ViewInv, ReaderFits, RowFits
  <2> QED
    BY <1>1, <1>2, <1>3, <2>5 DEF ViewInv
<1>7. CASE ReadEvents
  <2>1. /\ reader.pc = "events"
        /\ reader' = [reader EXCEPT !.pc = "done",
                        !.events = IF reader.status \in TerminalStatuses THEN trail ELSE <<>>]
    BY <1>7 DEF ReadEvents
  <2>2. reader \in Reads /\ trail \in Seq(StoredEvent) /\ <<>> \in Seq(StoredEvent)
    BY DEF ViewInv, ReaderFits, TrailFits
  <2>3. /\ reader' \in Reads /\ reader'.pc = "done" /\ reader'.page = reader.page
        /\ reader'.status = reader.status /\ reader'.result = reader.result
        /\ reader'.delivery = reader.delivery
        /\ reader'.events = IF reader.status \in TerminalStatuses THEN trail ELSE <<>>
    BY <2>1, <2>2 DEF Reads
  <2>4. ReaderFits'
    BY <1>1, <1>3, <2>1, <2>2, <2>3 DEF ViewInv, ReaderFits
  <2> QED
    BY <1>1, <1>2, <1>3, <2>4 DEF ViewInv
<1>8. CASE ReadClosed
  <2>1. reader' = NoRead
    BY <1>8 DEF ReadClosed
  <2>2. reader'.pc = "none" /\ reader'.page = "none" /\ reader'.status = "none"
    BY <2>1 DEF NoRead
  <2>3. ReaderFits'
    BY <2>1, <2>2, NoReadIsRead DEF ReaderFits, TerminalStatuses
  <2> QED
    BY <1>1, <1>2, <1>3, <2>3 DEF ViewInv
<1> QED
  BY <1>5, <1>6, <1>7, <1>8

LEMMA ViewInitFits == ViewInit => ViewInv
<1> SUFFICES ASSUME ViewInit PROVE ViewInv
  OBVIOUS
<1>1. /\ KernelInit /\ out = <<>> /\ trail = <<>> /\ reader = NoRead /\ damage = 0
      /\ run \in [kind : RunKinds, status : {"queued"}, result : {FALSE},
                  delivery : {NoDelivery}]
  BY DEF ViewInit
<1>2. /\ kernel.pc = "start" /\ kernel.decisions = 0 /\ kernel.loaded = <<>> /\ kernel.delivery = "none"
      /\ ~ kernel.canceled /\ now = 0 /\ ~ cancelled
  BY <1>1 DEF KernelInit, NewKernel, cancelled
<1>3. /\ run \in Run /\ run.status = "queued" /\ ~ run.result /\ run.delivery = NoDelivery
      /\ run.kind \in RunKinds
  BY <1>1 DEF Run, RunStatuses
<1>4. KernelInv
  BY <1>1, KernelInitFits
<1>5. StageFits
  BY <1>2 DEF StageFits
<1>6. OutFits /\ TrailFits
  <2>1. DOMAIN out = {} /\ DOMAIN trail = {} /\ out \in Seq(Items) /\ trail \in Seq(StoredEvent)
    BY <1>1
  <2> QED
    BY <2>1 DEF OutFits, TrailFits, DoneStored
<1>7. ToldFits
  BY <1>2 DEF ToldFits, WasUsed, Loaded
<1>8. StepsFit
  <2>1. DOMAIN out = {} /\ DOMAIN trail = {}
    BY <1>1
  <2> QED
    BY <2>1 DEF StepsFit
<1>9. RowFits
  BY <1>1, <1>2, <1>3 DEF RowFits
<1>10. ReaderFits
  <2>1. reader.pc = "none" /\ reader.page = "none" /\ reader.status = "none"
    BY <1>1 DEF NoRead
  <2> QED
    BY <1>1, <2>1, NoReadIsRead DEF ReaderFits, TerminalStatuses
<1> QED
  BY <1>1, <1>4, <1>5, <1>6, <1>7, <1>8, <1>9, <1>10, ViewAssumption DEF ViewInv

LEMMA ViewStepFits ==
    ASSUME ViewInv, [ViewNext]_viewVars
    PROVE  ViewInv'
<1>1. CASE UNCHANGED viewVars
  <2>1. UNCHANGED <<kernel, material, now, cancel, out, run, trail, reader, damage>>
    BY <1>1 DEF viewVars, kernelVars
  <2>2. KernelInv' /\ StageFits' /\ OutFits' /\ TrailFits' /\ ToldFits' /\ StepsFit'
    BY <2>1, RowAlone
  <2>3. RowFits' /\ ReaderFits'
    BY <2>1 DEF ViewInv, RowFits, ReaderFits, StoredDelivery, Grounding, cancelled
  <2> QED
    BY <2>1, <2>2, <2>3 DEF ViewInv
<1>2. CASE ViewNext
  BY <1>2, ClaimKeepsView, WorkKeepsView, StoreEventKeepsView, StoreEndKeepsView, RowKeepsView,
     CancelKeepsView, ReadsKeepView DEF ViewNext
<1> QED
  BY <1>1, <1>2

LEMMA ViewInvHolds == ViewSpec => []ViewInv
<1>1. ViewInit => ViewInv
  BY ViewInitFits
<1>2. ViewInv /\ [ViewNext]_viewVars => ViewInv'
  BY ViewStepFits
<1> QED
  BY <1>1, <1>2, PTL DEF ViewSpec

\* A read that found the outcome of a Run which was over when its row was read is not refused.
LEMMA TornReads == ViewInv => OnlyTornReadsAreRefused
<1> SUFFICES ASSUME ViewInv, Refused
             PROVE  reader.status \in {"queued", "running"} /\ run.status = "succeeded"
  BY DEF OnlyTornReadsAreRefused
<1>1. /\ reader.pc = "done" /\ reader.page = "detail" /\ ~ Consistent(Resource)
      /\ reader.status \in {"queued", "running", "succeeded", "failed", "cancelled"}
      /\ run.kind \in {"main_agent", "diagnosis"}
  BY ViewFacts DEF Refused, ViewInv, ReaderFits, Reads, RunStatuses, Run, RunKinds
<1>2. PICK delivery : delivery = Shown(reader.delivery)
  OBVIOUS
<1>3. PICK deliveryStatus : deliveryStatus = DeliveryStatus(reader.status, reader.delivery)
  OBVIOUS
<1>4. CASE run.kind = "diagnosis"
  <2>1. ~ (reader.result <=> reader.status = "succeeded")
    BY <1>1, <1>4 DEF Consistent, Resource
  <2> QED
    BY <1>1, <1>4, <2>1 DEF ViewInv, RowFits, ReaderFits, TerminalStatuses
<1>5. CASE run.kind = "main_agent"
  <2>1. ~ reader.result /\ ~ run.result
    BY <1>1, <1>5 DEF ViewInv, RowFits, ReaderFits
  <2>2. ~ /\ IF reader.status = "succeeded"
             THEN delivery # NoDelivery \/ deliveryStatus = "unavailable"
             ELSE delivery = NoDelivery /\ deliveryStatus \in {"none", "absent"}
          /\ (IF reader.status \in TerminalStatuses THEN GroundedIn(delivery) ELSE "none")
               = GroundedIn(delivery)
    BY <1>1, <1>2, <1>3, <1>5, <2>1 DEF Consistent, Resource
  <2>3. NoDelivery.kind # "unreadable" /\ GroundedIn(NoDelivery) = "none"
    BY DEF NoDelivery, GroundedIn
  <2>4. CASE reader.status \in TerminalStatuses
    <3>1. /\ run.status = reader.status
          /\ (reader.delivery # NoDelivery <=> run.delivery # NoDelivery)
      BY <1>1, <2>4 DEF ViewInv, ReaderFits
    <3>2. reader.delivery # NoDelivery <=> reader.status = "succeeded"
      BY <1>5, <3>1 DEF ViewInv, RowFits
    <3>3. CASE reader.status = "succeeded"
      BY <1>2, <1>3, <2>2, <2>4, <3>2, <3>3 DEF Shown, DeliveryStatus
    <3>4. CASE reader.status # "succeeded"
      BY <1>2, <1>3, <2>2, <2>3, <2>4, <3>2, <3>4 DEF Shown, DeliveryStatus
    <3> QED
      BY <3>3, <3>4
  <2>5. CASE reader.status \notin TerminalStatuses
    <3>1. reader.status \in {"queued", "running"}
      BY <1>1, <2>5 DEF TerminalStatuses
    <3>2. reader.delivery # NoDelivery
      BY <1>2, <1>3, <2>2, <2>3, <2>5, <3>1 DEF Shown, DeliveryStatus
    <3>3. run.status = "succeeded"
      BY <1>1, <1>5, <3>2 DEF ViewInv, RowFits, ReaderFits
    <3> QED
      BY <3>1, <3>3
  <2> QED
    BY <2>4, <2>5
<1> QED
  BY <1>1, <1>4, <1>5

\* services.py, resources.py and schemas.py: whatever the executor stores of a Run, at whatever
\* moment it is cancelled or its delivery damaged, is read back without a contradiction, but by
\* a read that the end of the Run overtook.
THEOREM RowsCanAlwaysBeRead == ViewSpec => []RowsCanBeRead
<1>1. ViewInv => ViewTypeOK
  BY ViewFacts DEF ViewInv, KernelInv, ReaderFits, Reads, ViewTypeOK
<1>2. ViewInv => RowsCanBeRead
  BY <1>1, TornReads DEF RowsCanBeRead
<1> QED
  BY <1>2, ViewInvHolds, PTL

\* services.py _append_execution_event, _complete_main_success and cancel_run: no later step
\* adds an event to a Run that is over, or changes its outcome otherwise than by damaging it.
THEOREM EndedViewsAreFinal == ViewSpec => TerminalViewsAreFinal
<1> DEFINE Final == /\ trail' = trail /\ run'.status = run.status /\ run'.result = run.result
                    /\ run'.delivery \in {run.delivery, Unreadable}
<1>1. ASSUME ViewInv, HasEnded, [ViewNext]_viewVars
      PROVE  Final
  <2>1. run.status \notin {"queued", "running"} /\ run \in Run
    BY <1>1, ViewFacts DEF HasEnded, TerminalStatuses
  <2>2. CASE run' = run /\ trail' = trail
    BY <2>2
  <2>3. CASE Damage
    <3>1. trail' = trail /\ run' = [run EXCEPT !.delivery = Unreadable]
      BY <2>3 DEF Damage
    <3> QED
      BY <2>1, <3>1 DEF Run
  <2>4. Claim \/ ClaimFails \/ FinishDiagnosis \/ CancelRun => FALSE
    BY <2>1 DEF Claim, ClaimFails, FinishDiagnosis, CancelRun
  <2>5. StoreEvent \/ StoreEnd => run' = run /\ trail' = trail
    BY <2>1 DEF StoreEvent, MayAppend, StoreEnd
  <2>6. Work \/ UNCHANGED viewVars => run' = run /\ trail' = trail
    BY DEF Work, rowVars, viewVars
  <2>7. OpenRead \/ ReadDelivery \/ ReadEvents \/ ReadClosed
          => run' = run /\ trail' = trail
    BY DEF OpenRead, ReadDelivery, ReadEvents, ReadClosed
  <2> QED
    BY <1>1, <2>2, <2>3, <2>4, <2>5, <2>6, <2>7 DEF ViewNext
<1>2. ViewInv /\ [ViewNext]_viewVars => [HasEnded => Final]_viewVars
  BY <1>1
<1> QED
  BY <1>2, ViewInvHolds, PTL DEF ViewSpec, TerminalViewsAreFinal

\* The highest of some numbers up to a bound
LEMMA HighestOf ==
    ASSUME NEW steps \in SUBSET Nat, NEW n \in Nat, steps # {}, \A s \in steps : s <= n
    PROVE  Highest(steps) \in steps /\ \A s \in steps : s <= Highest(steps)
<1> DEFINE R == {p \in Nat \X Nat : p[1] < p[2]}
           bounds == {b \in Nat : \A s \in steps : s <= b}
<1>1. IsWellFoundedOn(R, Nat)
  BY NatLessThanWellFounded DEF OpToRel
<1>2. PICK b \in bounds : \A c \in bounds : ~ (<<c, b>> \in R)
  <2>1. n \in bounds /\ bounds \subseteq Nat
    OBVIOUS
  <2> HIDE DEF R, bounds
  <2> QED
    BY <1>1, <2>1, WFMin
<1>3. b \in Nat /\ \A c \in bounds : ~ (c < b)
  BY <1>2
<1>4. \A s \in steps : s <= b
  BY <1>2
<1>5. b \in steps
  <2> SUFFICES ASSUME b \notin steps PROVE FALSE
    OBVIOUS
  <2> HIDE DEF R, bounds
  <2>1. \A s \in steps : s \in Nat /\ s # b
    OBVIOUS
  <2>2. \A s \in steps : s <= b - 1
    BY <1>3, <1>4, <2>1
  <2>3. b - 1 \in Nat
    <3>1. PICK s : s \in steps
      OBVIOUS
    <3>2. s \in Nat /\ s <= b - 1 /\ b \in Nat
      BY <1>3, <2>1, <2>2, <3>1
    <3> QED
      BY <3>2
  <2>4. b - 1 \in bounds
    BY <2>2, <2>3 DEF bounds
  <2> QED
    BY <1>3, <2>4
<1> QED
  BY <1>4, <1>5 DEF Highest

\* Events that a view shows tell what happened.
LEMMA TrailReads == ViewInv => TrailsAreReadable
<1> SUFFICES ASSUME ViewInv PROVE Readable(trail)
  BY DEF TrailsAreReadable
<1>1. ASSUME NEW i \in DOMAIN trail
      PROVE  /\ trail[i].step \in 1 .. MaxDecisions
             /\ trail[i].type = "route_decided" =>
                  /\ trail[i].decision \in RouteDecisions
                  /\ trail[i].cap # "none" =>
                       /\ trail[i].status # "none"
                       /\ trail[i].status = "ok" => trail[i].decision \in {"load_skill", "invoke_capability"}
             /\ trail[i].type = "agent_done" => trail[i].decision \in DoneOutcomes
  BY DEF ViewInv, TrailFits, EventFits, WasUsed
<1> QED
  BY <1>1 DEF Readable, Routes, Dones, Range

\* The uses that the trail tells
LEMMA UsesTold ==
    ASSUME ViewInv, NEW status
    PROVE  \A u : u \in Uses(trail, status) <=>
             \E i \in DOMAIN trail :
               /\ trail[i].type = "route_decided" /\ trail[i].cap # "none" /\ trail[i].status = status
               /\ u = [cap |-> trail[i].cap, status |-> ItemStatus(trail[i])]
<1>1. \A e : e \in Routes(trail) <=> \E i \in DOMAIN trail : e = trail[i] /\ e.type = "route_decided"
  BY DEF Routes, Range
<1>2. \A u : u \in Uses(trail, status) <=>
         \E e \in Routes(trail) : /\ e.cap # "none" /\ e.status = status
                                  /\ u = [cap |-> e.cap, status |-> ItemStatus(e)]
  BY DEF Uses
<1> HIDE DEF ItemStatus
<1> QED
  BY <1>1, <1>2

\* What the trail tells as used was: a skill loaded, or the capability called.
LEMMA UsesHappened ==
    ASSUME ViewInv, NEW u \in Uses(trail, "ok")
    PROVE  /\ u = [cap |-> u.cap, status |-> u.status] /\ u.cap # "none"
           /\ \/ u.status = "loaded" /\ Loaded(kernel, u.cap) /\ u.cap \in Knowledge
              \/ u.status = "ok" /\ kernel.delivery = "comparison" /\ u.cap = kernel.decision.id
                   /\ u.cap \in Execution
<1>1. PICK i \in DOMAIN trail :
        /\ trail[i].type = "route_decided" /\ trail[i].cap # "none" /\ trail[i].status = "ok"
        /\ u = [cap |-> trail[i].cap, status |-> ItemStatus(trail[i])]
  BY UsesTold
<1>2. u.cap = trail[i].cap /\ u.status = ItemStatus(trail[i]) /\ u = [cap |-> u.cap, status |-> u.status]
  BY <1>1
<1>3. WasUsed(kernel, trail[i].decision, u.cap)
  BY <1>1, <1>2 DEF ViewInv, TrailFits, EventFits
<1>4. CASE trail[i].decision = "load_skill"
  <2>1. u.status = "loaded" /\ Loaded(kernel, u.cap)
    BY <1>1, <1>2, <1>3, <1>4 DEF ItemStatus, WasUsed
  <2>2. kernel.loaded \in Seq(Knowledge)
    BY ViewFacts DEF KernelState
  <2>3. u.cap \in Knowledge
    BY <2>1, <2>2 DEF Loaded
  <2> QED
    BY <1>1, <1>2, <2>1, <2>3
<1>5. CASE trail[i].decision # "load_skill"
  <2>1. u.status = "ok" /\ kernel.delivery = "comparison" /\ u.cap = kernel.decision.id
    BY <1>1, <1>2, <1>3, <1>5 DEF ItemStatus, WasUsed
  <2>2. u.cap \in Execution
    BY <2>1 DEF ViewInv, StageFits
  <2> QED
    BY <1>1, <1>2, <2>1, <2>2
<1> QED
  BY <1>4, <1>5

\* A capability is used in one way.
LEMMA UsesAreOne ==
    ASSUME ViewInv, NEW u \in Uses(trail, "ok"), NEW v \in Uses(trail, "ok"), u.cap = v.cap
    PROVE  u = v
  BY UsesHappened, CapabilityAssumption

\* Once its stream is over, what the kernel used is told, unless the Run was cancelled.
LEMMA UsesAreTold ==
    ASSUME ViewInv, ~ cancelled, out = <<>>,
           NEW d \in {"load_skill", "invoke_capability"}, NEW id \in Knowledge \cup Execution,
           WasUsed(kernel, d, id)
    PROVE  [cap |-> id, status |-> IF d = "load_skill" THEN "loaded" ELSE "ok"] \in Uses(trail, "ok")
<1>1. ~ Signals(d, id)
  BY DEF Signals
<1>2. PICK i \in DOMAIN trail :
        /\ trail[i].type = "route_decided" /\ trail[i].status = "ok"
        /\ trail[i].decision = d /\ trail[i].cap = id
  BY <1>1 DEF ViewInv, ToldFits, Tells
<1>3. ItemStatus(trail[i]) = IF d = "load_skill" THEN "loaded" ELSE "ok"
  BY <1>2 DEF ItemStatus
<1>4. id # "none"
  BY CapabilityAssumption
<1> QED
  BY <1>2, <1>3, <1>4, UsesTold

\* A delivery that a reader may be given: none, or the one that was stored
Given(delivery) ==
    \/ delivery = NoDelivery
    \/ /\ run.kind = "main_agent" /\ run.status = "succeeded" /\ kernel.delivery # "none"
       /\ delivery = StoredDelivery

\* What a delivery proves is in the trail, so that it adds nothing to what a live view has.
LEMMA ProvedIsTold ==
    ASSUME ViewInv, NEW delivery, Given(delivery)
    PROVE  Proved(delivery) \subseteq Uses(trail, "ok")
<1> SUFFICES ASSUME NEW u \in Proved(delivery) PROVE u \in Uses(trail, "ok")
  OBVIOUS
<1>1. /\ delivery.cap # "none"
      /\ u = [cap |-> delivery.cap, status |-> IF delivery.kind = "comparison" THEN "ok" ELSE "loaded"]
  BY DEF Proved
<1>2. /\ run.kind = "main_agent" /\ run.status = "succeeded" /\ kernel.delivery # "none"
      /\ delivery = StoredDelivery
  BY <1>1 DEF Given, NoDelivery
<1>3. delivery.kind = kernel.delivery /\ delivery.cap = Grounding
  BY <1>2 DEF StoredDelivery
<1>4. ~ cancelled /\ out = <<>>
  BY <1>2 DEF ViewInv, RowFits
<1>5. CASE kernel.delivery = "comparison"
  <2>1. /\ u = [cap |-> kernel.decision.id, status |-> "ok"]
        /\ WasUsed(kernel, "invoke_capability", kernel.decision.id) /\ kernel.decision.id \in Execution
    BY <1>1, <1>3, <1>5 DEF Grounding, WasUsed, ViewInv, StageFits
  <2> QED
    BY <1>4, <2>1, UsesAreTold
<1>6. CASE kernel.delivery = "answer_with_knowledge"
  <2>1. kernel.loaded \in Seq(Knowledge) /\ kernel.loaded # <<>>
    BY <1>6, ViewFacts DEF KernelState, ViewInv, StageFits
  <2>2. PICK id : id = kernel.loaded[Len(kernel.loaded)]
    OBVIOUS
  <2>3. Len(kernel.loaded) \in DOMAIN kernel.loaded /\ id \in Knowledge
    BY <2>1, <2>2
  <2>4. WasUsed(kernel, "load_skill", id)
    BY <2>2, <2>3 DEF WasUsed, Loaded
  <2>5. u = [cap |-> id, status |-> "loaded"]
    BY <1>1, <1>3, <1>6, <2>2 DEF Grounding
  <2> QED
    BY <1>4, <2>3, <2>4, <2>5, UsesAreTold
<1> QED
  BY <1>1, <1>3, <1>5, <1>6 DEF Grounding

LEMMA UsedAreUses ==
    ASSUME ViewInv, NEW delivery, Given(delivery)
    PROVE  Besides(Uses(trail, "ok"), Proved(delivery)) \cup Proved(delivery)
             = Uses(trail, "ok")
<1> DEFINE uses == Uses(trail, "ok")
           proved == Proved(delivery)
<1>1. proved \subseteq uses /\ \A u, v \in uses : u.cap = v.cap => u = v
  BY ProvedIsTold, UsesAreOne
<1> HIDE DEF uses, proved
<1>2. \A u \in uses : u.cap \in Caps(proved) => u \in proved
  BY <1>1 DEF Caps
<1>3. Besides(uses, proved) \cup proved = uses
  BY <1>1, <1>2 DEF Besides
<1> QED
  BY <1>3 DEF uses, proved

\* The steps a live view counts are those of the outcome, or the highest of the decisions.
LEMMA StepsAgree ==
    ASSUME ViewInv
    PROVE  LiveSteps(trail) = IF Dones(trail) # {} THEN (CHOOSE e \in Dones(trail) : TRUE).step
                              ELSE MaxStep(trail)
<1>1. trail \in Seq(StoredEvent) /\ \A i \in DOMAIN trail : trail[i].type = "agent_done" => i = Len(trail)
  BY DEF ViewInv, TrailFits
<1>2. \A i \in DOMAIN trail : trail[i].type \in {"route_decided", "agent_done"} /\ trail[i].step \in 1 .. MaxDecisions
  BY DEF ViewInv, TrailFits, EventFits, StoredEvent
<1>3. CASE DoneStored
  <2>1. /\ Len(trail) \in DOMAIN trail /\ trail[Len(trail)].type = "agent_done"
        /\ \A i \in DOMAIN trail : i # Len(trail) => i < Len(trail)
    BY <1>1, <1>3 DEF DoneStored
  <2>2. Dones(trail) = {trail[Len(trail)]}
    BY <1>1, <2>1 DEF Dones, Range
  <2>3. {i \in DOMAIN trail : ~ Replaced(trail, i)} = {Len(trail)}
    <3>1. ~ Replaced(trail, Len(trail))
      BY <1>1, <2>1 DEF Replaced
    <3>2. \A i \in DOMAIN trail : i # Len(trail) => Replaced(trail, i)
      BY <2>1 DEF Replaced
    <3> QED
      BY <2>1, <3>1, <3>2
  <2>4. PICK s : s = trail[Len(trail)].step
    OBVIOUS
  <2>5. {trail[i].step : i \in {i \in DOMAIN trail : ~ Replaced(trail, i)}} \cup {0} = {s, 0}
    BY <2>3, <2>4
  <2>6. s \in Nat /\ s > 0
    BY <1>2, <2>1, <2>4, Budget
  <2>7. Highest({s, 0}) = s
    <3>1. PICK top : top = Highest({s, 0})
      OBVIOUS
    <3>2. top \in {s, 0} /\ \A q \in {s, 0} : q <= top
      BY <2>6, <3>1, HighestOf
    <3> QED
      BY <2>6, <3>1, <3>2
  <2>8. (CHOOSE e \in Dones(trail) : TRUE).step = s
    BY <2>2, <2>4
  <2> QED
    BY <2>2, <2>5, <2>7, <2>8 DEF LiveSteps
<1>4. CASE ~ DoneStored
  <2>1. \A i \in DOMAIN trail : trail[i].type = "route_decided" /\ ~ Replaced(trail, i)
    BY <1>2, <1>4 DEF DoneStored, Replaced
  <2>2. Dones(trail) = {}
    BY <2>1 DEF Dones, Range
  <2>3. {i \in DOMAIN trail : ~ Replaced(trail, i)} = DOMAIN trail
    BY <2>1
  <2>4. Routes(trail) = {trail[i] : i \in DOMAIN trail}
    BY <2>1 DEF Routes, Range
  <2>5. {trail[i].step : i \in DOMAIN trail} = {e.step : e \in Routes(trail)}
    BY <2>4
  <2> QED
    BY <2>2, <2>3, <2>5 DEF LiveSteps, MaxStep
<1> QED
  BY <1>3, <1>4

\* With or without the delivery, a reload shows what the live view shows.
LEMMA ShownIsLive ==
    ASSUME ViewInv, NEW delivery, Given(delivery)
    PROVE  ShownCapabilities(delivery, trail) = LiveCapabilities(trail)
  BY UsedAreUses, StepsAgree DEF ShownCapabilities, LiveCapabilities, Degraded

LEMMA ShownIsGiven ==
    ASSUME ViewInv, NEW d,
           \/ d \in {NoDelivery, Unreadable}
           \/ kernel.delivery # "none" /\ d = StoredDelivery,
           d # NoDelivery => run.delivery # NoDelivery
    PROVE  /\ Given(Shown(d))
           /\ Shown(d) # NoDelivery => Shown(d) = d /\ d = StoredDelivery
<1>1. Shown(NoDelivery) = NoDelivery /\ Shown(Unreadable) = NoDelivery
  BY DEF Shown, NoDelivery, Unreadable
<1>2. CASE d \in {NoDelivery, Unreadable}
  BY <1>1, <1>2 DEF Given
<1>3. CASE kernel.delivery # "none" /\ d = StoredDelivery
  <2>1. kernel.delivery # "unreadable"
    BY ViewFacts DEF KernelState, Deliveries
  <2>2. Shown(d) = d
    BY <1>3, <2>1 DEF Shown, StoredDelivery
  <2>3. run.delivery # NoDelivery => run.kind = "main_agent" /\ run.status = "succeeded"
    BY DEF ViewInv, RowFits
  <2> QED
    BY <1>3, <2>2, <2>3 DEF Given
<1> QED
  BY <1>2, <1>3

LEMMA RowIsGiven == ViewInv => Given(NoDelivery) /\ Given(Shown(run.delivery))
  BY ShownIsGiven DEF Given, ViewInv, RowFits

LEMMA LiveAgrees == ViewInv => LiveViewAgrees
  BY RowIsGiven, ShownIsLive DEF LiveViewAgrees

\* What a live view shows of the trail
LEMMA LiveShows ==
    ASSUME ViewInv
    PROVE  LET live == LiveCapabilities(trail)
           IN /\ live.used = Uses(trail, "ok")
              /\ live.degraded = Besides(Uses(trail, "unavailable"), Uses(trail, "ok"))
              /\ live.steps \in {0, LiveSteps(trail)}
<1> DEFINE used == Uses(trail, "ok")
           degraded == Besides(Uses(trail, "unavailable"), Uses(trail, "ok"))
<1>1. Readable(trail)
  BY TrailReads DEF TrailsAreReadable
<1>2. LiveCapabilities(trail) = IF used \cup degraded = {} THEN Projection("absent", {}, {}, 0)
                                ELSE Projection("available", used, degraded, LiveSteps(trail))
  BY <1>1 DEF LiveCapabilities
<1> HIDE DEF used, degraded
<1>3. /\ LiveCapabilities(trail).used = used /\ LiveCapabilities(trail).degraded = degraded
      /\ LiveCapabilities(trail).steps \in {0, LiveSteps(trail)}
  BY <1>2 DEF Projection
<1> QED
  BY <1>3 DEF used, degraded

\* A Run that was not cancelled tells no more steps than there were decisions.
LEMMA StepsHappened ==
    ASSUME ViewInv, run.kind = "main_agent", run.status \in {"succeeded", "failed"}
    PROVE  LiveSteps(trail) <= kernel.decisions
<1>1. /\ ~ cancelled /\ out = <<>> /\ kernel.pc = "over" /\ kernel.decisions \in Nat
  BY ViewFacts DEF ViewInv, RowFits
<1>2. \A i \in DOMAIN trail : trail[i].step \in Nat /\ trail[i].type \in {"route_decided", "agent_done"}
  BY Budget DEF ViewInv, TrailFits, EventFits, StoredEvent
<1>3. \A i \in DOMAIN trail : ~ Replaced(trail, i) => trail[i].step <= kernel.decisions
  <2>1. ~ DoneOnItsWay
    BY <1>1 DEF DoneOnItsWay
  <2>2. \A i \in DOMAIN trail : trail[i].type = "agent_done" => trail[i].step = kernel.decisions
    BY DEF ViewInv, TrailFits, EventFits
  <2>3. CASE DoneStored
    <3>1. PICK j \in DOMAIN trail : trail[j].type = "agent_done" /\ j = Len(trail)
      BY <2>3 DEF DoneStored, ViewInv, TrailFits
    <3>2. \A i \in DOMAIN trail : i # j => j > i
      BY <3>1 DEF ViewInv, TrailFits
    <3>3. \A i \in DOMAIN trail : i # j => Replaced(trail, i)
      BY <3>1, <3>2 DEF Replaced
    <3> QED
      BY <1>1, <2>2, <3>1, <3>3
  <2>4. CASE ~ DoneStored
    <3>1. \A i \in DOMAIN trail : trail[i].type = "route_decided" => trail[i].step <= kernel.decisions
      BY <1>1, <2>1, <2>4 DEF ViewInv, StepsFit
    <3> QED
      BY <1>1, <1>2, <2>2, <3>1
  <2> QED
    BY <2>3, <2>4
<1> DEFINE steps == {trail[i].step : i \in {i \in DOMAIN trail : ~ Replaced(trail, i)}} \cup {0}
<1>4. steps \in SUBSET Nat /\ steps # {} /\ \A s \in steps : s <= kernel.decisions
  BY <1>1, <1>2, <1>3
<1>5. LiveSteps(trail) = Highest(steps)
  BY DEF LiveSteps
<1> HIDE DEF steps
<1>6. Highest(steps) \in steps
  BY <1>1, <1>4, HighestOf
<1> QED
  BY <1>4, <1>5, <1>6

LEMMA ShownHappened == ViewInv => CapabilitiesAreWhatHappened
<1> SUFFICES ASSUME ViewInv, run.kind = "main_agent", HasEnded PROVE CapabilitiesAreWhatHappened
  BY DEF CapabilitiesAreWhatHappened
<1>1. PICK shown : shown = ShownCapabilities(Shown(run.delivery), trail)
  OBVIOUS
<1>2. PICK used : used = Uses(trail, "ok")
  OBVIOUS
<1>3. /\ shown.used = used /\ shown.degraded = Besides(Uses(trail, "unavailable"), used)
      /\ shown.steps \in {0, LiveSteps(trail)}
  BY <1>1, <1>2, RowIsGiven, ShownIsLive, LiveShows
<1>4. PICK happened : happened = Range(kernel.loaded)
                        \cup (IF kernel.delivery = "comparison" THEN {kernel.decision.id} ELSE {})
  OBVIOUS
<1>5. \A id : Loaded(kernel, id) <=> id \in Range(kernel.loaded)
  BY DEF Loaded, Range
<1>6. Caps(shown.used) \subseteq happened
  <2> SUFFICES ASSUME NEW u \in used PROVE u.cap \in happened
    BY <1>3 DEF Caps
  <2> QED
    BY <1>2, <1>4, <1>5, UsesHappened
<1>7. Caps(shown.used) \cap Caps(shown.degraded) = {}
  BY <1>3 DEF Besides, Caps
<1>8. ASSUME run.status # "cancelled"
      PROVE  Caps(shown.used) = happened /\ shown.steps <= kernel.decisions
  <2>1. /\ run.status \in {"succeeded", "failed"} /\ ~ cancelled /\ out = <<>>
        /\ kernel.decisions \in Nat
    BY <1>8, ViewFacts DEF HasEnded, TerminalStatuses, ViewInv, RowFits
  <2>2. shown.steps <= kernel.decisions
    BY <1>3, <2>1, StepsHappened
  <2>3. ASSUME NEW id \in happened PROVE id \in Caps(used)
    <3>1. CASE Loaded(kernel, id)
      <4>1. id \in Knowledge /\ WasUsed(kernel, "load_skill", id)
        BY <3>1, ViewFacts DEF Loaded, WasUsed, KernelState
      <4>2. [cap |-> id, status |-> "loaded"] \in used
        BY <1>2, <2>1, <4>1, UsesAreTold
      <4> QED
        BY <4>2 DEF Caps
    <3>2. CASE kernel.delivery = "comparison" /\ id = kernel.decision.id
      <4>1. id \in Execution /\ WasUsed(kernel, "invoke_capability", id)
        BY <3>2 DEF WasUsed, ViewInv, StageFits
      <4>2. [cap |-> id, status |-> "ok"] \in used
        BY <1>2, <2>1, <4>1, UsesAreTold
      <4> QED
        BY <4>2 DEF Caps
    <3> QED
      BY <1>4, <1>5, <2>3, <3>1, <3>2
  <2> QED
    BY <1>3, <1>6, <2>2, <2>3
<1> QED
  BY <1>1, <1>4, <1>6, <1>7, <1>8 DEF CapabilitiesAreWhatHappened

\* A detail of a Run that was over has what was stored of it.
LEMMA CardsEarned == ViewInv => CardsAreEarned
<1> SUFFICES ASSUME ViewInv, run.kind = "main_agent", Served, reader.page = "detail"
             PROVE  CardsAreEarned
  BY DEF CardsAreEarned
<1>1. PICK delivery : delivery = Shown(reader.delivery)
  OBVIOUS
<1>2. PICK over : over = (reader.status \in TerminalStatuses)
  OBVIOUS
<1>3. PICK status : status = DeliveryStatus(reader.status, reader.delivery)
  OBVIOUS
<1>4. PICK caps : caps = IF over THEN ShownCapabilities(delivery, reader.events) ELSE NoProjection
  OBVIOUS
<1>5. PICK knowledge : knowledge = IF over THEN GroundedIn(delivery) ELSE "none"
  OBVIOUS
<1>6. Resource = [status |-> reader.status, result |-> reader.result, delivery |-> delivery,
                  deliveryStatus |-> status, caps |-> caps, knowledge |-> knowledge]
  BY <1>1, <1>2, <1>3, <1>4, <1>5 DEF Resource
<1>7. PICK card : card = Card(Resource)
  OBVIOUS
<1>8. /\ card.strip = IF over THEN Strip(caps, knowledge) ELSE Strip(NoProjection, "none")
      /\ card.panel = IF reader.status = "succeeded" /\ status # "unavailable" THEN Panel(delivery)
                      ELSE NoPanel
  BY <1>2, <1>6, <1>7 DEF Card
<1>9. /\ reader.pc = "done" /\ (over => run.status = reader.status /\ reader.events = trail)
      /\ (reader.delivery # NoDelivery => run.delivery # NoDelivery)
      /\ (reader.delivery # NoDelivery => run.status = "succeeded")
  BY <1>2 DEF Served, ViewInv, ReaderFits, RowFits
<1>10. /\ Given(delivery)
       /\ delivery # NoDelivery => run.status = "succeeded" /\ delivery = StoredDelivery
  BY <1>1, <1>9, ShownIsGiven, RowIsGiven DEF Served, ViewInv, ReaderFits
<1>11. ASSUME over
       PROVE  ReadCapabilities(caps) = caps
                /\ Caps(caps.degraded) \subseteq {e.cap : e \in Attention(reader.events)}
  <2>1. caps = LiveCapabilities(trail)
    BY <1>4, <1>9, <1>10, <1>11, ShownIsLive
  <2>2. /\ caps.used = Uses(trail, "ok")
        /\ caps.degraded = Besides(Uses(trail, "unavailable"), Uses(trail, "ok"))
    BY <2>1, LiveShows
  <2>3. \A u \in caps.used : ReadableUse(u) /\ u.status # "unavailable"
    BY <2>2, UsesHappened DEF ReadableUse
  <2>4. ASSUME NEW u \in caps.degraded
        PROVE  /\ ReadableUse(u) /\ u.status = "unavailable"
               /\ \E e \in Attention(trail) : e.cap = u.cap
    <3>1. u \in Uses(trail, "unavailable")
      BY <2>2, <2>4 DEF Besides
    <3>2. PICK i \in DOMAIN trail :
            /\ trail[i].cap # "none" /\ trail[i].status = "unavailable"
            /\ u = [cap |-> trail[i].cap, status |-> ItemStatus(trail[i])]
      BY <3>1, UsesTold
    <3>3. u.cap = trail[i].cap /\ u.status = "unavailable"
      BY <3>2 DEF ItemStatus
    <3>4. trail[i] \in Attention(trail)
      BY <3>2 DEF Attention, Range
    <3> QED
      BY <3>2, <3>3, <3>4 DEF ReadableUse
  <2>5. ReadCapabilities(caps) = caps
    BY <2>3, <2>4 DEF ReadCapabilities
  <2>6. Caps(caps.degraded) \subseteq {e.cap : e \in Attention(reader.events)}
    BY <1>9, <1>11, <2>4 DEF Caps
  <2> QED
    BY <2>5, <2>6
<1>12. \A p, k : Strip(p, k).caps = ReadCapabilities(p) /\ Strip(p, k).badge \in {"none", k}
  BY DEF Strip
<1>13. /\ ReadCapabilities(NoProjection).degraded = {}
       /\ NoPanel.badge = "none" /\ ~ NoPanel.differences
  BY DEF ReadCapabilities, NoProjection, Projection, NoPanel, Panel, Badge,
         NoDelivery
<1>14. ASSUME GroundedIn(delivery) # "none"
       PROVE  run.status = "succeeded" /\ GroundedIn(delivery) \in Range(kernel.loaded)
  <2>1. delivery.kind = "answer_with_knowledge" /\ delivery # NoDelivery
        /\ GroundedIn(delivery) = delivery.cap
    BY <1>14 DEF GroundedIn, NoDelivery
  <2>2. kernel.delivery = "answer_with_knowledge" /\ delivery.cap = kernel.loaded[Len(kernel.loaded)]
    BY <1>10, <2>1 DEF StoredDelivery, Grounding
  <2>3. kernel.loaded \in Seq(Knowledge) /\ kernel.loaded # <<>>
    BY <2>2, ViewFacts DEF KernelState, ViewInv, StageFits
  <2>4. Len(kernel.loaded) \in DOMAIN kernel.loaded
    BY <2>3
  <2> QED
    BY <1>10, <2>1, <2>2, <2>4 DEF Range
<1>15. Panel(delivery).badge = GroundedIn(delivery)
       /\ (Panel(delivery).differences => run.status = "succeeded" /\ kernel.delivery = "comparison")
  <2>1. Panel(delivery).badge = GroundedIn(delivery)
    BY DEF Panel, Badge, GroundedIn
  <2>2. Panel(delivery).differences => delivery.kind = "comparison"
    BY DEF Panel
  <2>3. NoDelivery.kind # "comparison"
    BY DEF NoDelivery
  <2> QED
    BY <1>10, <2>1, <2>2, <2>3 DEF StoredDelivery
<1>16. over => card.strip.caps = caps
  BY <1>8, <1>11, <1>12
<1>17. \A badge \in {card.strip.badge, card.panel.badge} \ {"none"} :
         run.status = "succeeded" /\ badge \in Range(kernel.loaded)
  BY <1>5, <1>8, <1>12, <1>13, <1>14, <1>15
<1>18. card.panel.differences => run.status = "succeeded" /\ kernel.delivery = "comparison"
  BY <1>8, <1>13, <1>15
<1>19. Caps(card.strip.caps.degraded) \subseteq {e.cap : e \in Attention(reader.events)}
  <2>1. CASE over
    BY <1>11, <1>16, <2>1
  <2>2. CASE ~ over
    <3>1. card.strip.caps.degraded = {}
      BY <1>8, <1>12, <1>13, <2>2
    <3> QED
      BY <3>1 DEF Caps
  <2> QED
    BY <2>1, <2>2
<1>20. Resource.status = reader.status /\ Resource.caps = caps
  BY <1>6
<1> QED
  BY <1>2, <1>7, <1>16, <1>17, <1>18, <1>19, <1>20 DEF CardsAreEarned

\* resources.py main_capability_projection, main-delivery-readers.ts read_live_main_capabilities and
\* WorkbenchPage.tsx MainAgentReply: the capabilities shown of a Run, live, reloaded and on the page,
\* are those that the kernel loaded or called, and its badge and its differences are earned.
THEOREM CapabilitiesAlwaysTrue == ViewSpec => []CapabilitiesAreTrue
<1>1. ViewInv => CapabilitiesAreTrue
  BY TrailReads, ShownHappened, LiveAgrees, CardsEarned DEF CapabilitiesAreTrue
<1> QED
  BY <1>1, ViewInvHolds, PTL

-----------------------------------------------------------------------------
(* What is told of a Run: the items an executor has yielded, those that were *)
(* read and those that wait to be, counted by what they are                  *)

\* The places of a sequence whose items are in S, and their number
At(s, S) == {i \in DOMAIN s : s[i] \in S}
Count(s, S) == Cardinality(At(s, S))

\* One more item has one more place, or none.
LEMMA AtAppend ==
    ASSUME NEW U, NEW s \in Seq(U), NEW x \in U, NEW S
    PROVE  /\ At(s, S) \subseteq 1 .. Len(s) /\ IsFiniteSet(At(s, S)) /\ Count(s, S) \in Nat
           /\ At(Append(s, x), S) = IF x \in S THEN At(s, S) \cup {Len(s) + 1} ELSE At(s, S)
           /\ Count(Append(s, x), S) = IF x \in S THEN Count(s, S) + 1 ELSE Count(s, S)
<1> DEFINE t == Append(s, x)
<1>1. At(s, S) \subseteq 1 .. Len(s) /\ Len(s) \in Nat
  BY DEF At
<1>2. IsFiniteSet(1 .. Len(s))
  BY <1>1, FS_Interval
<1>3. IsFiniteSet(At(s, S))
  BY <1>1, <1>2, FS_Subset
<1>4. Count(s, S) \in Nat
  BY <1>3, FS_CardinalityType DEF Count
<1>5. /\ DOMAIN t = 1 .. Len(s) + 1 /\ DOMAIN s = 1 .. Len(s) /\ t[Len(s) + 1] = x
      /\ \A i \in 1 .. Len(s) : t[i] = s[i]
  OBVIOUS
<1> HIDE DEF t
<1>6. At(t, S) = IF x \in S THEN At(s, S) \cup {Len(s) + 1} ELSE At(s, S)
  BY <1>1, <1>5 DEF At
<1>7. Len(s) + 1 \notin At(s, S)
  BY <1>1
<1>8. Cardinality(At(s, S) \cup {Len(s) + 1}) = Cardinality(At(s, S)) + 1
  BY <1>3, <1>7, FS_AddElement
<1> QED
  BY <1>1, <1>3, <1>4, <1>6, <1>8 DEF Count, t

\* The places of a sequence that follows another are those of the two.
LEMMA AtJoin ==
    ASSUME NEW U, NEW s \in Seq(U), NEW t \in Seq(U), NEW S
    PROVE  Count(s \o t, S) = Count(s, S) + Count(t, S) /\ Count(s, S) \in Nat /\ Count(t, S) \in Nat
<1> DEFINE u == s \o t
           n == Len(s)
           shifted == {n + j : j \in At(t, S)}
           f == [j \in At(t, S) |-> n + j]
<1>1. n \in Nat /\ Len(t) \in Nat /\ DOMAIN s = 1 .. n /\ DOMAIN t = 1 .. Len(t)
  OBVIOUS
<1>2. /\ DOMAIN u = 1 .. n + Len(t) /\ \A i \in 1 .. n : u[i] = s[i]
      /\ \A j \in 1 .. Len(t) : u[n + j] = t[j]
  OBVIOUS
<1>3. \A i \in n + 1 .. n + Len(t) : i - n \in 1 .. Len(t) /\ i = n + (i - n)
  BY <1>1
<1> HIDE DEF u, n
<1>4. At(s, S) \subseteq 1 .. n /\ At(t, S) \subseteq 1 .. Len(t)
  BY <1>1 DEF At
<1>5. At(u, S) = At(s, S) \cup shifted
  <2>1. ASSUME NEW i \in At(u, S) PROVE i \in At(s, S) \cup shifted
    <3>1. i \in 1 .. n + Len(t) /\ u[i] \in S
      BY <1>2, <2>1 DEF At
    <3>2. CASE i <= n
      BY <1>1, <1>2, <3>1, <3>2 DEF At
    <3>3. CASE ~ i <= n
      <4>1. i \in n + 1 .. n + Len(t)
        BY <1>1, <3>1, <3>3
      <4>2. i - n \in 1 .. Len(t) /\ i = n + (i - n)
        BY <1>3, <4>1
      <4>3. t[i - n] \in S
        BY <1>2, <3>1, <4>2
      <4>4. i - n \in At(t, S)
        BY <1>1, <4>2, <4>3 DEF At
      <4> QED
        BY <4>2, <4>4
    <3> QED
      BY <3>2, <3>3
  <2>2. ASSUME NEW i \in At(s, S) PROVE i \in At(u, S)
    BY <1>1, <1>2, <1>4 DEF At
  <2>3. ASSUME NEW j \in At(t, S) PROVE n + j \in At(u, S)
    BY <1>1, <1>2, <1>4 DEF At
  <2> QED
    BY <2>1, <2>2, <2>3
<1>6. At(s, S) \cap shifted = {}
  BY <1>1, <1>4
<1>7. IsFiniteSet(At(s, S)) /\ IsFiniteSet(At(t, S))
  <2>1. IsFiniteSet(1 .. n) /\ IsFiniteSet(1 .. Len(t))
    BY <1>1, FS_Interval
  <2> QED
    BY <1>4, <2>1, FS_Subset
<1>8. f \in Bijection(At(t, S), shifted)
  BY <1>1, <1>4 DEF Bijection, Injection, Surjection, IsInjective
<1>9. IsFiniteSet(shifted) /\ Cardinality(shifted) = Cardinality(At(t, S))
  BY <1>7, <1>8, FS_Bijection DEF ExistsBijection
<1>10. Cardinality(At(s, S) \cup shifted) = Cardinality(At(s, S)) + Cardinality(shifted) - Cardinality({})
  BY <1>6, <1>7, <1>9, FS_Union
<1>11. Cardinality(At(s, S)) \in Nat /\ Cardinality(At(t, S)) \in Nat
  BY <1>7, FS_CardinalityType
<1> QED
  BY <1>5, <1>9, <1>10, <1>11, FS_EmptySet DEF Count, u

-----------------------------------------------------------------------------
(* The tale of the main agent *)

RouteItems == {x \in Items : x.type = "route_decided"}
LoadItems == {x \in RouteItems : x.label = "load_skill"}

\* A signal has the number of the decision it tells; the last may have that of the last allowed.
Numbered(s, i) == s[i].step = Cardinality({j \in At(s, RouteItems) : j <= i})
AllNumbered(s) == \A i \in At(s, RouteItems) : Numbered(s, i)
WellNumbered(s) ==
    \A i \in At(s, RouteItems) :
        \/ Numbered(s, i)
        \/ LastOf(At(s, RouteItems), i) /\ s[i].step = MaxDecisions

\* The last signal says whether the budget was spent.
LastSays(s, spent) ==
    \E i \in DOMAIN s : /\ LastOf(At(s, RouteItems), i)
                        /\ (s[i].label = "budget_exhausted") <=> spent

AllEvents(s) == \A i \in DOMAIN s : IsEvent(s[i])

\* An item that is no signal changes nothing of what the signals say.
LEMMA OtherItemTells ==
    ASSUME NEW s \in Seq(Items), NEW x \in Items, x.type # "route_decided"
    PROVE  LET t == Append(s, x)
           IN /\ t \in Seq(Items) /\ At(t, RouteItems) = At(s, RouteItems) /\ Count(t, RouteItems) = Count(s, RouteItems)
              /\ Count(t, LoadItems) = Count(s, LoadItems)
              /\ WellNumbered(s) => WellNumbered(t)
              /\ AllNumbered(s) => AllNumbered(t)
              /\ \A spent \in BOOLEAN : LastSays(s, spent) => LastSays(t, spent)
              /\ AllEvents(s) /\ IsEvent(x) => AllEvents(t)
<1> DEFINE t == Append(s, x)
<1>1. x \notin RouteItems /\ x \notin LoadItems
  BY DEF RouteItems, LoadItems
<1>2. /\ At(t, RouteItems) = At(s, RouteItems) /\ Count(t, RouteItems) = Count(s, RouteItems)
      /\ Count(t, LoadItems) = Count(s, LoadItems)
      /\ At(s, RouteItems) \subseteq 1 .. Len(s)
  BY <1>1, AtAppend
<1>3. /\ t \in Seq(Items) /\ DOMAIN t = 1 .. Len(s) + 1 /\ DOMAIN s = 1 .. Len(s) /\ Len(s) \in Nat
      /\ t[Len(s) + 1] = x /\ \A i \in 1 .. Len(s) : t[i] = s[i]
  OBVIOUS
<1> HIDE DEF t
<1>4. \A i \in At(s, RouteItems) : t[i] = s[i] /\ (Numbered(s, i) => Numbered(t, i))
  BY <1>2, <1>3 DEF Numbered
<1>5. WellNumbered(s) => WellNumbered(t)
  BY <1>2, <1>4 DEF WellNumbered
<1>6. AllNumbered(s) => AllNumbered(t)
  BY <1>2, <1>4 DEF AllNumbered
<1>7. ASSUME NEW spent \in BOOLEAN, LastSays(s, spent)
      PROVE  LastSays(t, spent)
  BY <1>2, <1>3, <1>7 DEF LastSays
<1>8. AllEvents(s) /\ IsEvent(x) => AllEvents(t)
  BY <1>3 DEF AllEvents
<1> QED
  BY <1>2, <1>3, <1>5, <1>6, <1>7, <1>8 DEF t

\* One more signal is the last, and has its number or that of the last decision allowed.
LEMMA SignalTells ==
    ASSUME NEW s \in Seq(Items), NEW x \in RouteItems, AllNumbered(s),
           x.step \in {Count(s, RouteItems) + 1, MaxDecisions}
    PROVE  LET t == Append(s, x)
           IN /\ t \in Seq(Items) /\ Count(t, RouteItems) = Count(s, RouteItems) + 1
              /\ Count(t, LoadItems) = IF x.label = "load_skill" THEN Count(s, LoadItems) + 1
                                        ELSE Count(s, LoadItems)
              /\ WellNumbered(t)
              /\ x.step = Count(s, RouteItems) + 1 => AllNumbered(t)
              /\ LastSays(t, x.label = "budget_exhausted")
              /\ AllEvents(s) => AllEvents(t)
<1> DEFINE t == Append(s, x)
           n == Len(s) + 1
<1>1. x \in Items /\ x.type = "route_decided" /\ (x \in LoadItems <=> x.label = "load_skill")
  BY DEF RouteItems, LoadItems
<1>2. /\ At(t, RouteItems) = At(s, RouteItems) \cup {n} /\ Count(t, RouteItems) = Count(s, RouteItems) + 1
      /\ Count(t, LoadItems) = IF x \in LoadItems THEN Count(s, LoadItems) + 1 ELSE Count(s, LoadItems)
      /\ At(s, RouteItems) \subseteq 1 .. Len(s)
  BY <1>1, AtAppend
<1>3. /\ t \in Seq(Items) /\ DOMAIN t = 1 .. n /\ Len(s) \in Nat
      /\ t[n] = x /\ \A i \in 1 .. Len(s) : t[i] = s[i] /\ DOMAIN s = 1 .. Len(s)
  BY <1>1
<1>4. n \in Nat /\ \A i \in 1 .. Len(s) : i < n /\ i \in DOMAIN t
  BY <1>3
<1> HIDE DEF t
<1>5. ASSUME NEW i \in At(s, RouteItems) PROVE Numbered(t, i) /\ t[i] = s[i]
  <2>1. i \in 1 .. Len(s) /\ t[i] = s[i] /\ ~ n <= i
    BY <1>2, <1>3, <1>4
  <2>2. {j \in At(t, RouteItems) : j <= i} = {j \in At(s, RouteItems) : j <= i}
    BY <1>2, <2>1
  <2> QED
    BY <2>1, <2>2 DEF AllNumbered, Numbered
<1>6. LastOf(At(t, RouteItems), n)
  BY <1>2, <1>4 DEF LastOf
<1>7. {j \in At(t, RouteItems) : j <= n} = At(t, RouteItems)
  BY <1>6 DEF LastOf
<1>8. x.step = Count(s, RouteItems) + 1 => Numbered(t, n)
  BY <1>2, <1>3, <1>7 DEF Numbered, Count
<1>9. WellNumbered(t) /\ (x.step = Count(s, RouteItems) + 1 => AllNumbered(t))
  <2>1. x.step = Count(s, RouteItems) + 1 => AllNumbered(t)
    BY <1>2, <1>5, <1>8 DEF AllNumbered
  <2>2. \/ Numbered(t, n)
        \/ LastOf(At(t, RouteItems), n) /\ t[n].step = MaxDecisions
    BY <1>3, <1>6, <1>8
  <2>3. WellNumbered(t)
    BY <1>2, <1>5, <2>2 DEF WellNumbered
  <2> QED
    BY <2>1, <2>3
<1>10. LastSays(t, x.label = "budget_exhausted")
  BY <1>3, <1>4, <1>6 DEF LastSays
<1>11. IsEvent(x)
  BY <1>1 DEF IsEvent, Ends, Broken
<1>12. AllEvents(s) => AllEvents(t)
  BY <1>3, <1>4, <1>11 DEF AllEvents
<1> QED
  BY <1>1, <1>2, <1>3, <1>9, <1>10, <1>12 DEF t

\* Nothing is told yet.
LEMMA NothingTells ==
    ASSUME NEW s, s = <<>>
    PROVE  /\ s \in Seq(Items) /\ Count(s, RouteItems) = 0 /\ Count(s, LoadItems) = 0
           /\ AllNumbered(s) /\ WellNumbered(s) /\ AllEvents(s)
<1>1. \A S : At(s, S) = {}
  BY DEF At
<1> QED
  BY <1>1, FS_EmptySet DEF Count, AllNumbered, WellNumbered, AllEvents

LEMMA AllAreWellNumbered == ASSUME NEW s, AllNumbered(s) PROVE WellNumbered(s)
  BY DEF AllNumbered, WellNumbered

\* What the kernel comes to
OutcomeOf(k) ==
    IF k.failure = "budget_exhausted" THEN "budget_exhausted"
    ELSE IF k.failure # "none" THEN "failed" ELSE k.delivery
EndFor(k) ==
    IF k.delivery # "none" THEN Item("delivery", k.delivery, 0) ELSE Item("failure", k.failure, 0)

KernelComes(k) ==
    /\ k.pc \notin {"ended", "over"} => k.failure = "none" /\ ~ k.canceled
    /\ k.delivery # "none" => k.failure = "none"
    /\ k.pc = "ended" /\ ~ k.canceled => k.failure # "none" \/ k.delivery # "none"

\* What a kernel that is over has told last
LastTold(k, s) ==
    /\ \A i \in DOMAIN s : s[i].type = "eof" => i = Len(s)
    /\ k.canceled => \A i \in DOMAIN s : i # Len(s) => IsEvent(s[i])
    /\ ~ k.canceled /\ k.failure # "raised" =>
         /\ k.failure # "none" \/ k.delivery # "none"
         /\ \E n \in DOMAIN s : /\ n + 2 = Len(s) /\ s[n].type = "agent_done"
                                /\ s[n].label = OutcomeOf(k) /\ s[n + 1] = EndFor(k)

\* What it has told where it stands: each decision once it was carried out, each load, and
\* at the end its outcome.
Tale(k, s) ==
    /\ s \in Seq(Items) /\ WellNumbered(s) /\ Count(s, LoadItems) = k.loads
    /\ k.pc = "start" => s = <<>> /\ k.decisions = 0
    /\ k.pc = "decide" => AllNumbered(s) /\ Count(s, RouteItems) = k.decisions
    /\ k.pc \in {"thinking", "dispatch", "calling"} =>
         AllNumbered(s) /\ Count(s, RouteItems) + 1 = k.decisions
    /\ k.pc # "over" => AllEvents(s)
    /\ k.pc \in {"ended", "over"} /\ ~ k.canceled /\ k.failure # "raised" =>
         LastSays(s, k.failure = "budget_exhausted")
    /\ k.pc = "over" => LastTold(k, s)

KernelTells(k, s) == KernelComes(k) /\ Tale(k, s)

LEMMA Joined ==
    ASSUME NEW s \in Seq(Items)
    PROVE  /\ s \o <<>> = s
           /\ \A x \in Items : s \o <<x>> = Append(s, x)
           /\ \A x, y \in Items : s \o <<x, y>> = Append(Append(s, x), y)
           /\ \A x, y, z \in Items : s \o <<x, y, z>> = Append(Append(Append(s, x), y), z)
<1>1. s \o <<>> = s /\ \A x \in Items : s \o <<x>> = Append(s, x)
  OBVIOUS
<1>2. ASSUME NEW x \in Items, NEW y \in Items
      PROVE  s \o <<x, y>> = Append(Append(s, x), y)
  OBVIOUS
<1>3. ASSUME NEW x \in Items, NEW y \in Items, NEW z \in Items
      PROVE  s \o <<x, y, z>> = Append(Append(Append(s, x), y), z)
  OBVIOUS
<1> QED
  BY <1>1, <1>2, <1>3

\* The signals and the items of tools that a decision at hand may lead to
LEMMA SignalItems ==
    ASSUME KernelInv, NEW s, KernelTells(kernel, s), kernel.pc \in {"thinking", "dispatch", "calling"}
    PROVE  /\ \A label \in RouteLabels :
                /\ RouteSignal(label) \in RouteItems /\ RouteSignal(label).label = label
                /\ RouteSignal(label).step = Count(s, RouteItems) + 1
           /\ \A status \in ToolFailures \cup {"ok"} :
                /\ ToolItem(status) \in Items /\ ToolItem(status).type = "tool_invoked"
                /\ IsEvent(ToolItem(status))
           /\ Count(s, RouteItems) + 1 = kernel.decisions
<1>1. kernel.step = kernel.decisions /\ Count(s, RouteItems) + 1 = kernel.decisions
  BY DEF KernelInv, KernelTells, Tale
<1>2. ASSUME NEW label \in RouteLabels
      PROVE  /\ RouteSignal(label) \in RouteItems /\ RouteSignal(label).label = label
             /\ RouteSignal(label).step = kernel.step
  BY SignalsAreItems DEF RouteItems, RouteSignal, Item
<1>3. ASSUME NEW status \in ToolFailures \cup {"ok"}
      PROVE  /\ ToolItem(status) \in Items /\ ToolItem(status).type = "tool_invoked"
             /\ IsEvent(ToolItem(status))
  BY SignalsAreItems DEF ToolItem, Item, IsEvent, Ends, Broken
<1> QED
  BY <1>1, <1>2, <1>3

\* The kernel goes on without a word.
LEMMA SilentTale ==
    ASSUME KernelInv, NEW s, KernelTells(kernel, s), out' = <<>>,
           kernel'.loads = kernel.loads, kernel'.delivery = kernel.delivery,
           kernel'.failure = kernel.failure,
           \/ /\ kernel.pc = "decide" /\ kernel'.pc = "thinking"
              /\ kernel'.decisions = kernel.decisions + 1 /\ kernel'.canceled = kernel.canceled
           \/ /\ kernel.pc \in {"thinking", "dispatch"} /\ kernel'.pc \in {"dispatch", "calling"}
              /\ kernel'.decisions = kernel.decisions /\ kernel'.canceled = kernel.canceled
           \/ kernel'.pc = "ended" /\ kernel'.canceled /\ kernel.pc \notin {"ended", "over"}
    PROVE  KernelTells(kernel', s \o out')
<1>1. s \in Seq(Items) /\ s \o out' = s
  BY Joined DEF KernelTells, Tale
<1>2. KernelComes(kernel')
  BY DEF KernelTells, KernelComes
<1>3. Tale(kernel', s)
  BY <1>1, KernelStateOf DEF KernelTells, KernelComes, Tale
<1> QED
  BY <1>1, <1>2, <1>3 DEF KernelTells

\* The decision at hand is told and the run of the kernel ends with it.
LEMMA LastSignalTale ==
    ASSUME KernelInv, NEW s, KernelTells(kernel, s), NEW x \in RouteItems,
           kernel.pc \in {"decide", "thinking", "dispatch", "calling"},
           x.step \in {Count(s, RouteItems) + 1, MaxDecisions}, x.label # "load_skill",
           NEW t \in Seq(Items),
           \/ t = Append(s, x)
           \/ \E y \in Items : t = Append(Append(s, x), y) /\ y.type # "route_decided" /\ IsEvent(y),
           s \o out' = t,
           kernel'.pc = "ended", kernel'.loads = kernel.loads, kernel'.canceled = kernel.canceled,
           \/ /\ kernel'.failure \in Failures /\ kernel'.delivery = kernel.delivery
              /\ kernel'.failure = "budget_exhausted" <=> x.label = "budget_exhausted"
           \/ /\ kernel'.failure = kernel.failure /\ kernel'.delivery \in Deliveries
              /\ x.label # "budget_exhausted"
    PROVE  KernelTells(kernel', s \o out')
<1>1. s \in Seq(Items) /\ AllNumbered(s) /\ AllEvents(s) /\ Count(s, LoadItems) = kernel.loads
      /\ kernel.failure = "none" /\ ~ kernel.canceled /\ kernel.delivery = "none"
  BY DEF KernelTells, Tale, KernelComes, KernelInv
<1> DEFINE u == Append(s, x)
<1>2. /\ u \in Seq(Items) /\ WellNumbered(u) /\ Count(u, LoadItems) = kernel.loads
      /\ LastSays(u, x.label = "budget_exhausted") /\ AllEvents(u)
  BY <1>1, SignalTells
<1> HIDE DEF u
<1>3. /\ WellNumbered(t) /\ Count(t, LoadItems) = kernel.loads
      /\ LastSays(t, x.label = "budget_exhausted") /\ AllEvents(t)
  <2>1. CASE t = u
    BY <1>2, <2>1
  <2>2. CASE \E y \in Items : t = Append(u, y) /\ y.type # "route_decided" /\ IsEvent(y)
    BY <1>2, <2>2, OtherItemTells
  <2> QED
    BY <2>1, <2>2 DEF u
<1>4. kernel'.failure = "budget_exhausted" <=> x.label = "budget_exhausted"
  BY <1>1
<1>5. KernelComes(kernel')
  BY <1>1 DEF KernelComes, Failures, Deliveries
<1>6. LastSays(t, kernel'.failure = "budget_exhausted")
  BY <1>3, <1>4 DEF LastSays
<1>7. Tale(kernel', t)
  BY <1>3, <1>6 DEF Tale
<1> QED
  BY <1>5, <1>7 DEF KernelTells

LEMMA FailedTale ==
    ASSUME KernelInv, NEW s, KernelTells(kernel, s), kernel.pc \in {"thinking", "dispatch"},
           NEW state, state.loads = kernel.loads, state.canceled = kernel.canceled,
           state.delivery = kernel.delivery, state = [kernel EXCEPT !.calls = state.calls],
           NEW failure \in Failures, NEW label \in RouteLabels, label # "load_skill",
           FailWith(state, failure, RouteSignal(label)),
           failure = "budget_exhausted" <=> label = "budget_exhausted"
    PROVE  KernelTells(kernel', s \o out')
<1>1. s \in Seq(Items) /\ kernel \in KernelState
  BY KernelStateOf DEF KernelTells, Tale
<1>2. PICK x \in RouteItems : /\ x = RouteSignal(label) /\ x.label = label
                              /\ x.step = Count(s, RouteItems) + 1
  BY SignalItems
<1>3. kernel' = [state EXCEPT !.pc = "ended", !.failure = failure] /\ out' = <<x>>
  BY <1>2 DEF FailWith
<1>4. /\ kernel'.pc = "ended" /\ kernel'.failure = failure /\ kernel'.loads = kernel.loads
      /\ kernel'.canceled = kernel.canceled /\ kernel'.delivery = kernel.delivery
  BY <1>1, <1>3 DEF KernelState
<1>5. x \in Items /\ s \o out' = Append(s, x) /\ Append(s, x) \in Seq(Items)
  BY <1>1, <1>3, Joined DEF RouteItems
<1> QED
  BY <1>2, <1>4, <1>5, LastSignalTale

LEMMA StopTale ==
    ASSUME KernelInv, NEW s, KernelTells(kernel, s), StopCancelled(kernel),
           kernel.pc \notin {"ended", "over"}
    PROVE  KernelTells(kernel', s \o out')
<1>1. kernel \in KernelState
  BY KernelStateOf
<1>2. kernel' = [kernel EXCEPT !.pc = "ended", !.canceled = TRUE] /\ out' = <<>>
  BY DEF StopCancelled
<1>3. /\ kernel'.pc = "ended" /\ kernel'.canceled /\ kernel'.loads = kernel.loads
      /\ kernel'.delivery = kernel.delivery /\ kernel'.failure = kernel.failure
  BY <1>1, <1>2 DEF KernelState
<1> QED
  BY <1>2, <1>3, SilentTale

LEMMA DecideTale ==
    ASSUME KernelInv, NEW s, KernelTells(kernel, s), Decide
    PROVE  KernelTells(kernel', s \o out')
<1>1. /\ kernel \in KernelState /\ kernel.pc = "decide" /\ kernel.step = kernel.decisions
      /\ kernel.decisions \in Nat /\ s \in Seq(Items) /\ Count(s, RouteItems) = kernel.decisions
  BY KernelStateOf DEF Decide, KernelInv, KernelTells, Tale
<1>2. CASE cancelled /\ StopCancelled(kernel)
  BY <1>1, <1>2, StopTale
<1>3. CASE ~ MayDecide /\ NoDecisionLeft
  <2>1. PICK step : step = Smaller(kernel.step + 1, MaxDecisions)
    OBVIOUS
  <2>2. step \in {Count(s, RouteItems) + 1, MaxDecisions} /\ step \in Nat
    BY <1>1, <2>1, Budget DEF Smaller
  <2>3. PICK x : x = Item("route_decided", "budget_exhausted", step)
    OBVIOUS
  <2>4. x \in RouteItems /\ x.label = "budget_exhausted" /\ x.step = step
    <3>1. "route_decided" \in ItemTypes /\ "budget_exhausted" \in Labels
      BY DEF ItemTypes, StepTypes, Labels, Failures
    <3>2. x \in Items
      BY <2>2, <2>3, <3>1, ItemsAreItems
    <3> QED
      BY <2>3, <3>2 DEF RouteItems, Item
  <2>5. /\ kernel' = [[kernel EXCEPT !.decision = NoDecision] EXCEPT !.pc = "ended",
                                                                     !.failure = "budget_exhausted"]
        /\ out' = <<x>>
    BY <1>3, <2>1, <2>3 DEF NoDecisionLeft, FailWith
  <2>6. /\ kernel'.pc = "ended" /\ kernel'.failure = "budget_exhausted"
        /\ kernel'.loads = kernel.loads /\ kernel'.canceled = kernel.canceled
        /\ kernel'.delivery = kernel.delivery
    BY <1>1, <2>5 DEF KernelState
  <2>7. x \in Items /\ s \o out' = Append(s, x) /\ Append(s, x) \in Seq(Items)
    BY <1>1, <2>4, <2>5, Joined DEF RouteItems
  <2>8. kernel'.failure \in Failures
    BY <2>6 DEF Failures
  <2> QED
    BY <1>1, <2>2, <2>4, <2>6, <2>7, <2>8, LastSignalTale
<1>4. CASE /\ kernel' = [kernel EXCEPT !.pc = "thinking", !.step = @ + 1, !.decisions = @ + 1,
                                       !.decision = NoDecision, !.until = now + Wait(ModelWait),
                                       !.clipped = Remaining < ModelWait]
           /\ out' = <<>>
  <2>1. /\ kernel'.pc = "thinking" /\ kernel'.decisions = kernel.decisions + 1
        /\ kernel'.loads = kernel.loads /\ kernel'.delivery = kernel.delivery
        /\ kernel'.failure = kernel.failure /\ kernel'.canceled = kernel.canceled
    BY <1>1, <1>4 DEF KernelState
  <2> QED
    BY <1>1, <1>4, <2>1, SilentTale
<1> QED
  BY <1>2, <1>3, <1>4 DEF Decide

\* The graph ends with a failure and its signal.
LEMMA RefusedTale ==
    ASSUME KernelInv, NEW s, KernelTells(kernel, s), kernel.pc \in {"thinking", "dispatch"},
           NEW failure \in Failures, NEW label \in RouteLabels, label # "load_skill",
           Failed(failure, label), failure = "budget_exhausted" <=> label = "budget_exhausted"
    PROVE  KernelTells(kernel', s \o out')
<1>1. kernel = [kernel EXCEPT !.calls = kernel.calls]
  BY KernelStateOf DEF KernelState
<1> QED
  BY <1>1, FailedTale DEF Failed

LEMMA ModelTale ==
    ASSUME KernelInv, NEW s, KernelTells(kernel, s), ModelAnswers
    PROVE  KernelTells(kernel', s \o out')
<1>1. kernel \in KernelState /\ kernel.pc = "thinking"
  BY KernelStateOf DEF ModelAnswers
<1>2. {"budget_exhausted", "model_unavailable", "model_decision_invalid"} \subseteq Failures
      /\ {"budget_exhausted", "failed"} \subseteq RouteLabels
  BY DEF Failures, RouteLabels
<1>3. CASE StopCancelled(kernel)
  BY <1>1, <1>3, StopTale
<1>4. CASE \/ Failed("budget_exhausted", "budget_exhausted")
           \/ Failed("model_unavailable", "failed") \/ Failed("model_decision_invalid", "failed")
  BY <1>1, <1>2, <1>4, RefusedTale
<1>5. CASE \E d \in Decisions : Done([kernel EXCEPT !.pc = "dispatch", !.decision = d])
  <2>1. PICK d \in Decisions : kernel' = [kernel EXCEPT !.pc = "dispatch", !.decision = d] /\ out' = <<>>
    BY <1>5 DEF Done
  <2>2. /\ kernel'.pc = "dispatch" /\ kernel'.decisions = kernel.decisions
        /\ kernel'.loads = kernel.loads /\ kernel'.delivery = kernel.delivery
        /\ kernel'.failure = kernel.failure /\ kernel'.canceled = kernel.canceled
    BY <1>1, <2>1 DEF KernelState
  <2> QED
    BY <1>1, <2>1, <2>2, SilentTale
<1> QED
  BY <1>3, <1>4, <1>5 DEF ModelAnswers

\* What is delivered is told as it is decided.
LEMMA DeliveredTale ==
    ASSUME KernelInv, NEW s, KernelTells(kernel, s), kernel.pc \in {"dispatch", "calling"},
           NEW delivery \in Deliveries, NEW label \in RouteLabels \ {"load_skill", "budget_exhausted"},
           \/ Deliver(delivery, <<RouteSignal(label)>>)
           \/ Deliver(delivery, <<RouteSignal(label), ToolItem("ok")>>)
    PROVE  KernelTells(kernel', s \o out')
<1>1. s \in Seq(Items) /\ kernel \in KernelState
  BY KernelStateOf DEF KernelTells, Tale
<1>2. PICK x \in RouteItems : /\ x = RouteSignal(label) /\ x.label = label
                              /\ x.step = Count(s, RouteItems) + 1
  BY SignalItems
<1>3. PICK y \in Items : y = ToolItem("ok") /\ y.type = "tool_invoked" /\ IsEvent(y)
  BY SignalItems
<1>4. kernel' = [kernel EXCEPT !.pc = "ended", !.delivery = delivery] /\ out' \in {<<x>>, <<x, y>>}
  BY <1>2, <1>3 DEF Deliver
<1>5. /\ kernel'.pc = "ended" /\ kernel'.failure = kernel.failure /\ kernel'.loads = kernel.loads
      /\ kernel'.canceled = kernel.canceled /\ kernel'.delivery = delivery
  BY <1>1, <1>4 DEF KernelState
<1>6. x \in Items
  BY DEF RouteItems
<1>7. PICK t \in Seq(Items) : s \o out' = t /\ t \in {Append(s, x), Append(Append(s, x), y)}
  <2>1. s \o <<x>> = Append(s, x) /\ s \o <<x, y>> = Append(Append(s, x), y)
    BY <1>1, <1>6, Joined
  <2>2. Append(s, x) \in Seq(Items) /\ Append(Append(s, x), y) \in Seq(Items)
    BY <1>1, <1>6
  <2>3. s \o out' \in {Append(s, x), Append(Append(s, x), y)}
    BY <1>4, <2>1
  <2> QED
    BY <2>2, <2>3
<1>8. t = Append(s, x) \/ (t = Append(Append(s, x), y) /\ y.type # "route_decided" /\ IsEvent(y))
  BY <1>3, <1>7
<1> QED
  BY <1>2, <1>5, <1>7, <1>8, LastSignalTale

LEMMA AnswerTale ==
    ASSUME KernelInv, NEW s, KernelTells(kernel, s), FinalizeAnswer \/ FinalizeNeedsInput
    PROVE  KernelTells(kernel', s \o out')
<1>1. kernel.pc = "dispatch"
  BY DEF FinalizeAnswer, FinalizeNeedsInput, Dispatched
<1>2. CASE FinalizeAnswer
  <2>1. PICK delivery \in {"answer", "answer_with_knowledge"} : Deliver(delivery, <<RouteSignal("answer")>>)
    BY <1>2 DEF FinalizeAnswer
  <2> QED
    BY <1>1, <2>1, DeliveredTale DEF Deliveries, RouteLabels
<1>3. CASE FinalizeNeedsInput
  <2>1. \/ Deliver("needs_input", <<RouteSignal("needs_input")>>)
        \/ Failed("model_decision_invalid", "failed")
    BY <1>3 DEF FinalizeNeedsInput
  <2>2. CASE Deliver("needs_input", <<RouteSignal("needs_input")>>)
    BY <1>1, <2>2, DeliveredTale DEF Deliveries, RouteLabels
  <2>3. CASE Failed("model_decision_invalid", "failed")
    BY <1>1, <2>3, RefusedTale DEF Failures, RouteLabels
  <2> QED
    BY <2>1, <2>2, <2>3
<1> QED
  BY <1>2, <1>3

\* A skill that was loaded is told with the decision that asked for it.
LEMMA SkillTale ==
    ASSUME KernelInv, NEW s, KernelTells(kernel, s), RefuseSkill \/ NoLoadLeft \/ LoadSkill
    PROVE  KernelTells(kernel', s \o out')
<1>1. kernel.pc = "dispatch" /\ kernel \in KernelState
  BY KernelStateOf DEF RefuseSkill, NoLoadLeft, LoadSkill, Dispatched
<1>2. CASE RefuseSkill
  BY <1>1, <1>2, RefusedTale DEF RefuseSkill, Failures, RouteLabels
<1>3. CASE NoLoadLeft
  BY <1>1, <1>3, RefusedTale DEF NoLoadLeft, Failures, RouteLabels
<1>4. CASE LoadSkill
  <2>1. PICK label \in {"load_skill", "load_skill_unavailable"} :
          /\ out' = <<RouteSignal(label)>> /\ kernel'.pc = "decide"
          /\ kernel'.decisions = kernel.decisions /\ kernel'.failure = kernel.failure
          /\ kernel'.delivery = kernel.delivery /\ kernel'.canceled = kernel.canceled
          /\ kernel'.loads = IF label = "load_skill" THEN kernel.loads + 1 ELSE kernel.loads
    <3>1. CASE /\ kernel' = [kernel EXCEPT !.pc = "decide", !.loads = @ + 1, !.observations = @ + 1,
                                           !.loaded = Append(@, kernel.decision.id)]
               /\ out' = <<RouteSignal("load_skill")>>
      BY <1>1, <3>1 DEF KernelState
    <3>2. CASE kernel' = Degrade /\ out' = <<RouteSignal("load_skill_unavailable")>>
      BY <1>1, <3>2 DEF KernelState, Degrade
    <3> QED
      BY <1>4, <3>1, <3>2 DEF LoadSkill
  <2>2. PICK x \in RouteItems : /\ x = RouteSignal(label) /\ x.label = label
                                /\ x.step = Count(s, RouteItems) + 1
    BY <1>1, SignalItems DEF RouteLabels
  <2>3. /\ s \in Seq(Items) /\ AllNumbered(s) /\ AllEvents(s) /\ Count(s, LoadItems) = kernel.loads
        /\ Count(s, RouteItems) + 1 = kernel.decisions /\ kernel.failure = "none" /\ ~ kernel.canceled
    BY <1>1 DEF KernelTells, KernelComes, Tale
  <2>4. s \o out' = Append(s, x)
    BY <2>1, <2>2, <2>3, Joined DEF RouteItems
  <2> DEFINE t == Append(s, x)
  <2>5. /\ t \in Seq(Items) /\ AllNumbered(t) /\ WellNumbered(t) /\ AllEvents(t)
        /\ Count(t, RouteItems) = kernel'.decisions /\ Count(t, LoadItems) = kernel'.loads
    BY <2>1, <2>2, <2>3, SignalTells
  <2> HIDE DEF t
  <2>6. KernelComes(kernel') /\ Tale(kernel', t)
    BY <2>1, <2>3, <2>5 DEF KernelTells, KernelComes, Tale
  <2> QED
    BY <2>4, <2>6 DEF KernelTells, t
<1> QED
  BY <1>2, <1>3, <1>4

LEMMA CapabilityTale ==
    ASSUME KernelInv, NEW s, KernelTells(kernel, s), RefuseCapability \/ CallCapability
    PROVE  KernelTells(kernel', s \o out')
<1>1. kernel.pc = "dispatch" /\ kernel \in KernelState
  BY KernelStateOf DEF RefuseCapability, CallCapability, Dispatched
<1>2. CASE RefuseCapability
  <2> DEFINE counted == [kernel EXCEPT !.calls = @ + 1]
  <2>1. \/ Failed("capability_unavailable", "invoke_capability_unavailable")
        \/ Failed("budget_exhausted", "budget_exhausted")
        \/ FailWith(counted, "model_decision_invalid", RouteSignal("failed"))
        \/ FailWith(counted, "capability_unavailable", RouteSignal("invoke_capability_unavailable"))
    BY <1>2 DEF RefuseCapability
  <2>2. {"capability_unavailable", "budget_exhausted", "model_decision_invalid"} \subseteq Failures
        /\ {"invoke_capability_unavailable", "budget_exhausted", "failed"} \subseteq RouteLabels
    BY DEF Failures, RouteLabels
  <2>3. /\ counted.loads = kernel.loads /\ counted.canceled = kernel.canceled
        /\ counted.delivery = kernel.delivery /\ counted = [kernel EXCEPT !.calls = counted.calls]
    BY <1>1 DEF KernelState
  <2> HIDE DEF counted
  <2>4. CASE \/ Failed("capability_unavailable", "invoke_capability_unavailable")
             \/ Failed("budget_exhausted", "budget_exhausted")
    BY <1>1, <2>2, <2>4, RefusedTale
  <2>5. CASE FailWith(counted, "model_decision_invalid", RouteSignal("failed"))
    BY <1>1, <2>2, <2>3, <2>5, FailedTale
  <2>6. CASE FailWith(counted, "capability_unavailable", RouteSignal("invoke_capability_unavailable"))
    BY <1>1, <2>2, <2>3, <2>6, FailedTale
  <2> QED
    BY <2>1, <2>4, <2>5, <2>6
<1>3. CASE CallCapability
  <2>1. /\ kernel' = [kernel EXCEPT !.pc = "calling", !.calls = @ + 1, !.until = now + Wait(ToolWait),
                                    !.clipped = Remaining < ToolWait]
        /\ out' = <<>>
    BY <1>3 DEF CallCapability, Dispatched
  <2>2. /\ kernel'.pc = "calling" /\ kernel'.decisions = kernel.decisions
        /\ kernel'.loads = kernel.loads /\ kernel'.delivery = kernel.delivery
        /\ kernel'.failure = kernel.failure /\ kernel'.canceled = kernel.canceled
    BY <1>1, <2>1 DEF KernelState
  <2> QED
    BY <1>1, <2>1, <2>2, SilentTale
<1> QED
  BY <1>2, <1>3

LEMMA ToolTale ==
    ASSUME KernelInv, NEW s, KernelTells(kernel, s), ToolAnswers
    PROVE  KernelTells(kernel', s \o out')
<1>1. kernel.pc = "calling" /\ kernel \in KernelState /\ s \in Seq(Items)
  BY KernelStateOf DEF ToolAnswers, KernelTells, Tale
<1>2. CASE StopCancelled(kernel)
  BY <1>1, <1>2, StopTale
<1>3. CASE Deliver("comparison", <<RouteSignal("invoke_capability"), ToolItem("ok")>>)
  BY <1>1, <1>3, DeliveredTale DEF Deliveries, RouteLabels
<1>4. ASSUME NEW failure \in Failures, NEW label \in RouteLabels, label # "load_skill",
             NEW status \in ToolFailures \cup {"ok"},
             failure = "budget_exhausted" <=> label = "budget_exhausted",
             kernel' = [kernel EXCEPT !.pc = "ended", !.failure = failure],
             out' = <<RouteSignal(label), ToolItem(status)>>
      PROVE  KernelTells(kernel', s \o out')
  <2>1. PICK x \in RouteItems : /\ x = RouteSignal(label) /\ x.label = label
                                /\ x.step = Count(s, RouteItems) + 1
    BY <1>1, SignalItems
  <2>2. PICK y \in Items : y = ToolItem(status) /\ y.type = "tool_invoked" /\ IsEvent(y)
    BY <1>1, SignalItems
  <2>3. /\ kernel'.pc = "ended" /\ kernel'.failure = failure /\ kernel'.loads = kernel.loads
        /\ kernel'.canceled = kernel.canceled /\ kernel'.delivery = kernel.delivery
    BY <1>1, <1>4 DEF KernelState
  <2>4. x \in Items
    BY DEF RouteItems
  <2>5. PICK t \in Seq(Items) : s \o out' = t /\ t = Append(Append(s, x), y)
    <3>1. s \o <<x, y>> = Append(Append(s, x), y) /\ Append(Append(s, x), y) \in Seq(Items)
      BY <1>1, <2>4, Joined
    <3> QED
      BY <1>4, <2>1, <2>2, <3>1
  <2>6. \E z \in Items : t = Append(Append(s, x), z) /\ z.type # "route_decided" /\ IsEvent(z)
    BY <2>2, <2>5
  <2> QED
    BY <1>1, <1>4, <2>1, <2>3, <2>5, <2>6, LastSignalTale
<1>5. CASE /\ kernel' = [kernel EXCEPT !.pc = "ended", !.failure = "delivery_invalid"]
           /\ out' = <<RouteSignal("invoke_capability_unavailable"), ToolItem("ok")>>
  BY <1>4, <1>5 DEF Failures, RouteLabels
<1>6. ASSUME NEW status \in ToolFailures, NEW spent \in BOOLEAN,
             kernel' = [kernel EXCEPT !.pc = "ended",
                                      !.failure = IF spent THEN "budget_exhausted" ELSE "tool_failed"],
             out' = <<RouteSignal(IF spent THEN "budget_exhausted" ELSE "invoke_capability_unavailable"),
                      ToolItem(status)>>
      PROVE  KernelTells(kernel', s \o out')
  <2>1. CASE spent
    BY <1>4, <1>6, <2>1 DEF Failures, RouteLabels
  <2>2. CASE ~ spent
    BY <1>4, <1>6, <2>2 DEF Failures, RouteLabels
  <2> QED
    BY <2>1, <2>2
<1>7. CASE \E status \in ToolFailures :
             LET spent == kernel.clipped /\ status = "timeout"
                 label == IF spent THEN "budget_exhausted" ELSE "invoke_capability_unavailable"
             IN /\ kernel' = [kernel EXCEPT !.pc = "ended",
                                  !.failure = IF spent THEN "budget_exhausted" ELSE "tool_failed"]
                /\ out' = <<RouteSignal(label), ToolItem(status)>>
  <2>1. PICK status \in ToolFailures :
             LET spent == kernel.clipped /\ status = "timeout"
                 label == IF spent THEN "budget_exhausted" ELSE "invoke_capability_unavailable"
             IN /\ kernel' = [kernel EXCEPT !.pc = "ended",
                                  !.failure = IF spent THEN "budget_exhausted" ELSE "tool_failed"]
                /\ out' = <<RouteSignal(label), ToolItem(status)>>
    BY <1>7
  <2> QED
    BY <1>6, <2>1
<1> QED
  BY <1>2, <1>3, <1>5, <1>7 DEF ToolAnswers

\* The outcome is told last, and with the end that is its own.
LEMMA OutcomeTale ==
    ASSUME KernelInv, NEW s, KernelTells(kernel, s), ReportOutcome
    PROVE  KernelTells(kernel', s \o out')
<1>1. /\ kernel \in KernelState /\ kernel.pc = "ended" /\ kernel' = [kernel EXCEPT !.pc = "over"]
      /\ s \in Seq(Items) /\ AllEvents(s) /\ WellNumbered(s) /\ out' \in Seq(Items)
  BY KernelStateOf, OutcomeFits DEF ReportOutcome, KernelTells, Tale
<1>2. /\ kernel'.pc = "over" /\ kernel'.decisions = kernel.decisions /\ kernel'.loads = kernel.loads
      /\ kernel'.failure = kernel.failure /\ kernel'.delivery = kernel.delivery
      /\ kernel'.canceled = kernel.canceled
  BY <1>1 DEF KernelState
<1>3. KernelComes(kernel')
  BY <1>1, <1>2 DEF KernelTells, KernelComes
<1>4. \A i \in DOMAIN s : IsEvent(s[i]) /\ s[i].type # "eof"
  BY <1>1 DEF AllEvents, IsEvent, Broken
<1>5. PICK end \in Items : end = Eof /\ end.type = "eof"
  <2>1. "eof" \in ItemTypes /\ "" \in Labels /\ 0 \in Nat
    BY DEF ItemTypes, Broken, Labels
  <2> QED
    BY <2>1, ItemsAreItems DEF Eof, Item
<1>6. CASE kernel.canceled
  <2>1. s \o out' = Append(s, end)
    BY <1>1, <1>5, <1>6, Joined DEF ReportOutcome
  <2> DEFINE t == Append(s, end)
  <2>2. /\ t \in Seq(Items) /\ WellNumbered(t) /\ Count(t, LoadItems) = Count(s, LoadItems)
    BY <1>1, <1>5, OtherItemTells
  <2>3. DOMAIN t = 1 .. Len(s) + 1 /\ DOMAIN s = 1 .. Len(s) /\ Len(t) = Len(s) + 1
        /\ \A i \in 1 .. Len(s) : t[i] = s[i]
    BY <1>1
  <2> HIDE DEF t
  <2>4. LastTold(kernel', t)
    BY <1>1, <1>2, <1>4, <1>6, <2>3 DEF LastTold
  <2>5. Tale(kernel', t)
    BY <1>2, <1>6, <2>2, <2>4 DEF KernelTells, Tale
  <2> QED
    BY <1>3, <2>1, <2>5 DEF KernelTells, t
<1>7. CASE ~ kernel.canceled
  <2>1. PICK done, result : done = Item("agent_done", OutcomeLabel, kernel.step) /\ result = EndFor(kernel)
    OBVIOUS
  <2>2. out' = <<done, result, end>>
    BY <1>1, <1>5, <1>7, <2>1 DEF ReportOutcome, EndFor
  <2>3. done \in Items /\ result \in Items
    BY <1>1, <2>2, OfThree
  <2>4. /\ done.type = "agent_done" /\ done.label = OutcomeOf(kernel)
        /\ result.type \in {"delivery", "failure"}
    BY <2>1 DEF Item, OutcomeLabel, OutcomeOf, EndFor
  <2> DEFINE t == Append(s, done)
             u == Append(t, result)
             v == Append(u, end)
  <2>5. s \o out' = v
    BY <1>1, <2>2, <2>3, Joined
  <2>6. t \in Seq(Items) /\ WellNumbered(t) /\ Count(t, LoadItems) = Count(s, LoadItems)
        /\ \A spent \in BOOLEAN : LastSays(s, spent) => LastSays(t, spent)
    BY <1>1, <2>3, <2>4, OtherItemTells
  <2>7. u \in Seq(Items) /\ WellNumbered(u) /\ Count(u, LoadItems) = Count(s, LoadItems)
        /\ \A spent \in BOOLEAN : LastSays(s, spent) => LastSays(u, spent)
    BY <2>3, <2>4, <2>6, OtherItemTells
  <2>8. v \in Seq(Items) /\ WellNumbered(v) /\ Count(v, LoadItems) = Count(s, LoadItems)
        /\ \A spent \in BOOLEAN : LastSays(s, spent) => LastSays(v, spent)
    BY <1>5, <2>7, OtherItemTells
  <2>9. /\ Len(v) = Len(s) + 3 /\ DOMAIN v = 1 .. Len(s) + 3 /\ DOMAIN s = 1 .. Len(s) /\ Len(s) \in Nat
        /\ \A i \in 1 .. Len(s) : v[i] = s[i]
        /\ v[Len(s) + 1] = done /\ v[Len(s) + 2] = result /\ v[Len(s) + 3] = end
    BY <1>1, <2>3, <2>6, <2>7
  <2> HIDE DEF t, u, v
  <2>10. OutcomeOf(kernel') = OutcomeOf(kernel) /\ EndFor(kernel') = EndFor(kernel)
    BY <1>2 DEF OutcomeOf, EndFor
  <2>11. \A i \in DOMAIN v : v[i].type = "eof" => i = Len(v)
    BY <1>4, <2>4, <2>9
  <2>12. /\ Len(s) + 1 \in DOMAIN v /\ (Len(s) + 1) + 2 = Len(v)
         /\ v[Len(s) + 1].type = "agent_done" /\ v[Len(s) + 1].label = OutcomeOf(kernel')
         /\ v[(Len(s) + 1) + 1] = EndFor(kernel')
    BY <2>1, <2>4, <2>9, <2>10
  <2>13. LastTold(kernel', v)
    <3>1. kernel'.failure # "none" \/ kernel'.delivery # "none"
      BY <1>1, <1>2, <1>7 DEF KernelTells, KernelComes
    <3> QED
      BY <1>2, <1>7, <2>11, <2>12, <3>1 DEF LastTold
  <2>14. kernel.failure # "raised" => LastSays(v, kernel.failure = "budget_exhausted")
    BY <1>1, <1>7, <2>8 DEF KernelTells, Tale
  <2>15. Tale(kernel', v)
    BY <1>2, <2>8, <2>13, <2>14 DEF KernelTells, Tale
  <2> QED
    BY <1>3, <2>5, <2>15 DEF KernelTells
<1> QED
  BY <1>6, <1>7

\* A run that raises is over, with one item or two that are no signals.
LEMMA RaisedTale ==
    ASSUME KernelInv, NEW s, KernelTells(kernel, s), kernel.pc \in {"start", "dispatch"},
           kernel' = [kernel EXCEPT !.pc = "over", !.failure = "raised"],
           \/ out' = <<Item("raise", "MAIN_AGENT_RULE_UNAVAILABLE", 0)>>
           \/ out' = <<Item("failure", "raised", 0), Eof>>,
           out' \in Seq(Items)
    PROVE  KernelTells(kernel', s \o out')
<1>1. /\ kernel \in KernelState /\ s \in Seq(Items) /\ AllEvents(s) /\ WellNumbered(s)
      /\ Count(s, LoadItems) = kernel.loads /\ kernel.failure = "none" /\ ~ kernel.canceled
      /\ kernel.delivery = "none"
  BY KernelStateOf DEF KernelTells, Tale, KernelComes, KernelInv
<1>2. /\ kernel'.pc = "over" /\ kernel'.loads = kernel.loads /\ kernel'.failure = "raised"
      /\ kernel'.delivery = "none" /\ ~ kernel'.canceled
  BY <1>1 DEF KernelState
<1>3. KernelComes(kernel')
  BY <1>2 DEF KernelComes
<1>4. \A i \in DOMAIN s : s[i].type # "eof"
  BY <1>1 DEF AllEvents, IsEvent, Broken
<1>5. CASE out' = <<Item("raise", "MAIN_AGENT_RULE_UNAVAILABLE", 0)>>
  <2>1. PICK x : x = Item("raise", "MAIN_AGENT_RULE_UNAVAILABLE", 0)
    OBVIOUS
  <2>2. x \in Items /\ x.type = "raise" /\ out' = <<x>>
    <3>1. out' = <<x>> /\ x.type = "raise"
      BY <1>5, <2>1 DEF Item
    <3> QED
      BY <3>1, OfOne
  <2> DEFINE t == Append(s, x)
  <2>3. s \o out' = t
    BY <1>1, <2>2, Joined
  <2>4. t \in Seq(Items) /\ WellNumbered(t) /\ Count(t, LoadItems) = kernel.loads
    BY <1>1, <2>2, OtherItemTells
  <2>5. \A i \in DOMAIN t : t[i].type # "eof"
    BY <1>1, <1>4, <2>2
  <2> HIDE DEF t
  <2>6. Tale(kernel', t)
    BY <1>2, <2>4, <2>5 DEF Tale, LastTold
  <2> QED
    BY <1>3, <2>3, <2>6 DEF KernelTells
<1>6. CASE out' = <<Item("failure", "raised", 0), Eof>>
  <2>1. PICK x, y : x = Item("failure", "raised", 0) /\ y = Eof
    OBVIOUS
  <2>2. x \in Items /\ y \in Items /\ x.type = "failure" /\ y.type = "eof" /\ out' = <<x, y>>
    <3>1. out' = <<x, y>> /\ x.type = "failure" /\ y.type = "eof"
      BY <1>6, <2>1 DEF Item, Eof
    <3> QED
      BY <3>1, OfTwo
  <2> DEFINE u == Append(s, x)
             t == Append(u, y)
  <2>3. s \o out' = t
    BY <1>1, <2>2, Joined
  <2>4. u \in Seq(Items) /\ WellNumbered(u) /\ Count(u, LoadItems) = kernel.loads
    BY <1>1, <2>2, OtherItemTells
  <2>5. t \in Seq(Items) /\ WellNumbered(t) /\ Count(t, LoadItems) = kernel.loads
    BY <2>2, <2>4, OtherItemTells
  <2>6. \A i \in DOMAIN u : u[i].type # "eof"
    BY <1>1, <1>4, <2>2
  <2>7. \A i \in DOMAIN t : t[i].type = "eof" => i = Len(t)
    BY <2>2, <2>4, <2>6
  <2> HIDE DEF u, t
  <2>8. Tale(kernel', t)
    BY <1>2, <2>5, <2>7 DEF Tale, LastTold
  <2> QED
    BY <1>3, <2>3, <2>8 DEF KernelTells
<1> QED
  BY <1>5, <1>6

LEMMA StartTale ==
    ASSUME KernelInv, NEW s, KernelTells(kernel, s), StartAgent
    PROVE  KernelTells(kernel', s \o out')
<1>1. /\ kernel \in KernelState /\ kernel.pc = "start" /\ s = <<>> /\ kernel.decisions = 0
      /\ kernel' = [kernel EXCEPT !.pc = "decide"] /\ out' \in Seq(Items)
      /\ out' = <<Item("agent_start", "", 0)>> /\ Count(s, LoadItems) = kernel.loads
      /\ kernel.failure = "none" /\ ~ kernel.canceled /\ kernel.delivery = "none"
  BY KernelStateOf, StartAgentFits DEF StartAgent, KernelTells, Tale, KernelComes, KernelInv
<1>2. /\ kernel'.pc = "decide" /\ kernel'.decisions = 0 /\ kernel'.loads = kernel.loads
      /\ kernel'.failure = "none" /\ kernel'.delivery = "none" /\ ~ kernel'.canceled
  BY <1>1 DEF KernelState
<1>3. PICK x : x = Item("agent_start", "", 0)
  OBVIOUS
<1>4. x \in Items /\ x.type = "agent_start" /\ out' = <<x>> /\ IsEvent(x)
  <2>1. out' = <<x>> /\ x.type = "agent_start"
    <3>1. out' = <<x>>
      BY <1>1, <1>3
    <3>2. x.type = "agent_start"
      BY <1>3 DEF Item
    <3> QED
      BY <3>1, <3>2
  <2>2. x \in Items
    <3>1. out' \in Seq(Items) /\ out' = <<x>>
      BY <1>1, <2>1
    <3>2. 1 \in DOMAIN out' /\ out'[1] = x
      BY <3>1, OfOne
    <3> QED
      BY <3>1, <3>2
  <2>3. IsEvent(x)
    BY <2>1 DEF IsEvent, Ends, Broken
  <2> QED
    BY <2>1, <2>2, <2>3
<1>5. s \in Seq(Items) /\ Count(s, RouteItems) = 0 /\ AllNumbered(s) /\ WellNumbered(s) /\ AllEvents(s)
  BY <1>1, NothingTells
<1> DEFINE t == Append(s, x)
<1>6. s \o out' = t
  BY <1>4, <1>5, Joined
<1>7. /\ t \in Seq(Items) /\ AllNumbered(t) /\ WellNumbered(t) /\ AllEvents(t)
      /\ Count(t, RouteItems) = 0 /\ Count(t, LoadItems) = kernel.loads
  BY <1>1, <1>4, <1>5, OtherItemTells
<1> HIDE DEF t
<1>8. KernelComes(kernel') /\ Tale(kernel', t)
  BY <1>2, <1>7 DEF KernelComes, Tale
<1> QED
  BY <1>6, <1>8 DEF KernelTells

LEMMA NodeTale ==
    ASSUME KernelInv, NEW s, KernelTells(kernel, s), KernelNode
    PROVE  KernelTells(kernel', s \o out')
<1>1. CASE KernelRaises \/ RefuseInput
  <2>1. out' \in Seq(Items)
    BY <1>1, OutcomeFits, StartAgentFits
  <2> QED
    BY <1>1, <2>1, RaisedTale DEF KernelRaises, RefuseInput
<1> QED
  BY <1>1, DecideTale, ModelTale, AnswerTale, SkillTale, CapabilityTale, ToolTale, OutcomeTale, StartTale
     DEF KernelNode, KernelStep

\* What was told up to some point is told of it as well.
LEMMA PrefixTells ==
    ASSUME NEW s \in Seq(Items), NEW u \in Seq(Items), WellNumbered(s \o u)
    PROVE  WellNumbered(s)
<1> DEFINE t == s \o u
<1>1. /\ DOMAIN s = 1 .. Len(s) /\ Len(s) \in Nat /\ DOMAIN t = 1 .. Len(s) + Len(u) /\ Len(u) \in Nat
      /\ \A i \in 1 .. Len(s) : t[i] = s[i]
  OBVIOUS
<1>2. WellNumbered(t)
  OBVIOUS
<1> HIDE DEF t
<1>3. \A i \in At(s, RouteItems) : i \in 1 .. Len(s) /\ i \in At(t, RouteItems) /\ t[i] = s[i]
  BY <1>1 DEF At
<1>4. \A j \in At(t, RouteItems) : \A i \in 1 .. Len(s) : j <= i => j \in At(s, RouteItems)
  BY <1>1 DEF At
<1>5. ASSUME NEW i \in At(s, RouteItems)
      PROVE  {j \in At(t, RouteItems) : j <= i} = {j \in At(s, RouteItems) : j <= i}
  BY <1>3, <1>4
<1>6. ASSUME NEW i \in At(s, RouteItems)
      PROVE  /\ Numbered(t, i) => Numbered(s, i)
             /\ LastOf(At(t, RouteItems), i) => LastOf(At(s, RouteItems), i)
  BY <1>3, <1>5 DEF Numbered, LastOf
<1> QED
  BY <1>2, <1>3, <1>6 DEF WellNumbered

\* The guard reads what was told as it was told, to the end unless it breaks off.
LEMMA ReadingTells ==
    ASSUME GuardInv, GuardReads,
           \A i \in DOMAIN (read \o out) : (read \o out)[i].type = "eof" => i = Len(read \o out)
    PROVE  /\ read' \in Seq(Items) /\ Tail(out) \in Seq(Items)
           /\ read' \o Tail(out) = read \o out
           /\ stream'.verdict \in {"none", "ended"} => read' \o out' = read \o out
           /\ Over' => out' = <<>>
           /\ Len(read') <= Len(read \o out)
<1>1. /\ out \in Seq(Items) /\ read \in Seq(Items) /\ StreamType /\ out # <<>> /\ stream.verdict = "none"
      /\ stream' = Guard(Head(out)) /\ read' = Append(read, Head(out))
      /\ out' = IF stream'.verdict = "none" THEN Tail(out) ELSE <<>>
  BY DEF GuardInv, GuardReads, Over
<1>2. Head(out) \in Items /\ Tail(out) \in Seq(Items) /\ Head(out) = out[1]
      /\ Len(Tail(out)) = Len(out) - 1 /\ Len(out) \in Nat /\ Len(out) > 0 /\ Len(read) \in Nat
  BY <1>1
<1>3. read' \in Seq(Items) /\ read' \o Tail(out) = read \o out
  <2>1. Append(read, Head(out)) = read \o <<Head(out)>>
    BY <1>1, <1>2
  <2>2. out = <<Head(out)>> \o Tail(out)
    BY <1>1
  <2>3. (read \o <<Head(out)>>) \o Tail(out) = read \o (<<Head(out)>> \o Tail(out))
    BY <1>1, <1>2
  <2> QED
    BY <1>1, <1>2, <2>1, <2>2, <2>3
<1>4. stream'.verdict = "ended" => Head(out).type = "eof"
  <2>1. \A item, verdict : End(item, verdict).verdict = verdict
    BY <1>1 DEF End, StreamType
  <2>2. \A item : [stream EXCEPT !.held = item].verdict = "none" /\ Pass(item).verdict = "none"
    BY <1>1 DEF Pass, StreamType
  <2>3. \/ Head(out).type = "eof"
        \/ \E item : \E verdict \in {"raised", "protocol"} : stream' = End(item, verdict)
        \/ stream' = [stream EXCEPT !.held = Head(out)]
        \/ stream' = Pass(Head(out))
    BY <1>1, GuardCases
  <2>4. CASE \E item : \E verdict \in {"raised", "protocol"} : stream' = End(item, verdict)
    BY <2>1, <2>4
  <2>5. CASE stream' = [stream EXCEPT !.held = Head(out)] \/ stream' = Pass(Head(out))
    BY <2>2, <2>5
  <2> QED
    BY <2>3, <2>4, <2>5
<1>5. Head(out).type = "eof" => Tail(out) = <<>>
  <2>1. /\ Len(read) + 1 \in DOMAIN (read \o out) /\ (read \o out)[Len(read) + 1] = out[1]
        /\ Len(read \o out) = Len(read) + Len(out)
    BY <1>1, <1>2
  <2>2. Head(out).type = "eof" => Len(Tail(out)) = 0
    BY <1>2, <2>1
  <2> QED
    BY <1>2, <2>2
<1>6. stream'.verdict \in {"none", "ended"} => read' \o out' = read \o out
  <2>1. stream'.verdict \in {"none", "ended"} => out' = Tail(out)
    BY <1>1, <1>4, <1>5
  <2> QED
    BY <1>3, <2>1
<1>7. Len(read') <= Len(read \o out)
  BY <1>1, <1>2
<1> QED
  BY <1>1, <1>2, <1>3, <1>6, <1>7 DEF Over

TaleFits ==
    kind = "main_agent" =>
        /\ WellNumbered(read)
        /\ stream.verdict \in {"none", "ended"} => KernelTells(kernel, read \o out)
        /\ Over => out = <<>>

LEMMA EofIsLast ==
    ASSUME NEW s, KernelTells(kernel, s)
    PROVE  \A i \in DOMAIN s : s[i].type = "eof" => i = Len(s)
<1>1. CASE kernel.pc = "over"
  BY <1>1 DEF KernelTells, Tale, LastTold
<1>2. CASE kernel.pc # "over"
  BY <1>2 DEF KernelTells, Tale, AllEvents, IsEvent, Broken
<1> QED
  BY <1>1, <1>2

LEMMA TaleStepFits ==
    ASSUME RunInv, TaleFits, [Next]_vars
    PROVE  TaleFits'
<1> SUFFICES ASSUME kind' = "main_agent" PROVE TaleFits'
  BY DEF TaleFits
<1>1. KernelInv /\ GuardInv /\ read \in Seq(Items) /\ out \in Seq(Items)
  BY DEF RunInv, GuardInv
<1>2. CASE GuardReads
  <2>1. /\ kind = "main_agent" /\ stream.verdict = "none" /\ UNCHANGED kernel
        /\ KernelTells(kernel, read \o out)
    BY <1>2 DEF GuardReads, mainVars, TaleFits, Over
  <2>2. \A i \in DOMAIN (read \o out) : (read \o out)[i].type = "eof" => i = Len(read \o out)
    BY <2>1, EofIsLast
  <2>3. /\ read' \in Seq(Items) /\ Tail(out) \in Seq(Items)
        /\ read' \o Tail(out) = read \o out
        /\ stream'.verdict \in {"none", "ended"} => read' \o out' = read \o out
        /\ Over' => out' = <<>>
    BY <1>1, <1>2, <2>2, ReadingTells
  <2>4. WellNumbered(read' \o Tail(out))
    BY <2>1, <2>3 DEF KernelTells, Tale
  <2>5. WellNumbered(read')
    BY <2>3, <2>4, PrefixTells
  <2> QED
    BY <2>1, <2>3, <2>5 DEF TaleFits
<1>3. CASE MainAgent
  <2>1. /\ kind = "main_agent" /\ ~ Over /\ stream.verdict = "none" /\ KernelNode
        /\ UNCHANGED <<stream, read>> /\ KernelTells(kernel, read \o out) /\ WellNumbered(read)
    BY <1>3 DEF MainAgent, TaleFits, Over
  <2>2. out = <<>>
    <3>1. kernel.pc = "start" => read \o out = <<>>
      BY <2>1 DEF KernelTells, Tale
    <3>2. kernel.pc = "start" => Len(read) + Len(out) = 0
      BY <1>1, <3>1
    <3>3. kernel.pc = "start" => out = <<>>
      BY <1>1, <3>2
    <3> QED
      BY <2>1, <3>3 DEF KernelNode, KernelStep, RefuseInput, StartAgent, Decide, ModelAnswers,
         FinalizeAnswer, FinalizeNeedsInput, RefuseSkill, NoLoadLeft, LoadSkill, RefuseCapability,
         CallCapability, Dispatched, ToolAnswers, KernelRaises, ReportOutcome
  <2>3. read \o out = read
    BY <1>1, <2>2
  <2>4. KernelTells(kernel', read \o out')
    BY <1>1, <2>1, <2>3, NodeTale
  <2> QED
    BY <2>1, <2>4 DEF TaleFits, Over
<1>4. CASE MainAgentWaits \/ UNCHANGED vars
  <2>1. UNCHANGED <<kind, kernel, out, stream, read>>
    BY <1>4 DEF MainAgentWaits, Cancel, Tick, vars, mainVars
  <2> QED
    BY <2>1 DEF TaleFits, Over
<1>5. CASE Diagnosis \/ ToolThreads \/ Other
  BY <1>5 DEF Diagnosis, ToolThreads, Other
<1> QED
  BY <1>2, <1>3, <1>4, <1>5 DEF Next

LEMMA TaleInitFits == Init => TaleFits
<1> SUFFICES ASSUME Init PROVE TaleFits
  OBVIOUS
<1>1. read = <<>> /\ out = <<>> /\ stream.verdict = "none" /\ kernel = NewKernel
  BY DEF Init, KernelInit
<1>2. PICK s : s = read \o out
  OBVIOUS
<1>3. s = <<>>
  BY <1>1, <1>2
<1>4. /\ s \in Seq(Items) /\ Count(s, RouteItems) = 0 /\ Count(s, LoadItems) = 0
      /\ AllNumbered(s) /\ WellNumbered(s) /\ AllEvents(s)
  BY <1>3, NothingTells
<1>5. /\ kernel.pc = "start" /\ kernel.decisions = 0 /\ kernel.loads = 0 /\ kernel.failure = "none"
      /\ kernel.delivery = "none" /\ ~ kernel.canceled
  BY <1>1 DEF NewKernel
<1>6. KernelTells(kernel, s)
  BY <1>3, <1>4, <1>5 DEF KernelTells, KernelComes, Tale
<1>7. ~ Over
  BY <1>1 DEF Over
<1> QED
  BY <1>1, <1>2, <1>3, <1>4, <1>6, <1>7 DEF TaleFits

\* What was passed on is what was read, up to the end.
LEMMA ToldIsRead ==
    ASSUME RunInv
    PROVE  /\ stream.passed \in Seq(Items) /\ read \in Seq(Items) /\ Told \in Nat
           /\ Told <= Len(read) /\ \A i \in 1 .. Told : i \in DOMAIN stream.passed /\ stream.passed[i] = read[i]
           /\ \A i \in DOMAIN stream.passed : i \in 1 .. Told \/ IsEnd(stream.passed[i])
<1>1. GuardInv /\ stream.passed \in Seq(Items) /\ read \in Seq(Items)
  BY DEF RunInv, GuardInv, StreamType
<1>2. CASE Over
  <2>1. /\ OneEndLast /\ Told = Len(stream.passed) - 1 /\ stream.passed # <<>>
        /\ IsEnd(stream.passed[Len(stream.passed)])
    BY <1>1, <1>2 DEF GuardInv, Told, OneEndLast
  <2>2. Told <= Len(read) /\ \A i \in 1 .. Told : stream.passed[i] = read[i]
    BY <2>1 DEF OneEndLast
  <2> QED
    BY <1>1, <2>1, <2>2
<1>3. CASE ~ Over
  <2>1. /\ Told = Len(stream.passed) /\ Len(read) \in {Len(stream.passed), Len(stream.passed) + 1}
        /\ \A i \in DOMAIN stream.passed : stream.passed[i] = read[i]
    BY <1>1, <1>3 DEF GuardInv, GuardReadsOn, Told
  <2> QED
    BY <1>1, <2>1
<1> QED
  BY <1>2, <1>3

\* When the executor ended as it should, what was passed on is all it told but the eof.
LEMMA EndedIsRead ==
    ASSUME RunInv, stream.verdict = "ended"
    PROVE  /\ read \in Seq(Items) /\ stream.passed \in Seq(Items) /\ Len(read) = Len(stream.passed) + 1
           /\ Len(stream.passed) \in Nat /\ Len(stream.passed) > 0
           /\ read = Append(stream.passed, read[Len(read)])
           /\ \A i \in DOMAIN stream.passed : i \in DOMAIN read /\ stream.passed[i] = read[i]
           /\ read[Len(read)].type = "eof" /\ read[Len(read)] \in Items
           /\ IsEnd(read[Len(read) - 1]) /\ \A i \in 1 .. Len(read) - 2 : IsEvent(read[i])
<1>1. GuardInv /\ stream.passed \in Seq(Items) /\ read \in Seq(Items) /\ OneEndLast
  BY DEF RunInv, GuardInv, StreamType, Over
<1>2. Kept(read) /\ stream.passed = SubSeq(read, 1, Len(read) - 1)
  BY <1>1 DEF OneEndLast, Over
<1>3. /\ read # <<>> /\ read[Len(read)].type = "eof" /\ Len(read) > 1 /\ Len(read) \in Nat
      /\ IsEnd(read[Len(read) - 1]) /\ \A i \in 1 .. Len(read) - 2 : IsEvent(read[i])
  BY <1>1, <1>2 DEF Kept
<1>4. /\ Len(stream.passed) = Len(read) - 1
      /\ \A i \in 1 .. Len(read) - 1 : stream.passed[i] = read[i]
  BY <1>1, <1>2, <1>3
<1>5. read[Len(read)] \in Items
  BY <1>1, <1>3
<1>6. read = Append(stream.passed, read[Len(read)])
  <2> DEFINE t == Append(stream.passed, read[Len(read)])
  <2>1. t \in Seq(Items) /\ Len(t) = Len(read)
    BY <1>1, <1>3, <1>4, <1>5
  <2>2. \A i \in 1 .. Len(read) : t[i] = read[i]
    BY <1>1, <1>3, <1>4, <1>5
  <2> HIDE DEF t
  <2>3. t = read
    BY <1>1, <2>1, <2>2, SeqEqual
  <2> QED
    BY <2>3 DEF t
<1> QED
  BY <1>1, <1>3, <1>4, <1>5, <1>6

\* The events of a main agent Run and its end tell one story.
LEMMA StoryOf == RunInv /\ TaleFits => MainAgentTellsItsStory
<1> SUFFICES ASSUME RunInv, TaleFits, kind = "main_agent"
             PROVE  MainAgentTellsItsStory
  BY DEF MainAgentTellsItsStory
<1> DEFINE passed == stream.passed
           routes == OfType("route_decided")
           last == passed[Len(passed)]
           done == passed[Len(passed) - 1]
<1>1. /\ passed \in Seq(Items) /\ read \in Seq(Items) /\ Told \in Nat
      /\ Told <= Len(read) /\ \A i \in 1 .. Told : i \in DOMAIN passed /\ passed[i] = read[i]
      /\ \A i \in DOMAIN passed : i \in 1 .. Told \/ IsEnd(passed[i])
  BY ToldIsRead
<1>2. routes = At(passed, RouteItems)
  BY <1>1 DEF At, RouteItems, OfType
<1> HIDE DEF routes
<1>3. ASSUME NEW i \in routes
      PROVE  \/ passed[i].step = Cardinality({j \in routes : j <= i})
             \/ LastOf(routes, i) /\ passed[i].step = MaxDecisions
  <2>1. \A j \in routes : j \in DOMAIN passed /\ passed[j] \in RouteItems /\ ~ IsEnd(passed[j])
    BY <1>2 DEF At, RouteItems, IsEnd, Ends
  <2>2. \A j \in routes : j \in 1 .. Told /\ j \in At(read, RouteItems) /\ passed[j] = read[j]
    BY <1>1, <2>1 DEF At
  <2>3. \A j \in At(read, RouteItems) : j \in 1 .. Told => j \in routes
    BY <1>1, <1>2 DEF At
  <2>4. \A j \in At(read, RouteItems) : j <= i => j \in routes
    <3>1. \A j \in At(read, RouteItems) : j \in 1 .. Len(read)
      BY <1>1 DEF At
    <3> QED
      BY <1>1, <2>2, <2>3, <3>1
  <2>5. {j \in At(read, RouteItems) : j <= i} = {j \in routes : j <= i}
    BY <2>2, <2>4
  <2>6. LastOf(At(read, RouteItems), i) => LastOf(routes, i)
    BY <2>2 DEF LastOf
  <2>7. \/ Numbered(read, i)
        \/ LastOf(At(read, RouteItems), i) /\ read[i].step = MaxDecisions
    BY <2>2 DEF TaleFits, WellNumbered
  <2> QED
    BY <2>2, <2>5, <2>6, <2>7 DEF Numbered
<1>4. ASSUME stream.verdict = "ended"
      PROVE  /\ Cardinality({i \in routes : passed[i].label = "load_skill"}) = kernel.loads
             /\ kernel.failure # "raised" =>
                  /\ done.type = "agent_done"
                  /\ \E i \in DOMAIN passed :
                       /\ LastOf(routes, i)
                       /\ (last.label = "budget_exhausted") <=> (passed[i].label = "budget_exhausted")
                  /\ done.label = IF last.type = "delivery" THEN last.label
                                  ELSE IF last.label = "budget_exhausted" THEN last.label ELSE "failed"
  <2>1. /\ Len(read) = Len(passed) + 1 /\ Len(passed) \in Nat /\ Len(passed) > 0
        /\ read = Append(passed, read[Len(read)])
        /\ \A i \in DOMAIN passed : i \in DOMAIN read /\ passed[i] = read[i]
        /\ read[Len(read)].type = "eof" /\ read[Len(read)] \in Items
        /\ IsEnd(read[Len(read) - 1]) /\ \A i \in 1 .. Len(read) - 2 : IsEvent(read[i])
    BY <1>4, EndedIsRead
  <2>2. KernelTells(kernel, read)
    <3>1. read \o out = read
      BY <1>1, <1>4 DEF TaleFits, Over
    <3> QED
      BY <1>4, <3>1 DEF TaleFits
  <2>3. DOMAIN passed = 1 .. Len(passed) /\ DOMAIN read = 1 .. Len(read)
    BY <1>1
  <2>4. kernel.pc = "over"
    <3>1. ~ IsEvent(read[Len(read)]) /\ Len(read) \in DOMAIN read
      BY <2>1, <2>3 DEF IsEvent, Broken
    <3> QED
      BY <2>2, <3>1 DEF KernelTells, Tale, AllEvents
  <2>5. read[Len(read)] \notin RouteItems /\ read[Len(read)] \notin LoadItems
    BY <2>1 DEF RouteItems, LoadItems
  <2>6. /\ At(read, RouteItems) = routes
        /\ At(read, LoadItems) = At(passed, LoadItems)
    <3>1. PICK x \in Items : read = Append(passed, x) /\ x \notin RouteItems /\ x \notin LoadItems
      BY <2>1, <2>5
    <3> QED
      BY <1>1, <1>2, <3>1, AtAppend
  <2>7. Cardinality({i \in routes : passed[i].label = "load_skill"}) = kernel.loads
    <3>1. {i \in routes : passed[i].label = "load_skill"} = At(passed, LoadItems)
      BY <1>2 DEF At, LoadItems
    <3> QED
      BY <2>2, <2>6, <3>1 DEF KernelTells, Tale, Count
  <2>8. ASSUME kernel.failure # "raised"
        PROVE  /\ done.type = "agent_done"
               /\ \E i \in DOMAIN passed :
                    /\ LastOf(routes, i)
                    /\ (last.label = "budget_exhausted") <=> (passed[i].label = "budget_exhausted")
               /\ done.label = IF last.type = "delivery" THEN last.label
                               ELSE IF last.label = "budget_exhausted" THEN last.label ELSE "failed"
    <3>1. ~ kernel.canceled
      <4>1. kernel.canceled => \A i \in DOMAIN read : i # Len(read) => IsEvent(read[i])
        BY <2>2, <2>4 DEF KernelTells, Tale, LastTold
      <4>2. Len(read) - 1 \in DOMAIN read /\ Len(read) - 1 # Len(read) /\ ~ IsEvent(read[Len(read) - 1])
        BY <2>1, <2>3 DEF IsEvent, IsEnd
      <4> QED
        BY <4>1, <4>2
    <3>2. /\ kernel.failure # "none" \/ kernel.delivery # "none"
          /\ kernel.delivery # "none" => kernel.failure = "none"
      BY <2>2, <2>4, <2>8, <3>1 DEF KernelTells, KernelComes, Tale, LastTold
    <3>3. PICK n \in DOMAIN read : /\ n + 2 = Len(read) /\ read[n].type = "agent_done"
                                   /\ read[n].label = OutcomeOf(kernel) /\ read[n + 1] = EndFor(kernel)
      BY <2>2, <2>4, <2>8, <3>1 DEF KernelTells, Tale, LastTold
    <3>4. /\ n + 1 = Len(passed) /\ n = Len(passed) - 1 /\ n \in DOMAIN passed /\ n + 1 \in DOMAIN passed
      BY <2>1, <2>3, <3>3
    <3>5. done = read[n] /\ last = EndFor(kernel)
      BY <2>1, <3>3, <3>4
    <3> HIDE DEF done, last
    <3>6. kernel.delivery \in Deliveries \cup {"none"}
      BY KernelStateOf DEF RunInv, KernelState
    <3>7. /\ last.type = "delivery" <=> kernel.delivery # "none"
          /\ last.label = IF kernel.delivery # "none" THEN kernel.delivery ELSE kernel.failure
      BY <3>5 DEF EndFor, Item
    <3>8. last.label = "budget_exhausted" <=> kernel.failure = "budget_exhausted"
      BY <3>2, <3>6, <3>7 DEF Deliveries
    <3>9. done.label = IF last.type = "delivery" THEN last.label
                       ELSE IF last.label = "budget_exhausted" THEN last.label ELSE "failed"
      BY <3>2, <3>3, <3>5, <3>7, <3>8 DEF OutcomeOf
    <3>10. LastSays(read, kernel.failure = "budget_exhausted")
      BY <2>2, <2>4, <2>8, <3>1 DEF KernelTells, Tale
    <3>11. PICK i \in DOMAIN read : /\ LastOf(routes, i)
                                    /\ (read[i].label = "budget_exhausted") <=> kernel.failure = "budget_exhausted"
      BY <2>6, <3>10 DEF LastSays
    <3>12. i \in DOMAIN passed
      BY <1>2, <3>11 DEF LastOf, At
    <3>13. passed[i] = read[i]
      BY <2>1, <3>12
    <3> QED
      BY <3>3, <3>5, <3>8, <3>9, <3>11, <3>12, <3>13
  <2> QED
    BY <2>7, <2>8
<1> HIDE DEF last, done, passed
<1> QED
  BY <1>3, <1>4 DEF MainAgentTellsItsStory, routes, passed, last, done

-----------------------------------------------------------------------------
(* The tale of the diagnosis *)

StepItems(type) == {x \in Items : x.type = type}
Times(s, type) == Count(s, StepItems(type))

StepsTold(s, routes, checks, debates, reports, reviews, calls) ==
    /\ Times(s, "route_decided") = routes
    /\ Times(s, "conflict_checked") = checks
    /\ Times(s, "debate_round") = debates
    /\ Times(s, "report") = reports
    /\ Times(s, "reflection") = reviews
    /\ Times(s, "tool_invoked") = calls

AllTold(s) == StepsTold(s, 1, 1, 1, diag.revision + 1, diag.revision + 1, Cardinality(Calls))

\* Which agents may be at work where the graph stands
Resting == \A a \in Agents : agent[a].pc \in {"idle", "done"}
AtWork ==
    /\ diag.pc = "route" => \A a \in Agents : agent[a].pc = "idle"
    /\ diag.pc = "direct" => \A a \in Agents : a # diag.target => agent[a].pc = "idle"
    /\ diag.pc = "chain" =>
         /\ diag.todo \in Seq(Chained)
         /\ \A a \in Agents : /\ a \notin Chained => agent[a].pc = "idle"
                              /\ a \in Chained => agent[a].pc = "done" \/ \E i \in DOMAIN diag.todo : diag.todo[i] = a
    /\ diag.pc \in {"conflict_check", "debate", "report", "reflection", "complete"} => Resting

\* What the graph has told where it stands
GraphTells(s) ==
    /\ s \in Seq(Items) /\ diag.seen = Len(diag.trace)
    /\ AtWork
    /\ diag.pc # "over" => AllEvents(s)
    /\ diag.pc = "route" => StepsTold(s, 0, 0, 0, 0, 0, 0)
    /\ diag.pc \in {"direct", "chain", "parallel"} => StepsTold(s, 1, 0, 0, 0, 0, 0)
    /\ diag.pc = "conflict_check" => StepsTold(s, 1, 0, 0, 0, 0, Cardinality(Calls))
    /\ diag.pc = "debate" => StepsTold(s, 1, 1, 0, 0, 0, Cardinality(Calls))
    /\ diag.pc = "report" => StepsTold(s, 1, 1, 1, diag.revision, diag.revision, Cardinality(Calls))
    /\ diag.pc = "reflection" => StepsTold(s, 1, 1, 1, diag.revision + 1, diag.revision, Cardinality(Calls))
    /\ diag.pc = "complete" => AllTold(s)
    /\ diag.pc = "over" =>
         /\ \A i \in DOMAIN s : s[i].type = "eof" => i = Len(s)
         /\ \/ \E i \in DOMAIN s : s[i].type = "raise"
            \/ Resting /\ AllTold(s)

GraphTaleFits ==
    kind = "diagnosis" =>
        /\ stream.verdict \in {"none", "ended"} => GraphTells(read \o out)
        /\ Over => out = <<>>

\* The entries of a type
Of(entries, type) == Count(entries, {type} \X StepStatuses)

LEMMA OfJoin ==
    ASSUME NEW e \in Seq(Steps), NEW f \in Seq(Steps), NEW type
    PROVE  /\ e \o f \in Seq(Steps) /\ Of(e \o f, type) = Of(e, type) + Of(f, type)
           /\ Of(e, type) \in Nat /\ Of(f, type) \in Nat
  BY AtJoin, StepsJoin DEF Of

LEMMA OfNothing == ASSUME NEW e, e = <<>>, NEW type PROVE e \in Seq(Steps) /\ Of(e, type) = 0
<1>1. At(e, {type} \X StepStatuses) = {}
  BY DEF At
<1>2. e \in Seq(Steps)
  OBVIOUS
<1> QED
  BY <1>1, <1>2, FS_EmptySet DEF Of, Count

LEMMA OfEntry ==
    ASSUME NEW t \in StepTypes, NEW status \in StepStatuses, NEW type
    PROVE  /\ Entry(t, status) \in Seq(Steps)
           /\ Of(Entry(t, status), type) = IF type = t THEN 1 ELSE 0
<1>1. PICK x : x = <<t, status>>
  OBVIOUS
<1>2. Entry(t, status) = <<x>> /\ (x \in {type} \X StepStatuses <=> type = t)
  BY <1>1 DEF Entry
<1>3. DOMAIN <<x>> = {1} /\ <<x>>[1] = x
  BY OfOne
<1>4. At(<<x>>, {type} \X StepStatuses) = IF type = t THEN {1} ELSE {}
  BY <1>2, <1>3 DEF At
<1> QED
  BY <1>2, <1>4, EntryIsSteps, FS_Singleton, FS_EmptySet DEF Of, Count

LEMMA OfEntries ==
    ASSUME NEW n \in Nat, NEW type
    PROVE  Entries(n) \in Seq(Steps) /\ Of(Entries(n), type) = IF type = "tool_invoked" THEN n ELSE 0
<1>1. DOMAIN Entries(n) = 1 .. n /\ \A i \in 1 .. n : Entries(n)[i] = <<"tool_invoked", "">>
  BY DEF Entries
<1>2. <<"tool_invoked", "">> \in {type} \X StepStatuses <=> type = "tool_invoked"
  BY DEF StepStatuses
<1>3. At(Entries(n), {type} \X StepStatuses) = IF type = "tool_invoked" THEN 1 .. n ELSE {}
  BY <1>1, <1>2 DEF At
<1>4. Cardinality(1 .. n) = n
  BY FS_Interval
<1> QED
  BY <1>3, <1>4, EntriesAreSteps, FS_EmptySet DEF Of, Count

LEMMA OfSkipped ==
    ASSUME NEW type
    PROVE  /\ Skipped \in Seq(Steps)
           /\ Of(Skipped, type) = IF type \in {"conflict_checked", "debate_round"} THEN 1 ELSE 0
<1>1. "conflict_checked" \in StepTypes /\ "debate_round" \in StepTypes /\ "skipped" \in StepStatuses
  BY DEF StepTypes, StepStatuses
<1> QED
  BY <1>1, OfEntry, OfJoin DEF Skipped

\* What a node yields of its entries
LEMMA YieldsEntries ==
    ASSUME NEW entries \in Seq(Steps), diag.trace \in Seq(Steps), diag.seen = Len(diag.trace),
           NEW type \in StepTypes
    PROVE  Times(YieldNew(diag.trace \o entries), type) = Of(entries, type)
<1> DEFINE trace == diag.trace \o entries
           new == SubSeq(trace, diag.seen + 1, Len(trace))
<1>1. /\ Len(diag.trace) \in Nat /\ Len(entries) \in Nat /\ trace \in Seq(Steps)
      /\ Len(trace) = Len(diag.trace) + Len(entries)
      /\ \A i \in 1 .. Len(entries) : trace[Len(diag.trace) + i] = entries[i]
  OBVIOUS
<1>2. new \in Seq(Steps) /\ Len(new) = Len(entries) /\ \A i \in 1 .. Len(entries) : new[i] = trace[diag.seen + i]
  <2>1. diag.seen + 1 \in Nat \ {0} /\ diag.seen + 1 <= Len(trace) + 1
    BY <1>1
  <2> HIDE DEF trace
  <2>2. \A i \in 1 .. Len(entries) : diag.seen + 1 + i - 1 = diag.seen + i
    BY <1>1
  <2> QED
    BY <1>1, <2>1, <2>2
<1>3. \A i \in 1 .. Len(entries) : new[i] = entries[i]
  BY <1>1, <1>2
<1> HIDE DEF new
<1>4. new = entries
  BY <1>2, <1>3, SeqEqual
<1>5. YieldNew(trace) = [i \in DOMAIN entries |-> Event(entries[i][1], entries[i][2])]
  BY <1>4 DEF YieldNew, new
<1> HIDE DEF trace
<1>6. ASSUME NEW i \in DOMAIN entries
      PROVE  Event(entries[i][1], entries[i][2]) \in StepItems(type)
               <=> entries[i] \in {type} \X StepStatuses
  <2>1. PICK t \in StepTypes, status \in StepStatuses : entries[i] = <<t, status>>
    BY DEF Steps
  <2>2. status \in Labels
    BY DEF Labels
  <2>3. Event(t, status) \in Items /\ Event(t, status).type = t
    <3>1. Event(t, status) \in Items
      BY <2>2, EventIsEvent
    <3> QED
      BY <3>1 DEF Event, Item
  <2> QED
    BY <2>1, <2>3 DEF StepItems
<1>7. At(YieldNew(trace), StepItems(type)) = At(entries, {type} \X StepStatuses)
  BY <1>5, <1>6 DEF At
<1> QED
  BY <1>7 DEF Times, Of, Count, trace

\* A node tells of each of its entries once.
LEMMA ReturnTells ==
    ASSUME DiagInv, diag.seen = Len(diag.trace), NEW s \in Seq(Items), AllEvents(s),
           NEW state \in DiagnosisState, NEW entries \in Seq(Steps),
           NEW started, started = <<>> \/ \E label \in Labels : started = <<Event("agent_start", label)>>,
           Return(state, entries, started)
    PROVE  /\ s \o out' \in Seq(Items) /\ AllEvents(s \o out') /\ diag'.seen = Len(diag'.trace)
           /\ \A type \in StepTypes :
                /\ Times(s \o out', type) = Times(s, type) + Of(entries, type)
                /\ Times(s, type) \in Nat /\ Of(entries, type) \in Nat
           /\ diag'.pc = state.pc /\ diag'.target = state.target /\ diag'.todo = state.todo
           /\ diag'.revision = state.revision
<1> DEFINE trace == diag.trace \o entries
           told == YieldNew(trace)
<1>1. diag.trace \in Seq(Steps) /\ diag.seen \in Nat /\ trace \in Seq(Steps)
  BY DEF DiagInv, DiagnosisState, Steps
<1>2. diag' = [state EXCEPT !.trace = trace, !.seen = Len(trace)] /\ out' = told \o started
  BY DEF Return
<1>3. Events(told) /\ Events(started)
  <2>1. Events(told)
    BY <1>1, YieldsEvents
  <2>2. CASE started = <<>>
    BY <2>1, <2>2, EventsAlone
  <2>3. CASE \E label \in Labels : started = <<Event("agent_start", label)>>
    <3>1. PICK x : Events(<<x>>) /\ started = <<x>>
      <4>1. PICK label \in Labels : started = <<Event("agent_start", label)>>
        BY <2>3
      <4>2. PICK x : x = Event("agent_start", label)
        OBVIOUS
      <4>3. x \in Items /\ IsEvent(x)
        BY <4>2, EventIsEvent
      <4>4. Events(<<x>>)
        BY <4>3, OfOne DEF Events
      <4> QED
        BY <4>1, <4>2, <4>4
    <3> QED
      BY <2>1, <3>1
  <2> QED
    BY <2>1, <2>2, <2>3
<1>4. told \in Seq(Items) /\ started \in Seq(Items)
  BY <1>3 DEF Events
<1>5. \A type \in StepTypes : Times(told, type) = Of(entries, type)
  BY <1>1, YieldsEntries
<1>6. ASSUME NEW type \in StepTypes
      PROVE  Times(started, type) = 0
  <2>1. \A i \in DOMAIN started : started[i].type = "agent_start"
    <3>1. CASE started = <<>>
      BY <3>1
    <3>2. CASE started # <<>>
      <4>1. PICK x : started = <<x>> /\ x.type = "agent_start"
        BY <3>2 DEF Event, Item
      <4> QED
        BY <4>1, OfOne
    <3> QED
      BY <3>1, <3>2
  <2>2. At(started, StepItems(type)) = {}
    BY <2>1 DEF At, StepItems, StepTypes
  <2> QED
    BY <2>2, FS_EmptySet DEF Times, Count
<1> HIDE DEF told
<1>7. ASSUME NEW type \in StepTypes
      PROVE  /\ Times(s \o out', type) = Times(s, type) + Of(entries, type)
             /\ Times(s, type) \in Nat /\ Of(entries, type) \in Nat
  <2>1. out' \in Seq(Items)
    BY <1>2, <1>4
  <2>2. Times(s \o out', type) = Times(s, type) + Times(out', type) /\ Times(s, type) \in Nat
    BY <2>1, AtJoin DEF Times
  <2>3. Times(out', type) = Times(told, type) + Times(started, type) /\ Times(told, type) \in Nat
    BY <1>2, <1>4, AtJoin DEF Times
  <2> QED
    BY <1>5, <1>6, <2>2, <2>3
<1>8. s \o out' \in Seq(Items) /\ AllEvents(s \o out')
  <2>1. Events(s) /\ Events(out')
    BY <1>2, <1>3, EventsJoin DEF Events, AllEvents
  <2> QED
    BY <2>1, EventsJoin DEF Events, AllEvents
<1>9. /\ diag'.seen = Len(diag'.trace) /\ diag'.pc = state.pc /\ diag'.target = state.target
      /\ diag'.todo = state.todo /\ diag'.revision = state.revision
  BY <1>2 DEF DiagnosisState
<1> QED
  BY <1>7, <1>8, <1>9

-----------------------------------------------------------------------------
(* The calls of the agents *)

\* The calls of one agent; a name that is not registered has none.
CallsOf(a) == IF a \in Agents THEN {a} \X DOMAIN gateway[a] ELSE {}
Made(a) == IF a \in Agents THEN Len(gateway[a]) ELSE 0

LEMMA MadeIs ==
    ASSUME GatewayInv, NEW a
    PROVE  IsFiniteSet(CallsOf(a)) /\ Cardinality(CallsOf(a)) = Made(a) /\ Made(a) \in Nat
<1>1. CASE a \in Agents
  <2>1. DOMAIN gateway[a] = 1 .. Len(gateway[a]) /\ Len(gateway[a]) \in Nat
    BY <1>1 DEF GatewayInv, GatewayTypeOK
  <2>2. IsFiniteSet(1 .. Len(gateway[a])) /\ Cardinality(1 .. Len(gateway[a])) = Len(gateway[a])
    BY <2>1, FS_Interval
  <2>3. IsFiniteSet({a}) /\ Cardinality({a}) = 1
    BY FS_Singleton
  <2>4. /\ IsFiniteSet({a} \X (1 .. Len(gateway[a])))
        /\ Cardinality({a} \X (1 .. Len(gateway[a]))) = 1 * Len(gateway[a])
    BY <2>2, <2>3, FS_Product
  <2>5. 1 * Len(gateway[a]) = Len(gateway[a])
    BY <2>1
  <2> QED
    BY <1>1, <2>1, <2>4, <2>5 DEF CallsOf, Made
<1>2. CASE a \notin Agents
  BY <1>2, FS_EmptySet DEF CallsOf, Made
<1> QED
  BY <1>1, <1>2

\* An agent that has not begun has made no call.
LEMMA IdleMadeNone ==
    ASSUME AgentInv, NEW a \in Agents, agent[a].pc = "idle"
    PROVE  CallsOf(a) = {} /\ Made(a) = 0
<1>1. gateway[a] \in Seq(Call) /\ Len(gateway[a]) = 0
  BY AgentStateOf DEF AgentInv, AgentFits, Idle
<1>2. DOMAIN gateway[a] = {}
  BY <1>1
<1> QED
  BY <1>1, <1>2 DEF CallsOf, Made

\* The calls are those of the agents that have begun.
LEMMA CallsAreOf ==
    ASSUME AgentInv, NEW S, \A a \in Agents : a \in S \/ agent[a].pc = "idle"
    PROVE  Calls = UNION {CallsOf(a) : a \in S}
<1>1. \A a \in Agents : a \notin S => {a} \X DOMAIN gateway[a] = {}
  BY IdleMadeNone DEF CallsOf
<1>2. ASSUME NEW c \in Calls PROVE c \in UNION {CallsOf(a) : a \in S}
  <2>1. PICK a \in Agents : c \in {a} \X DOMAIN gateway[a]
    BY DEF Calls
  <2> QED
    BY <1>1, <2>1 DEF CallsOf
<1>3. ASSUME NEW a \in S, NEW c \in CallsOf(a) PROVE c \in Calls
  BY DEF CallsOf, Calls
<1> QED
  BY <1>2, <1>3

LEMMA NoCalls ==
    ASSUME AgentInv, \A a \in Agents : agent[a].pc = "idle"
    PROVE  Cardinality(Calls) = 0
<1>1. Calls = UNION {CallsOf(a) : a \in {}}
  BY CallsAreOf
<1>2. Calls = {}
  BY <1>1
<1> QED
  BY <1>2, FS_EmptySet

LEMMA CallsOfOne ==
    ASSUME AgentInv, NEW t \in Agents, \A a \in Agents : a # t => agent[a].pc = "idle"
    PROVE  Cardinality(Calls) = Len(gateway[t])
<1>1. Calls = UNION {CallsOf(a) : a \in {t}}
  BY CallsAreOf
<1>2. Calls = CallsOf(t)
  BY <1>1
<1> QED
  BY <1>2, MadeIs DEF AgentInv, Made

\* Those of the chain are those of its three agents.
LEMMA CallsOfChain ==
    ASSUME AgentInv, \A a \in Agents : a \notin Chained => agent[a].pc = "idle"
    PROVE  Cardinality(Calls) = Made("server") + Made("db") + Made("log")
<1> DEFINE S == {"server", "db", "log"}
<1>1. \A a \in Agents : a \in S \/ agent[a].pc = "idle"
  BY DEF Chained
<1>2. Calls = UNION {CallsOf(a) : a \in S}
  BY <1>1, CallsAreOf
<1>3. Calls = (CallsOf("server") \cup CallsOf("db")) \cup CallsOf("log")
  BY <1>2
<1>4. /\ CallsOf("server") \cap CallsOf("db") = {}
      /\ (CallsOf("server") \cup CallsOf("db")) \cap CallsOf("log") = {}
  BY DEF CallsOf
<1>5. GatewayInv
  BY DEF AgentInv
<1>6. \A name \in S : /\ IsFiniteSet(CallsOf(name)) /\ Cardinality(CallsOf(name)) = Made(name)
                      /\ Made(name) \in Nat
  BY <1>5, MadeIs
<1>7. /\ IsFiniteSet(CallsOf("server") \cup CallsOf("db"))
      /\ Cardinality(CallsOf("server") \cup CallsOf("db")) = Made("server") + Made("db")
  <2>1. /\ IsFiniteSet(CallsOf("server") \cup CallsOf("db"))
        /\ Cardinality(CallsOf("server") \cup CallsOf("db"))
             = Cardinality(CallsOf("server")) + Cardinality(CallsOf("db")) - Cardinality({})
    BY <1>4, <1>6, FS_Union
  <2>2. Cardinality({}) = 0
    BY FS_EmptySet
  <2> QED
    BY <1>6, <2>1, <2>2
<1>8. Cardinality(Calls) = Cardinality(CallsOf("server") \cup CallsOf("db")) + Cardinality(CallsOf("log"))
                             - Cardinality({})
  BY <1>3, <1>4, <1>6, <1>7, FS_Union
<1> QED
  BY <1>6, <1>7, <1>8, FS_EmptySet

\* Only an agent at work moves, and no other moves with it.
LEMMA AgentMoves ==
    ASSUME AgentInv, NEW a \in Agents, AgentSteps(a)
    PROVE  /\ agent[a].pc \in {"thinking", "tools"}
           /\ \A b \in Agents : b # a => agent'[b] = agent[b]
<1>1. AgentFits(a) /\ agent \in [Agents -> AgentState] /\ agent[a] \in AgentState
  BY DEF AgentInv, AgentTypeOK
<1>2. agent[a].pc \in {"thinking", "tools"}
  BY <1>1 DEF AgentSteps, Think, Raise, CallTool, StopAtLimit, TurnEnds, Answer, WaitEnds, Expire, AgentFits
<1>3. \A state : SetAgent(a, state) => \A b \in Agents : b # a => agent'[b] = agent[b]
  BY <1>1 DEF SetAgent
<1>4. UNCHANGED agent \/ \E state : SetAgent(a, state)
  BY DEF AgentSteps, Think, Raise, CallTool, StopAtLimit, TurnEnds, Conclude
<1> QED
  BY <1>2, <1>3, <1>4

\* The workers make no calls.
LEMMA WorkersCall ==
    ASSUME AgentInv, NEW a \in Agents, WorkerSteps(a)
    PROVE  UNCHANGED agent /\ Calls' = Calls
<1>1. \A b \in Agents : Len(gateway'[b]) = Len(gateway[b])
  BY GatewayStepFits DEF AgentInv, WorkerSteps, GatewaySteps
<1>2. GatewayInv' /\ GatewayInv
  BY GatewayStepFits DEF AgentInv, WorkerSteps, GatewaySteps
<1>3. \A b \in Agents : DOMAIN gateway'[b] = DOMAIN gateway[b]
  BY <1>1, <1>2 DEF GatewayInv, GatewayTypeOK
<1> QED
  BY <1>3 DEF WorkerSteps, Calls

-----------------------------------------------------------------------------
(* What each node adds to the tale *)

\* How many entries of each step there are
Adds(entries, routes, checks, debates, reports, reviews, calls) ==
    /\ entries \in Seq(Steps)
    /\ Of(entries, "route_decided") = routes
    /\ Of(entries, "conflict_checked") = checks
    /\ Of(entries, "debate_round") = debates
    /\ Of(entries, "report") = reports
    /\ Of(entries, "reflection") = reviews
    /\ Of(entries, "tool_invoked") = calls

LEMMA AddsJoin ==
    ASSUME NEW e, NEW f, NEW a, NEW b, NEW c, NEW d, NEW g, NEW h,
           NEW i, NEW j, NEW k, NEW l, NEW m, NEW n,
           Adds(e, a, b, c, d, g, h), Adds(f, i, j, k, l, m, n)
    PROVE  Adds(e \o f, a + i, b + j, c + k, d + l, g + m, h + n)
<1>1. e \in Seq(Steps) /\ f \in Seq(Steps)
  BY DEF Adds
<1>2. e \o f \in Seq(Steps) /\ \A type : Of(e \o f, type) = Of(e, type) + Of(f, type)
  BY <1>1, OfJoin
<1> QED
  BY <1>2 DEF Adds

LEMMA StepsAreSteps ==
    /\ {"route_decided", "agent_done", "tool_invoked", "conflict_checked", "debate_round",
        "report", "reflection"} \subseteq StepTypes
    /\ {"", "ok", "skipped", "attention", "failed"} \subseteq StepStatuses
  BY DEF StepTypes, StepStatuses

LEMMA EntryAdds ==
    ASSUME NEW status \in StepStatuses
    PROVE  /\ Adds(Entry("route_decided", status), 1, 0, 0, 0, 0, 0)
           /\ Adds(Entry("agent_done", status), 0, 0, 0, 0, 0, 0)
           /\ Adds(Entry("conflict_checked", status), 0, 1, 0, 0, 0, 0)
           /\ Adds(Entry("debate_round", status), 0, 0, 1, 0, 0, 0)
           /\ Adds(Entry("report", status), 0, 0, 0, 1, 0, 0)
           /\ Adds(Entry("reflection", status), 0, 0, 0, 0, 1, 0)
<1>1. \A t \in StepTypes : /\ Entry(t, status) \in Seq(Steps)
                           /\ \A type : Of(Entry(t, status), type) = IF type = t THEN 1 ELSE 0
  BY OfEntry
<1> QED
  BY <1>1, StepsAreSteps DEF Adds

LEMMA SkippedAdds == Adds(Skipped, 0, 1, 1, 0, 0, 0)
  BY OfSkipped DEF Adds

LEMMA NothingAdds == Adds(<<>>, 0, 0, 0, 0, 0, 0)
  BY OfNothing DEF Adds

LEMMA EntriesAdd == ASSUME NEW n \in Nat PROVE Adds(Entries(n), 0, 0, 0, 0, 0, n)
  BY OfEntries DEF Adds

\* What was told and the entries that are added
Extends(t, s, entries) ==
    /\ t \in Seq(Items) /\ AllEvents(t)
    /\ \A type \in StepTypes : Times(t, type) = Times(s, type) + Of(entries, type)

IsStart(started) == started = <<>> \/ \E label \in Labels : started = <<Event("agent_start", label)>>

LEMMA NoStart == IsStart(<<>>)
  BY DEF IsStart

\* A node that returns has told what it adds, and no call is made meanwhile.
LEMMA NodeTold ==
    ASSUME DiagInv, NEW s, GraphTells(s), diag.pc # "over", agent' = agent, gateway' = gateway,
           NEW state, state \in DiagnosisState, NEW entries, entries \in Seq(Steps),
           NEW started, IsStart(started), Return(state, entries, started)
    PROVE  /\ Extends(s \o out', s, entries) /\ diag'.seen = Len(diag'.trace)
           /\ diag'.pc = state.pc /\ diag'.target = state.target /\ diag'.todo = state.todo
           /\ diag'.revision = state.revision /\ Calls' = Calls
<1>1. s \in Seq(Items) /\ AllEvents(s) /\ diag.seen = Len(diag.trace)
  BY DEF GraphTells
<1>2. started = <<>> \/ \E label \in Labels : started = <<Event("agent_start", label)>>
  BY DEF IsStart
<1>3. /\ s \o out' \in Seq(Items) /\ AllEvents(s \o out') /\ diag'.seen = Len(diag'.trace)
      /\ \A type \in StepTypes : Times(s \o out', type) = Times(s, type) + Of(entries, type)
      /\ diag'.pc = state.pc /\ diag'.target = state.target /\ diag'.todo = state.todo
      /\ diag'.revision = state.revision
  BY <1>1, <1>2, ReturnTells
<1>4. Calls' = Calls
  BY DEF Calls
<1> QED
  BY <1>3, <1>4 DEF Extends

LEMMA ToldJoin ==
    ASSUME NEW s, NEW entries, NEW t, Extends(t, s, entries),
           NEW a, NEW b, NEW c, NEW d, NEW g, NEW h, StepsTold(s, a, b, c, d, g, h),
           NEW i, NEW j, NEW k, NEW l, NEW m, NEW n, Adds(entries, i, j, k, l, m, n)
    PROVE  StepsTold(t, a + i, b + j, c + k, d + l, g + m, h + n)
  BY StepsAreSteps DEF StepsTold, Adds, Extends

\* The chain asks every agent of it that is registered.
LEMMA ChainIsWhole ==
    /\ ChainOrder \in Seq(Chained)
    /\ \A a \in Chained : \E i \in DOMAIN ChainOrder : ChainOrder[i] = a
<1> DEFINE e == Registered("server", <<"server">>)
           f == Registered("db", <<"db">>)
           g == Registered("log", <<"log">>)
<1>1. /\ e \in Seq(Chained) /\ ("server" \in Agents => e # <<>> /\ e[1] = "server")
      /\ f \in Seq(Chained) /\ ("db" \in Agents => f # <<>> /\ f[1] = "db")
      /\ g \in Seq(Chained) /\ ("log" \in Agents => g # <<>> /\ g[1] = "log")
  <2>1. ASSUME NEW name \in {"server", "db", "log"}
        PROVE  /\ Registered(name, <<name>>) \in Seq(Chained)
               /\ name \in Agents => /\ Registered(name, <<name>>) # <<>>
                                     /\ Registered(name, <<name>>)[1] = name
    <3>1. CASE name \in Agents
      <4>1. name \in Chained /\ Registered(name, <<name>>) = <<name>>
        BY <3>1 DEF Registered, Chained
      <4>2. <<name>> \in Seq(Chained) /\ <<name>>[1] = name /\ <<name>> # <<>>
        BY <4>1
      <4> QED
        BY <4>1, <4>2
    <3>2. CASE name \notin Agents
      BY <3>2 DEF Registered
    <3> QED
      BY <3>1, <3>2
  <2> QED
    BY <2>1
<1> HIDE DEF e, f, g
<1> DEFINE u == e \o f
<1>2. /\ u \in Seq(Chained) /\ u \o g \in Seq(Chained)
      /\ e # <<>> => \E i \in DOMAIN u : u[i] = e[1]
      /\ f # <<>> => \E i \in DOMAIN u : u[i] = f[1]
  <2>1. u \in Seq(Chained) /\ u \o g \in Seq(Chained)
    BY <1>1
  <2>2. e # <<>> => 1 \in DOMAIN u /\ u[1] = e[1]
    BY <1>1
  <2>3. f # <<>> => Len(e) + 1 \in DOMAIN u /\ u[Len(e) + 1] = f[1]
    BY <1>1
  <2> QED
    BY <2>1, <2>2, <2>3
<1> HIDE DEF u
<1>3. /\ \A i \in DOMAIN u : i \in DOMAIN (u \o g) /\ (u \o g)[i] = u[i]
      /\ g # <<>> => Len(u) + 1 \in DOMAIN (u \o g) /\ (u \o g)[Len(u) + 1] = g[1]
  BY <1>1, <1>2
<1>4. ChainOrder = u \o g
  BY DEF ChainOrder, u, e, f, g
<1> HIDE DEF u
<1>5. \A a \in Chained : a \in Agents /\ a \in {"server", "db", "log"}
  BY DEF Chained
<1>6. \A a \in Chained : \E i \in DOMAIN (u \o g) : (u \o g)[i] = a
  BY <1>1, <1>2, <1>3, <1>5
<1> QED
  BY <1>2, <1>4, <1>6

LEMMA RouteTells ==
    ASSUME DiagInv, NEW s, GraphTells(s), Route, NEW t, t = s \o out'
    PROVE  GraphTells(t)'
<1>1. PICK p \in Strategies, target \in Targets :
        Return(RoutesOf(p, target), Entry("route_decided", ""), StartEvents(RoutesOf(p, target)))
  BY DEF Route
<1> DEFINE state == RoutesOf(p, target)
           todo == IF p = "chain" THEN ChainOrder ELSE <<>>
<1>2. /\ diag \in DiagnosisState /\ diag.pc = "route" /\ UNCHANGED <<agent, gateway>>
      /\ StepsTold(s, 0, 0, 0, 0, 0, 0) /\ \A a \in Agents : agent[a].pc = "idle"
  BY DEF Route, DiagInv, GraphTells, AtWork
<1>3. todo \in Seq(Agents) /\ p \in NodePcs
  BY ChainIsOfAgents DEF Strategies, NodePcs
<1>4. state = [diag EXCEPT !.pc = p, !.strategy = p, !.target = target, !.todo = todo]
  BY DEF RoutesOf
<1>5. p = "chain" => todo \in Seq(Chained) /\ \A a \in Chained : \E i \in DOMAIN todo : todo[i] = a
  BY ChainIsWhole
<1> HIDE DEF todo, state
<1>6. /\ state \in DiagnosisState /\ state.pc = p /\ state.todo = todo /\ state.strategy = p
  BY <1>2, <1>3, <1>4 DEF DiagnosisState
<1>7. PICK started : started = StartEvents(state)
  OBVIOUS
<1>8. IsStart(started)
  <2>1. p \in Labels
    BY DEF Labels
  <2> QED
    BY <1>6, <1>7, <2>1 DEF StartEvents, IsStart
<1>9. PICK entries : entries = Entry("route_decided", "")
  OBVIOUS
<1>10. Adds(entries, 1, 0, 0, 0, 0, 0) /\ entries \in Seq(Steps)
  BY <1>9, EntryAdds, StepsAreSteps DEF Adds
<1>11. Return(state, entries, started)
  BY <1>1, <1>7, <1>9 DEF state
<1>12. Extends(t, s, entries) /\ diag'.seen = Len(diag'.trace) /\ diag'.pc = p /\ diag'.todo = todo
  BY <1>2, <1>6, <1>8, <1>10, <1>11, NodeTold
<1>13. StepsTold(t, 0 + 1, 0 + 0, 0 + 0, 0 + 0, 0 + 0, 0 + 0)
  BY <1>2, <1>10, <1>12, ToldJoin
<1>14. AtWork'
  BY <1>2, <1>5, <1>12 DEF AtWork, Strategies, Chained
<1> QED
  BY <1>12, <1>13, <1>14 DEF GraphTells, Strategies, Extends

\* Before the report: the conclusion of the agents is told, and there is nothing to debate.
LEMMA ReportNext ==
    ASSUME DiagInv, NEW s, GraphTells(s), diag.pc \in {"direct", "chain"}, UNCHANGED <<agent, gateway>>,
           Resting, NEW state \in DiagnosisState, state.pc = "report", state.revision = diag.revision,
           NEW entries, Adds(entries, 0, 1, 1, 0, 0, Cardinality(Calls)), Return(state, entries, <<>>),
           NEW t, t = s \o out'
    PROVE  GraphTells(t)'
<1>1. StepsTold(s, 1, 0, 0, 0, 0, 0) /\ Cardinality(Calls) \in Nat /\ diag.revision = 0
  BY CallsAreFinite DEF GraphTells, DiagInv, AgentInv, ReviewFits
<1>2. entries \in Seq(Steps) /\ diag.pc # "over"
  BY DEF Adds
<1>3. /\ Extends(t, s, entries) /\ diag'.seen = Len(diag'.trace)
      /\ diag'.pc = "report" /\ diag'.revision = 0 /\ Calls' = Calls
  BY <1>1, <1>2, NodeTold, NoStart
<1>4. StepsTold(t, 1 + 0, 0 + 1, 0 + 1, 0 + 0, 0 + 0, 0 + Cardinality(Calls))
  BY <1>1, <1>3, ToldJoin
<1>5. StepsTold(t, 1, 1, 1, 0, 0, Cardinality(Calls))
  BY <1>1, <1>4
<1>6. AtWork'
  BY <1>3 DEF AtWork, Resting
<1> QED
  BY <1>3, <1>5, <1>6 DEF GraphTells, Extends

LEMMA DirectTells ==
    ASSUME DiagInv, NEW s, GraphTells(s), DirectSkipped \/ DirectEnds, NEW t, t = s \o out'
    PROVE  GraphTells(t)'
<1>1. /\ diag.pc = "direct" /\ UNCHANGED <<agent, gateway>> /\ AgentInv /\ GatewayInv
      /\ diag \in DiagnosisState /\ \A a \in Agents : a # diag.target => agent[a].pc = "idle"
  BY DEF DirectSkipped, DirectEnds, DiagInv, AgentInv, GraphTells, AtWork
<1>2. "report" \in NodePcs
  BY DEF NodePcs
<1>3. CASE DirectSkipped
  <2> DEFINE entries == Entry("agent_done", "skipped") \o Skipped
  <2>1. diag.target \notin Agents /\ Return(ToReport, entries, <<>>)
    BY <1>3 DEF DirectSkipped
  <2>2. \A a \in Agents : agent[a].pc = "idle"
    BY <1>1, <2>1
  <2>3. Resting /\ Cardinality(Calls) = 0
    BY <1>1, <2>2, NoCalls DEF Resting
  <2>4. Adds(entries, 0 + 0, 0 + 1, 0 + 1, 0 + 0, 0 + 0, 0 + 0)
    BY EntryAdds, SkippedAdds, AddsJoin, StepsAreSteps
  <2>5. ToReport \in DiagnosisState /\ ToReport.pc = "report" /\ ToReport.revision = diag.revision
    BY <1>1, <1>2 DEF ToReport, DiagnosisState
  <2> HIDE DEF entries
  <2>6. Adds(entries, 0, 1, 1, 0, 0, Cardinality(Calls))
    BY <2>3, <2>4
  <2> QED
    BY <1>1, <2>1, <2>3, <2>5, <2>6, ReportNext
<1>4. CASE DirectEnds
  <2> DEFINE target == diag.target
             entries == ToolEntries(target) \o Entry("agent_done", "ok") \o Skipped
  <2>1. PICK V \in Conclusions({target}) : Return([ToReport EXCEPT !.valid = V], entries, <<>>)
    BY <1>4 DEF DirectEnds
  <2>2. target \in Agents /\ agent[target].pc = "done" /\ V \in SUBSET Agents
    BY <1>4, <2>1, ConclusionsAreOf DEF DirectEnds
  <2>3. Resting /\ Cardinality(Calls) = Len(gateway[target]) /\ Len(gateway[target]) \in Nat
    BY <1>1, <2>2, CallsOfOne, AgentStateOf DEF Resting
  <2>4. Adds(ToolEntries(target), 0, 0, 0, 0, 0, Cardinality(Calls))
    BY <2>3, EntriesAdd DEF ToolEntries
  <2>5. Adds(ToolEntries(target) \o Entry("agent_done", "ok"), 0 + 0, 0 + 0, 0 + 0, 0 + 0, 0 + 0,
             Cardinality(Calls) + 0)
    BY <2>4, EntryAdds, AddsJoin, StepsAreSteps
  <2>6. Adds(entries, 0 + 0 + 0, 0 + 0 + 1, 0 + 0 + 1, 0 + 0 + 0, 0 + 0 + 0, Cardinality(Calls) + 0 + 0)
    BY <2>5, SkippedAdds, AddsJoin
  <2> DEFINE state == [ToReport EXCEPT !.valid = V]
  <2>7. state \in DiagnosisState /\ state.pc = "report" /\ state.revision = diag.revision
    BY <1>1, <1>2, <2>2 DEF ToReport, DiagnosisState
  <2> HIDE DEF entries
  <2>8. Adds(entries, 0, 1, 1, 0, 0, Cardinality(Calls))
    BY <2>3, <2>6
  <2>9. Return(state, entries, <<>>)
    BY <2>1
  <2> HIDE DEF state, target
  <2> QED
    BY <1>1, <2>3, <2>7, <2>8, <2>9, ReportNext
<1> QED
  BY <1>3, <1>4

LEMMA ChainTells ==
    ASSUME DiagInv, out = <<>>, NEW s, GraphTells(s), ChainGoesOn \/ ChainEnds, NEW t, t = s \o out'
    PROVE  GraphTells(t)'
<1>1. /\ diag.pc = "chain" /\ UNCHANGED <<agent, gateway>> /\ AgentInv /\ GatewayInv
      /\ diag \in DiagnosisState /\ diag.todo \in Seq(Chained) /\ s \in Seq(Items)
      /\ \A a \in Agents : /\ a \notin Chained => agent[a].pc = "idle"
                           /\ a \in Chained => agent[a].pc = "done" \/ \E i \in DOMAIN diag.todo : diag.todo[i] = a
  BY DEF ChainGoesOn, ChainEnds, DiagInv, AgentInv, GraphTells, AtWork
<1>2. CASE ChainGoesOn
  <2>1. /\ diag.todo # <<>> /\ diag' = [diag EXCEPT !.todo = Tail(@)] /\ out' = <<>>
        /\ agent[Head(diag.todo)].pc = "done"
    BY <1>2 DEF ChainGoesOn
  <2>2. t = s
    BY <1>1, <2>1
  <2>3. /\ Tail(diag.todo) \in Seq(Chained) /\ Head(diag.todo) = diag.todo[1]
        /\ \A i \in DOMAIN diag.todo : i # 1 => i - 1 \in DOMAIN Tail(diag.todo) /\ Tail(diag.todo)[i - 1] = diag.todo[i]
    BY <1>1, <2>1
  <2>4. /\ diag'.pc = "chain" /\ diag'.todo = Tail(diag.todo) /\ diag'.seen = diag.seen
        /\ diag'.trace = diag.trace
    BY <1>1, <2>1 DEF DiagnosisState
  <2>5. ASSUME NEW a \in Chained, agent[a].pc # "done"
        PROVE  \E i \in DOMAIN Tail(diag.todo) : Tail(diag.todo)[i] = a
    <3>1. PICK i \in DOMAIN diag.todo : diag.todo[i] = a
      BY <1>1, <2>5 DEF Chained
    <3>2. i # 1
      BY <2>1, <2>3, <2>5, <3>1
    <3> QED
      BY <2>3, <3>1, <3>2
  <2>6. AtWork'
    BY <1>1, <2>3, <2>4, <2>5 DEF AtWork
  <2> QED
    BY <1>1, <2>2, <2>4, <2>6 DEF GraphTells
<1>3. CASE ChainEnds
  <2> DEFINE layer(name) == Registered(name, ToolEntries(name) \o Entry("agent_done", ""))
             entries == layer("server") \o layer("db") \o layer("log") \o Skipped
  <2>1. PICK V \in Conclusions(Chained) : Return([ToReport EXCEPT !.valid = V], entries, <<>>)
    BY <1>3 DEF ChainEnds
  <2>2. V \in SUBSET Agents /\ diag.todo = <<>>
    BY <1>3, <2>1, ConclusionsAreOf DEF Chained, ChainEnds
  <2>3. Resting
    BY <1>1, <2>2 DEF Resting
  <2>4. Cardinality(Calls) = Made("server") + Made("db") + Made("log")
    BY <1>1, CallsOfChain
  <2>5. Made("server") \in Nat /\ Made("db") \in Nat /\ Made("log") \in Nat
    BY <1>1, MadeIs
  <2>6. ASSUME NEW name, Made(name) \in Nat
        PROVE  Adds(layer(name), 0, 0, 0, 0, 0, Made(name))
    <3>1. CASE name \in Agents
      <4>1. Adds(ToolEntries(name), 0, 0, 0, 0, 0, Made(name))
        BY <2>6, <3>1, EntriesAdd DEF ToolEntries, Made
      <4>2. Adds(Entry("agent_done", ""), 0, 0, 0, 0, 0, 0)
        BY EntryAdds, StepsAreSteps
      <4>3. Adds(ToolEntries(name) \o Entry("agent_done", ""), 0 + 0, 0 + 0, 0 + 0, 0 + 0, 0 + 0, Made(name) + 0)
        BY <4>1, <4>2, AddsJoin
      <4>4. layer(name) = ToolEntries(name) \o Entry("agent_done", "")
        BY <3>1 DEF Registered
      <4>5. Made(name) + 0 = Made(name) /\ 0 + 0 = 0
        BY <2>6
      <4> HIDE DEF layer
      <4> QED
        BY <4>3, <4>4, <4>5
    <3>2. CASE name \notin Agents
      <4>1. layer(name) = <<>> /\ Made(name) = 0
        BY <3>2 DEF Registered, Made
      <4> QED
        BY <4>1, NothingAdds
    <3> QED
      BY <3>1, <3>2
  <2>7. /\ Adds(layer("server"), 0, 0, 0, 0, 0, Made("server")) /\ Adds(layer("db"), 0, 0, 0, 0, 0, Made("db"))
        /\ Adds(layer("log"), 0, 0, 0, 0, 0, Made("log"))
    BY <2>5, <2>6
  <2> HIDE DEF layer
  <2>8. Adds(layer("server") \o layer("db"), 0 + 0, 0 + 0, 0 + 0, 0 + 0, 0 + 0, Made("server") + Made("db"))
    BY <2>7, AddsJoin
  <2>9. Adds(layer("server") \o layer("db") \o layer("log"), 0 + 0 + 0, 0 + 0 + 0, 0 + 0 + 0, 0 + 0 + 0,
             0 + 0 + 0, Made("server") + Made("db") + Made("log"))
    BY <2>7, <2>8, AddsJoin
  <2>10. Adds(entries, 0 + 0 + 0 + 0, 0 + 0 + 0 + 1, 0 + 0 + 0 + 1, 0 + 0 + 0 + 0, 0 + 0 + 0 + 0,
              Made("server") + Made("db") + Made("log") + 0)
    BY <2>9, SkippedAdds, AddsJoin
  <2> HIDE DEF entries
  <2>11. Adds(entries, 0, 1, 1, 0, 0, Cardinality(Calls))
    BY <2>4, <2>5, <2>10
  <2> DEFINE state == [ToReport EXCEPT !.valid = V]
  <2>12. state \in DiagnosisState /\ state.pc = "report" /\ state.revision = diag.revision
    <3>1. "report" \in NodePcs
      BY DEF NodePcs
    <3> QED
      BY <1>1, <2>2, <3>1 DEF ToReport, DiagnosisState
  <2>13. Return(state, entries, <<>>)
    BY <2>1
  <2> HIDE DEF state
  <2> QED
    BY <1>1, <2>3, <2>11, <2>12, <2>13, ReportNext
<1> QED
  BY <1>2, <1>3

LEMMA ParallelTells ==
    ASSUME DiagInv, NEW s, GraphTells(s), ParallelEnds, NEW t, t = s \o out'
    PROVE  GraphTells(t)'
<1>1. /\ diag.pc = "parallel" /\ UNCHANGED <<agent, gateway>> /\ GatewayInv /\ diag \in DiagnosisState
      /\ Resting /\ StepsTold(s, 1, 0, 0, 0, 0, 0)
  BY DEF ParallelEnds, DiagInv, AgentInv, Resting, GraphTells
<1> DEFINE entries == Entries(Cardinality(Calls)) \o Entry("agent_done", "")
<1>2. PICK V \in Conclusions(Agents) :
        Return([diag EXCEPT !.pc = "conflict_check", !.valid = V], entries, <<>>)
  BY DEF ParallelEnds
<1>3. V \in SUBSET Agents /\ "conflict_check" \in NodePcs /\ Cardinality(Calls) \in Nat
  BY <1>1, <1>2, ConclusionsAreOf, CallsAreFinite DEF NodePcs
<1> DEFINE state == [diag EXCEPT !.pc = "conflict_check", !.valid = V]
<1>4. state \in DiagnosisState /\ state.pc = "conflict_check"
  BY <1>1, <1>3 DEF DiagnosisState
<1>5. Adds(entries, 0 + 0, 0 + 0, 0 + 0, 0 + 0, 0 + 0, Cardinality(Calls) + 0)
  BY <1>3, EntriesAdd, EntryAdds, AddsJoin, StepsAreSteps
<1> HIDE DEF entries, state
<1>6. Adds(entries, 0, 0, 0, 0, 0, Cardinality(Calls))
  BY <1>3, <1>5
<1>7. Return(state, entries, <<>>) /\ entries \in Seq(Steps)
  BY <1>2, <1>6 DEF state, Adds
<1>8. /\ Extends(t, s, entries) /\ diag'.seen = Len(diag'.trace)
      /\ diag'.pc = "conflict_check" /\ Calls' = Calls
  BY <1>1, <1>4, <1>7, NodeTold, NoStart
<1>9. StepsTold(t, 1 + 0, 0 + 0, 0 + 0, 0 + 0, 0 + 0, 0 + Cardinality(Calls))
  BY <1>1, <1>6, <1>8, ToldJoin
<1>10. StepsTold(t, 1, 0, 0, 0, 0, Cardinality(Calls))
  BY <1>3, <1>9
<1>11. AtWork'
  BY <1>1, <1>8 DEF AtWork, Resting
<1> QED
  BY <1>8, <1>10, <1>11 DEF GraphTells, Extends

LEMMA ConflictTells ==
    ASSUME DiagInv, NEW s, GraphTells(s), ConflictCheck, NEW t, t = s \o out'
    PROVE  GraphTells(t)'
<1>1. /\ diag.pc = "conflict_check" /\ agent' = agent /\ gateway' = gateway /\ diag \in DiagnosisState
      /\ Resting /\ StepsTold(s, 1, 0, 0, 0, 0, Cardinality(Calls)) /\ Cardinality(Calls) \in Nat
      /\ diag.revision = 0
  BY CallsAreFinite DEF ConflictCheck, DiagInv, AgentInv, GraphTells, AtWork, ReviewFits
<1> DEFINE status(c) == IF Cardinality(diag.valid) < 2 THEN "skipped"
                        ELSE IF c THEN "attention" ELSE "ok"
           next(c) == IF c THEN "debate" ELSE "report"
           state(c) == [diag EXCEPT !.pc = next(c), !.conflict = c]
           rest(c) == IF c THEN <<>> ELSE Entry("debate_round", "skipped")
           entries(c) == Entry("conflict_checked", status(c)) \o rest(c)
<1>2. PICK c \in BOOLEAN : Return(state(c), entries(c), <<>>)
  BY DEF ConflictCheck
<1> DEFINE debates == IF c THEN 0 ELSE 1
<1>3. Adds(entries(c), 0 + 0, 1 + 0, 0 + debates, 0 + 0, 0 + 0, 0 + 0)
  <2>1. status(c) \in StepStatuses
    BY DEF StepStatuses
  <2> HIDE DEF status
  <2>2. Adds(Entry("conflict_checked", status(c)), 0, 1, 0, 0, 0, 0)
    BY <2>1, EntryAdds
  <2>3. Adds(rest(c), 0, 0, debates, 0, 0, 0)
    BY EntryAdds, NothingAdds, StepsAreSteps
  <2> HIDE DEF rest, debates
  <2> QED
    BY <2>2, <2>3, AddsJoin
<1>4. next(c) \in NodePcs
  BY DEF NodePcs
<1> HIDE DEF next, entries
<1>5. /\ state(c) \in DiagnosisState /\ state(c).pc = next(c) /\ state(c).revision = diag.revision
  BY <1>1, <1>4 DEF DiagnosisState
<1> HIDE DEF state
<1>6. entries(c) \in Seq(Steps)
  BY <1>3 DEF Adds
<1>7. /\ Extends(t, s, entries(c)) /\ diag'.seen = Len(diag'.trace)
      /\ diag'.pc = next(c) /\ diag'.revision = 0 /\ Calls' = Calls
  BY <1>1, <1>2, <1>5, <1>6, NodeTold, NoStart
<1>8. StepsTold(t, 1 + (0 + 0), 0 + (1 + 0), 0 + (0 + debates), 0 + (0 + 0), 0 + (0 + 0),
                Cardinality(Calls) + (0 + 0))
  BY <1>1, <1>3, <1>7, ToldJoin
<1>9. StepsTold(t, 1, 1, debates, 0, 0, Cardinality(Calls))
  BY <1>1, <1>8
<1>10. AtWork' /\ Resting'
  BY <1>1, <1>7 DEF AtWork, Resting, next
<1> QED
  BY <1>7, <1>9, <1>10 DEF GraphTells, Extends, next

LEMMA DebateTells ==
    ASSUME DiagInv, NEW s, GraphTells(s), Debate, NEW t, t = s \o out'
    PROVE  GraphTells(t)'
<1>1. /\ diag.pc = "debate" /\ agent' = agent /\ gateway' = gateway /\ diag \in DiagnosisState
      /\ Resting /\ StepsTold(s, 1, 1, 0, 0, 0, Cardinality(Calls)) /\ Cardinality(Calls) \in Nat
      /\ diag.revision = 0
  BY CallsAreFinite DEF Debate, DiagInv, AgentInv, GraphTells, AtWork, ReviewFits
<1>2. PICK text \in Texts :
        Return([ToReport EXCEPT !.consensus = text], Entry("debate_round", "ok"), <<>>)
  BY DEF Debate, ModelTexts, Texts
<1> DEFINE state == [ToReport EXCEPT !.consensus = text]
<1>3. PICK entries : entries = Entry("debate_round", "ok")
  OBVIOUS
<1>4. Adds(entries, 0, 0, 1, 0, 0, 0) /\ entries \in Seq(Steps)
  BY <1>3, EntryAdds, StepsAreSteps DEF Adds
<1>5. state \in DiagnosisState /\ state.pc = "report" /\ state.revision = diag.revision
  <2>1. "report" \in NodePcs
    BY DEF NodePcs
  <2> QED
    BY <1>1, <2>1 DEF ToReport, DiagnosisState
<1>6. Return(state, entries, <<>>)
  BY <1>2, <1>3
<1> HIDE DEF state
<1>7. /\ Extends(t, s, entries) /\ diag'.seen = Len(diag'.trace)
      /\ diag'.pc = "report" /\ diag'.revision = 0 /\ Calls' = Calls
  BY <1>1, <1>4, <1>5, <1>6, NodeTold, NoStart
<1>8. StepsTold(t, 1 + 0, 1 + 0, 0 + 1, 0 + 0, 0 + 0, Cardinality(Calls) + 0)
  BY <1>1, <1>4, <1>7, ToldJoin
<1>9. StepsTold(t, 1, 1, 1, 0, 0, Cardinality(Calls))
  BY <1>1, <1>8
<1>10. AtWork'
  BY <1>1, <1>7 DEF AtWork, Resting
<1> QED
  BY <1>7, <1>9, <1>10 DEF GraphTells, Extends

LEMMA WriteReportTells ==
    ASSUME DiagInv, NEW s, GraphTells(s), WriteReport, NEW t, t = s \o out'
    PROVE  GraphTells(t)'
<1>1. /\ diag.pc = "report" /\ agent' = agent /\ gateway' = gateway /\ diag \in DiagnosisState
      /\ Resting /\ StepsTold(s, 1, 1, 1, diag.revision, diag.revision, Cardinality(Calls))
      /\ Cardinality(Calls) \in Nat /\ diag.revision \in Nat
  BY CallsAreFinite DEF WriteReport, DiagInv, DiagnosisState, AgentInv, GraphTells, AtWork
<1>2. PICK text \in Texts :
        Return([diag EXCEPT !.pc = "reflection", !.draft = text], Entry("report", ""), <<>>)
  BY DEF WriteReport, ModelTexts, Texts
<1> DEFINE state == [diag EXCEPT !.pc = "reflection", !.draft = text]
<1>3. PICK entries : entries = Entry("report", "")
  OBVIOUS
<1>4. Adds(entries, 0, 0, 0, 1, 0, 0) /\ entries \in Seq(Steps)
  BY <1>3, EntryAdds, StepsAreSteps DEF Adds
<1>5. state \in DiagnosisState /\ state.pc = "reflection" /\ state.revision = diag.revision
  <2>1. "reflection" \in NodePcs
    BY DEF NodePcs
  <2> QED
    BY <1>1, <2>1 DEF DiagnosisState
<1>6. Return(state, entries, <<>>)
  BY <1>2, <1>3
<1> HIDE DEF state
<1>7. /\ Extends(t, s, entries) /\ diag'.seen = Len(diag'.trace)
      /\ diag'.pc = "reflection" /\ diag'.revision = diag.revision /\ Calls' = Calls
  BY <1>1, <1>4, <1>5, <1>6, NodeTold, NoStart
<1>8. StepsTold(t, 1 + 0, 1 + 0, 1 + 0, diag.revision + 1, diag.revision + 0, Cardinality(Calls) + 0)
  BY <1>1, <1>4, <1>7, ToldJoin
<1>9. StepsTold(t, 1, 1, 1, diag.revision + 1, diag.revision, Cardinality(Calls))
  BY <1>1, <1>8
<1>10. AtWork'
  BY <1>1, <1>7 DEF AtWork, Resting
<1> QED
  BY <1>7, <1>9, <1>10 DEF GraphTells, Extends

LEMMA ReflectTells ==
    ASSUME DiagInv, NEW s, GraphTells(s), Reflect, NEW t, t = s \o out'
    PROVE  GraphTells(t)'
<1>1. /\ diag.pc = "reflection" /\ agent' = agent /\ gateway' = gateway /\ diag \in DiagnosisState
      /\ Resting /\ StepsTold(s, 1, 1, 1, diag.revision + 1, diag.revision, Cardinality(Calls))
      /\ Cardinality(Calls) \in Nat /\ diag.revision \in Nat /\ diag.reviewed \in Nat
  BY CallsAreFinite DEF Reflect, DiagInv, DiagnosisState, AgentInv, GraphTells, AtWork
<1>2. ASSUME NEW state, state \in DiagnosisState, NEW status \in StepStatuses,
             Return(state, Entry("reflection", status), <<>>)
      PROVE  /\ Extends(t, s, Entry("reflection", status)) /\ diag'.seen = Len(diag'.trace)
             /\ diag'.pc = state.pc /\ diag'.revision = state.revision /\ Calls' = Calls
             /\ StepsTold(t, 1, 1, 1, diag.revision + 1, diag.revision + 1, Cardinality(Calls))
  <2>1. PICK entries : entries = Entry("reflection", status)
    OBVIOUS
  <2>2. Adds(entries, 0, 0, 0, 0, 1, 0) /\ entries \in Seq(Steps)
    BY <2>1, EntryAdds DEF Adds
  <2>3. /\ Extends(t, s, entries) /\ diag'.seen = Len(diag'.trace)
        /\ diag'.pc = state.pc /\ diag'.revision = state.revision /\ Calls' = Calls
    BY <1>1, <1>2, <2>1, <2>2, NodeTold, NoStart
  <2>4. StepsTold(t, 1 + 0, 1 + 0, 1 + 0, diag.revision + 1 + 0, diag.revision + 1, Cardinality(Calls) + 0)
    BY <1>1, <2>2, <2>3, ToldJoin
  <2>5. StepsTold(t, 1, 1, 1, diag.revision + 1, diag.revision + 1, Cardinality(Calls))
    BY <1>1, <2>4
  <2> QED
    BY <2>1, <2>3, <2>5
<1>3. ASSUME NEW issues \in BOOLEAN, NEW status \in StepStatuses, Finish(issues, status)
      PROVE  GraphTells(t)'
  <2> DEFINE reviewed == IF status = "skipped" THEN diag.reviewed ELSE diag.reviewed + 1
             state == [diag EXCEPT !.pc = "complete", !.final = diag.draft, !.feedback = FALSE,
                                   !.issues = issues, !.reviewed = reviewed]
  <2>1. reviewed \in Nat /\ diag.draft \in Texts /\ FALSE \in BOOLEAN /\ "complete" \in NodePcs
    BY <1>1 DEF DiagnosisState, NodePcs
  <2>2. Return(state, Entry("reflection", status), <<>>)
    BY <1>1, <1>3 DEF Finish, DiagnosisState
  <2> HIDE DEF reviewed
  <2>3. state \in DiagnosisState /\ state.pc = "complete" /\ state.revision = diag.revision
    BY <1>1, <2>1 DEF DiagnosisState
  <2> HIDE DEF state
  <2>4. /\ Extends(t, s, Entry("reflection", status)) /\ diag'.seen = Len(diag'.trace)
        /\ diag'.pc = "complete" /\ diag'.revision = diag.revision /\ Calls' = Calls
        /\ StepsTold(t, 1, 1, 1, diag.revision + 1, diag.revision + 1, Cardinality(Calls))
    BY <1>2, <2>2, <2>3
  <2>5. AtWork' /\ AllTold(t)'
    BY <1>1, <2>4 DEF AtWork, Resting, AllTold
  <2> QED
    BY <2>4, <2>5 DEF GraphTells, Extends
<1>4. CASE diag.mock /\ diag.valid = {}
  BY <1>3, <1>4 DEF Reflect, StepStatuses
<1>5. CASE ~ (diag.mock /\ diag.valid = {})
  <2>1. PICK issues \in BOOLEAN :
          IF issues /\ SentBack(diag.revision)
          THEN Return([diag EXCEPT !.pc = "report", !.feedback = TRUE, !.revision = @ + 1,
                                   !.reviewed = @ + 1], Entry("reflection", "attention"), <<>>)
          ELSE Finish(issues, IF issues THEN "failed" ELSE "ok")
    BY <1>5 DEF Reflect
  <2>2. CASE ~ (issues /\ SentBack(diag.revision))
    <3>1. PICK status \in StepStatuses : Finish(issues, status)
      BY <2>1, <2>2 DEF StepStatuses
    <3> QED
      BY <1>3, <3>1
  <2>3. CASE issues /\ SentBack(diag.revision)
    <3> DEFINE state == [diag EXCEPT !.pc = "report", !.feedback = TRUE, !.revision = @ + 1,
                                     !.reviewed = @ + 1]
    <3>1. diag.revision + 1 \in Nat /\ diag.reviewed + 1 \in Nat /\ "report" \in NodePcs /\ TRUE \in BOOLEAN
      BY <1>1 DEF NodePcs
    <3>2. state \in DiagnosisState /\ state.pc = "report" /\ state.revision = diag.revision + 1
      BY <1>1, <3>1 DEF DiagnosisState
    <3>3. Return(state, Entry("reflection", "attention"), <<>>) /\ "attention" \in StepStatuses
      BY <2>1, <2>3 DEF StepStatuses
    <3> HIDE DEF state
    <3>4. /\ Extends(t, s, Entry("reflection", "attention")) /\ diag'.seen = Len(diag'.trace)
          /\ diag'.pc = "report" /\ diag'.revision = diag.revision + 1 /\ Calls' = Calls
          /\ StepsTold(t, 1, 1, 1, diag.revision + 1, diag.revision + 1, Cardinality(Calls))
      BY <1>2, <3>2, <3>3
    <3>5. AtWork'
      BY <1>1, <3>4 DEF AtWork, Resting
    <3> QED
      BY <3>4, <3>5 DEF GraphTells, Extends
  <2> QED
    BY <2>2, <2>3
<1> QED
  BY <1>4, <1>5

\* An item that is no step of the diagnosis adds none.
LEMMA OtherTold ==
    ASSUME NEW s \in Seq(Items), NEW x \in Items, x.type \in {"result", "eof", "raise"}
    PROVE  \A type \in StepTypes : Times(Append(s, x), type) = Times(s, type)
<1>1. \A type \in StepTypes : x \notin StepItems(type)
  BY DEF StepItems, StepTypes
<1> QED
  BY <1>1, AtAppend DEF Times

LEMMA CompleteTells ==
    ASSUME DiagInv, NEW s, GraphTells(s), Complete, NEW t, t = s \o out'
    PROVE  GraphTells(t)'
<1>1. /\ diag.pc = "complete" /\ agent' = agent /\ gateway' = gateway /\ diag \in DiagnosisState
      /\ diag' = [diag EXCEPT !.pc = "over"] /\ out' = <<Event("result", diag.final), Eof>>
      /\ Resting /\ AllTold(s) /\ s \in Seq(Items) /\ AllEvents(s) /\ diag.seen = Len(diag.trace)
  BY DEF Complete, DiagInv, GraphTells, AtWork
<1>2. out' \in Seq(Items)
  BY CompleteFits DEF YieldFits
<1>3. PICK x, y : x = Event("result", diag.final) /\ y = Eof
  OBVIOUS
<1>4. x \in Items /\ y \in Items /\ x.type = "result" /\ y.type = "eof" /\ out' = <<x, y>>
  <2>1. out' = <<x, y>> /\ x.type = "result" /\ y.type = "eof"
    BY <1>1, <1>3 DEF Event, Item, Eof
  <2> QED
    BY <1>2, <2>1, OfTwo
<1> DEFINE u == Append(s, x)
           v == Append(u, y)
<1>5. t = v
  BY <1>1, <1>4, Joined
<1>6. u \in Seq(Items) /\ v \in Seq(Items)
  BY <1>1, <1>4
<1>7. \A type \in StepTypes : Times(t, type) = Times(s, type)
  <2>1. \A type \in StepTypes : Times(u, type) = Times(s, type)
    BY <1>1, <1>4, OtherTold
  <2>2. \A type \in StepTypes : Times(v, type) = Times(u, type)
    BY <1>4, <1>6, OtherTold
  <2> QED
    BY <1>5, <2>1, <2>2
<1>8. \A i \in DOMAIN s : s[i].type # "eof"
  BY <1>1 DEF AllEvents, IsEvent, Broken
<1>9. \A i \in DOMAIN u : u[i].type # "eof"
  BY <1>1, <1>4, <1>8
<1>10. \A i \in DOMAIN v : v[i].type = "eof" => i = Len(v)
  BY <1>4, <1>6, <1>9
<1> HIDE DEF u, v
<1>11. /\ diag'.pc = "over" /\ diag'.revision = diag.revision /\ diag'.seen = Len(diag'.trace)
       /\ Calls' = Calls
  BY <1>1 DEF DiagnosisState, Calls
<1>12. AtWork' /\ Resting'
  BY <1>1, <1>11 DEF AtWork, Resting
<1>13. AllTold(t)'
  BY <1>1, <1>7, <1>11, StepsAreSteps DEF AllTold, StepsTold
<1> QED
  BY <1>5, <1>6, <1>10, <1>11, <1>12, <1>13 DEF GraphTells

LEMMA FailTells ==
    ASSUME DiagInv, NEW s, GraphTells(s), diag.pc # "over", Fail, agent' = agent, gateway' = gateway,
           NEW t, t = s \o out'
    PROVE  GraphTells(t)'
<1>1. /\ diag \in DiagnosisState /\ diag' = [diag EXCEPT !.pc = "over"] /\ out' = <<Raised>>
      /\ s \in Seq(Items) /\ AllEvents(s) /\ diag.seen = Len(diag.trace)
  BY DEF Fail, DiagInv, GraphTells
<1>2. out' \in Seq(Items)
  BY FailFits DEF YieldFits
<1>3. PICK x : x = Raised
  OBVIOUS
<1>4. x \in Items /\ x.type = "raise" /\ out' = <<x>>
  <2>1. out' = <<x>> /\ x.type = "raise"
    BY <1>1, <1>3 DEF Raised, Item
  <2> QED
    BY <1>2, <2>1, OfOne
<1> DEFINE u == Append(s, x)
<1>5. t = u
  BY <1>1, <1>4, Joined
<1>6. u \in Seq(Items) /\ Len(s) + 1 \in DOMAIN u /\ u[Len(s) + 1] = x
  BY <1>1, <1>4
<1>7. \A i \in DOMAIN s : s[i].type # "eof"
  BY <1>1 DEF AllEvents, IsEvent, Broken
<1>8. \A i \in DOMAIN u : u[i].type # "eof"
  BY <1>1, <1>4, <1>7
<1> HIDE DEF u
<1>9. diag'.pc = "over" /\ diag'.seen = Len(diag'.trace)
  BY <1>1 DEF DiagnosisState
<1>10. AtWork'
  BY <1>9 DEF AtWork
<1> QED
  BY <1>4, <1>5, <1>6, <1>8, <1>9, <1>10 DEF GraphTells

\* A node that starts an agent tells of nothing.
LEMMA StartsTell ==
    ASSUME DiagInv, out = <<>>, NEW s, GraphTells(s), DirectStarts \/ ChainStarts \/ ParallelStarts,
           NEW t, t = s \o out'
    PROVE  GraphTells(t)'
<1>1. PICK a \in Agents : Start(a) /\ (diag.pc = "direct" => a = diag.target)
                                   /\ (diag.pc = "chain" => diag.todo # <<>> /\ a = Head(diag.todo))
  <2>1. ChainStarts => Head(diag.todo) \in Agents
    BY DEF ChainStarts, DiagInv, DiagnosisState
  <2> QED
    BY <2>1 DEF DirectStarts, ChainStarts, ParallelStarts
<1>2. /\ diag.pc \in {"direct", "chain", "parallel"} /\ UNCHANGED <<gateway, diag, out>>
      /\ agent \in [Agents -> AgentState] /\ s \in Seq(Items)
  BY <1>1 DEF DirectStarts, ChainStarts, ParallelStarts, Start, DiagInv, AgentInv, AgentTypeOK, GraphTells
<1>3. t = s
  <2>1. out' = <<>>
    BY <1>2
  <2> QED
    BY <1>2, <2>1
<1>4. \A b \in Agents : b # a => agent'[b] = agent[b]
  BY <1>1, <1>2 DEF Start, SetAgent
<1>5. AtWork'
  <2>1. CASE diag.pc = "direct"
    BY <1>1, <1>2, <1>4, <2>1 DEF AtWork, GraphTells
  <2>2. CASE diag.pc = "chain"
    <3>1. /\ diag.todo \in Seq(Chained) /\ diag.todo # <<>> /\ a = Head(diag.todo)
          /\ \A b \in Agents : /\ b \notin Chained => agent[b].pc = "idle"
                               /\ b \in Chained => agent[b].pc = "done" \/ \E i \in DOMAIN diag.todo : diag.todo[i] = b
      BY <1>1, <2>2 DEF AtWork, GraphTells
    <3>2. a \in Chained /\ 1 \in DOMAIN diag.todo /\ diag.todo[1] = a
      BY <3>1
    <3>3. \A b \in Agents : /\ b \notin Chained => agent'[b].pc = "idle"
                            /\ b \in Chained => agent'[b].pc = "done" \/ \E i \in DOMAIN diag.todo : diag.todo[i] = b
      BY <1>4, <3>1, <3>2
    <3> QED
      BY <1>2, <2>2, <3>1, <3>3 DEF AtWork
  <2>3. CASE diag.pc = "parallel"
    BY <1>2, <2>3 DEF AtWork
  <2> QED
    BY <1>2, <2>1, <2>2, <2>3
<1> QED
  BY <1>2, <1>3, <1>5 DEF GraphTells

LEMMA GraphNodeTells ==
    ASSUME DiagInv, out = <<>>, NEW s, GraphTells(s), GraphNode, NEW t, t = s \o out'
    PROVE  GraphTells(t)'
<1>1. CASE FactoryFails \/ AgentFails
  <2>1. diag.pc # "over" /\ Fail /\ agent' = agent /\ gateway' = gateway
    BY <1>1 DEF FactoryFails, AgentFails
  <2> QED
    BY <2>1, FailTells
<1>2. CASE Route
  BY <1>2, RouteTells
<1>3. CASE DirectSkipped \/ DirectEnds
  BY <1>3, DirectTells
<1>4. CASE ChainGoesOn \/ ChainEnds
  BY <1>4, ChainTells
<1>5. CASE ParallelEnds
  BY <1>5, ParallelTells
<1>6. CASE ConflictCheck
  BY <1>6, ConflictTells
<1>7. CASE Debate
  BY <1>7, DebateTells
<1>8. CASE WriteReport
  BY <1>8, WriteReportTells
<1>9. CASE Reflect
  BY <1>9, ReflectTells
<1>10. CASE Complete
  BY <1>10, CompleteTells
<1>11. CASE DirectStarts \/ ChainStarts \/ ParallelStarts
  BY <1>11, StartsTell
<1> QED
  BY <1>1, <1>2, <1>3, <1>4, <1>5, <1>6, <1>7, <1>8, <1>9, <1>10, <1>11 DEF GraphNode

\* While an agent is at work, the calls are not told yet.
LEMMA AgentsTell ==
    ASSUME DiagInv, NEW s, GraphTells(s), NEW a \in Agents, AgentSteps(a), UNCHANGED diag
    PROVE  GraphTells(s)'
<1>1. /\ agent[a].pc \in {"thinking", "tools"}
      /\ \A b \in Agents : b # a => agent'[b] = agent[b]
  BY AgentMoves DEF DiagInv
<1>2. AtWork /\ ~ Resting /\ ~ (\A b \in Agents : agent[b].pc = "idle")
  BY <1>1 DEF GraphTells, Resting
<1>3. diag.pc \notin {"route", "conflict_check", "debate", "report", "reflection", "complete"}
  BY <1>2 DEF AtWork
<1>4. AtWork'
  BY <1>1, <1>2, <1>3 DEF AtWork
<1> QED
  BY <1>2, <1>3, <1>4 DEF GraphTells

LEMMA WorkersTell ==
    ASSUME DiagInv, NEW s, GraphTells(s), NEW a \in Agents, WorkerSteps(a), UNCHANGED diag
    PROVE  GraphTells(s)'
<1>1. UNCHANGED agent /\ Calls' = Calls
  BY WorkersCall DEF DiagInv
<1>2. AtWork' /\ (Resting => Resting')
  BY <1>1 DEF AtWork, GraphTells, Resting
<1> QED
  BY <1>1, <1>2 DEF GraphTells, AllTold

LEMMA GraphEofIsLast ==
    ASSUME NEW s, GraphTells(s)
    PROVE  \A i \in DOMAIN s : s[i].type = "eof" => i = Len(s)
<1>1. CASE diag.pc = "over"
  BY <1>1 DEF GraphTells
<1>2. CASE diag.pc # "over"
  BY <1>2 DEF GraphTells, AllEvents, IsEvent, Broken
<1> QED
  BY <1>1, <1>2

\* The tale is that of the diagnosis, and of nothing else.
LEMMA GraphTellsStays ==
    ASSUME NEW s, GraphTells(s), UNCHANGED <<gateway, agent, diag>>
    PROVE  GraphTells(s)'
  BY DEF GraphTells, AtWork, Resting, AllTold, Calls

LEMMA GraphTaleStepFits ==
    ASSUME RunInv, GraphTaleFits, [Next]_vars
    PROVE  GraphTaleFits'
<1> SUFFICES ASSUME kind' = "diagnosis" PROVE GraphTaleFits'
  BY DEF GraphTaleFits
<1>1. DiagInv /\ GuardInv /\ read \in Seq(Items) /\ out \in Seq(Items)
  BY DEF RunInv, GuardInv
<1>2. PICK s : s = read \o out
  OBVIOUS
<1>3. ASSUME NEW t, t = read' \o out', GraphTells(t)' PROVE GraphTells(read \o out)'
  BY <1>3 DEF GraphTells
<1>4. CASE GuardReads
  <2>1. /\ kind = "diagnosis" /\ stream.verdict = "none" /\ UNCHANGED <<gateway, agent, diag>>
        /\ GraphTells(s)
    BY <1>2, <1>4 DEF GuardReads, graphVars, GraphTaleFits, Over
  <2>2. \A i \in DOMAIN (read \o out) : (read \o out)[i].type = "eof" => i = Len(read \o out)
    BY <1>2, <2>1, GraphEofIsLast
  <2>3. /\ stream'.verdict \in {"none", "ended"} => read' \o out' = read \o out
        /\ Over' => out' = <<>>
    BY <1>1, <1>4, <2>2, ReadingTells
  <2>4. GraphTells(s)'
    BY <2>1, GraphTellsStays
  <2> QED
    BY <1>2, <1>3, <2>3, <2>4 DEF GraphTaleFits
<1>5. CASE Diagnosis
  <2>1. /\ kind = "diagnosis" /\ ~ Over /\ stream.verdict = "none" /\ GraphSteps
        /\ UNCHANGED <<stream, read>> /\ GraphTells(s)
    BY <1>2, <1>5 DEF Diagnosis, GraphTaleFits, Over
  <2>2. CASE out = <<>> /\ GraphNode
    <3>1. s = read
      BY <1>1, <1>2, <2>2
    <3>2. PICK t : t = s \o out'
      OBVIOUS
    <3>3. GraphTells(t)'
      BY <1>1, <2>1, <2>2, <3>2, GraphNodeTells
    <3> QED
      BY <1>3, <2>1, <3>1, <3>2, <3>3 DEF GraphTaleFits, Over
  <2>3. CASE \E a \in Agents : AgentSteps(a) /\ UNCHANGED <<diag, out>>
    <3>1. PICK a \in Agents : AgentSteps(a) /\ UNCHANGED <<diag, out>>
      BY <2>3
    <3>2. GraphTells(s)'
      BY <1>1, <2>1, <3>1, AgentsTell
    <3> QED
      BY <1>2, <1>3, <2>1, <3>1, <3>2 DEF GraphTaleFits, Over
  <2> QED
    BY <2>1, <2>2, <2>3 DEF GraphSteps
<1>6. CASE ToolThreads
  <2>1. /\ kind = "diagnosis" /\ UNCHANGED <<stream, read>>
        /\ stream.verdict \in {"none", "ended"} => GraphTells(s)
        /\ Over => out = <<>>
    BY <1>2, <1>6 DEF ToolThreads, GraphTaleFits
  <2>2. PICK a \in Agents : WorkerSteps(a) /\ UNCHANGED <<diag, out>>
    BY <1>6 DEF ToolThreads, Workers
  <2>3. GraphTells(s) => GraphTells(s)'
    BY <1>1, <2>2, WorkersTell
  <2> QED
    BY <1>2, <1>3, <2>1, <2>2, <2>3 DEF GraphTaleFits, Over
<1>7. CASE UNCHANGED vars
  <2>1. /\ UNCHANGED <<kind, out, stream, read>> /\ UNCHANGED <<gateway, agent, diag>>
    BY <1>7 DEF vars, graphVars
  <2>2. GraphTells(s) => GraphTells(s)'
    BY <2>1, GraphTellsStays
  <2> QED
    BY <1>2, <1>3, <2>1, <2>2 DEF GraphTaleFits, Over
<1>8. CASE MainAgent \/ MainAgentWaits \/ Other
  BY <1>8 DEF MainAgent, MainAgentWaits, Other
<1> QED
  BY <1>4, <1>5, <1>6, <1>7, <1>8 DEF Next

LEMMA GraphTaleInitFits == Init => GraphTaleFits
<1> SUFFICES ASSUME Init PROVE GraphTaleFits
  OBVIOUS
<1>1. read = <<>> /\ out = <<>> /\ stream.verdict = "none" /\ AgentInit
  BY DEF Init, GraphInit
<1>2. PICK mock \in BOOLEAN : diag = NewDiagnosis(mock)
  BY DEF Init, GraphInit
<1>3. diag.pc = "route" /\ diag.seen = 0 /\ diag.trace = <<>>
  BY <1>2 DEF NewDiagnosis
<1>4. \A a \in Agents : agent[a].pc = "idle"
  BY <1>1 DEF AgentInit, Idle
<1>5. PICK s : s = read \o out
  OBVIOUS
<1>6. s = <<>>
  BY <1>1, <1>5
<1>7. s \in Seq(Items) /\ AllEvents(s)
  BY <1>6, NothingTells
<1>8. \A type : Times(s, type) = 0
  <2>1. \A type : At(s, StepItems(type)) = {}
    BY <1>6 DEF At
  <2> QED
    BY <2>1, FS_EmptySet DEF Times, Count
<1>9. StepsTold(s, 0, 0, 0, 0, 0, 0) /\ AtWork
  BY <1>3, <1>4, <1>8 DEF StepsTold, AtWork
<1>10. diag.seen = Len(diag.trace)
  BY <1>3
<1>11. GraphTells(s)
  BY <1>3, <1>7, <1>9, <1>10 DEF GraphTells
<1>12. ~ Over
  BY <1>1 DEF Over
<1> QED
  BY <1>5, <1>11, <1>12 DEF GraphTaleFits

\* When a diagnosis has ended, each of its steps was passed on once.
LEMMA DiagnosisStoryOf == RunInv /\ GraphTaleFits => DiagnosisTellsItsStory
<1> SUFFICES ASSUME RunInv, GraphTaleFits, DiagnosisDone
             PROVE  DiagnosisTellsItsStory
  BY DEF DiagnosisTellsItsStory
<1> DEFINE passed == stream.passed
<1>1. kind = "diagnosis" /\ stream.verdict = "ended" /\ diag.pc = "over"
  BY DEF DiagnosisDone, RunInv, EndFits, EndUnderWay
<1>2. /\ read \in Seq(Items) /\ passed \in Seq(Items) /\ Len(read) = Len(passed) + 1
      /\ Len(passed) \in Nat /\ Len(passed) > 0
      /\ read = Append(passed, read[Len(read)])
      /\ read[Len(read)].type = "eof" /\ read[Len(read)] \in Items
      /\ IsEnd(read[Len(read) - 1]) /\ \A i \in 1 .. Len(read) - 2 : IsEvent(read[i])
  BY <1>1, EndedIsRead
<1>3. GraphTells(read)
  <2>1. read \o out = read
    BY <1>1, <1>2 DEF GraphTaleFits, Over
  <2> QED
    BY <1>1, <2>1 DEF GraphTaleFits
<1>4. \A i \in DOMAIN read : read[i].type # "raise"
  <2>1. ASSUME NEW i \in DOMAIN read PROVE i \in 1 .. Len(read) - 2 \/ i = Len(read) - 1 \/ i = Len(read)
    BY <1>2
  <2> QED
    BY <1>2, <2>1 DEF IsEvent, IsEnd, Ends, Broken
<1>5. AllTold(read)
  BY <1>1, <1>3, <1>4 DEF GraphTells
<1>6. PICK x \in Items : read = Append(passed, x) /\ x.type = "eof"
  BY <1>2
<1>7. \A type \in StepTypes : Times(read, type) = Times(passed, type)
  BY <1>2, <1>6, OtherTold
<1>8. \A type \in StepTypes : Times(passed, type) = Happened(type)
  <2>1. \A type : OfType(type) = At(passed, StepItems(type))
    BY <1>2 DEF OfType, At, StepItems
  <2> QED
    BY <2>1 DEF Times, Count, Happened
<1>9. /\ Happened("route_decided") = 1 /\ Happened("conflict_checked") = 1
      /\ Happened("debate_round") = 1 /\ Happened("report") = diag.revision + 1
      /\ Happened("reflection") = diag.revision + 1 /\ Happened("tool_invoked") = Cardinality(Calls)
  BY <1>5, <1>7, <1>8, StepsAreSteps DEF AllTold, StepsTold
<1> QED
  BY <1>9 DEF DiagnosisTellsItsStory

\* main_agent_react.py and coordinator.py: what the two executors tell of a Run and deliver at
\* its end is what they did, each step of it once, and the report of a diagnosis was reviewed.
THEOREM ExecutorsAlwaysTellTheStory == Spec => []ExecutorsTellTheStory
<1>1. Init => TaleFits /\ GraphTaleFits
  BY TaleInitFits, GraphTaleInitFits
<1>2. RunInv /\ (TaleFits /\ GraphTaleFits) /\ [Next]_vars => (TaleFits /\ GraphTaleFits)'
  BY TaleStepFits, GraphTaleStepFits
<1>3. RunInv => DeliveriesPassValidation /\ FinalReportWasReviewed
  BY BudgetsOf DEF RunInv, EndFits, EndUnderWay, ReportFits, FinalReportWasReviewed, DiagnosisDone
<1>4. RunInv /\ TaleFits /\ GraphTaleFits => ExecutorsTellTheStory
  BY <1>3, StoryOf, DiagnosisStoryOf DEF ExecutorsTellTheStory
<1> QED
  BY <1>1, <1>2, <1>4, RunInvHolds, PTL DEF Spec
=============================================================================

---------------------------- MODULE RunExecution ----------------------------
(***************************************************************************)
(* One executing Run: guard_run_stream of application/runtime_safety.py    *)
(* reads an executor and passes on events, then exactly one end.           *)
(*                                                                         *)
(* The executor is the main agent (MainAgentKernel), the diagnosis         *)
(* (DiagnosisGraph with its agents and their gateways), or any other that  *)
(* keeps to nothing.  It is a generator: it rests while an item is read.   *)
(***************************************************************************)
EXTENDS DiagnosisGraph, MainAgentKernel

CONSTANT MaxItems    \* bound of what any other executor yields

ASSUME ExecutionAssumption == MaxItems \in Nat

VARIABLES
    kind,        \* which executor the Run has
    stream,      \* what the guard has passed on, the end it holds back, and its verdict
    read         \* history: every item the guard has read

graphVars == <<gateway, agent, diag>>
mainVars == <<kernel, material, now, cancel>>
vars == <<kind, graphVars, mainVars, out, stream, read>>

-----------------------------------------------------------------------------
(* The guard *)

Ends == {"result", "delivery", "failure"}
Broken == {"eof", "raise", "unknown"}
NoItem == Item("none", "", 0)

IsEnd(item) == item.type \in Ends
IsEvent(item) == item.type \notin Ends \cup Broken

Failure(code) == Item("failure", code, 0)

\* The code of an exception is kept only when no end was held back.
FailureOf(item, held) == IF held = NoItem /\ item.label # "" THEN item.label ELSE "default"

Pass(item) == [stream EXCEPT !.passed = Append(@, item)]
End(item, verdict) ==
    [stream EXCEPT !.passed = Append(@, item), !.held = NoItem, !.verdict = verdict]

\* Mutant: an end is passed on as soon as it is read.
GuardAtOnce(item) ==
    IF IsEvent(item) THEN Pass(item)
    ELSE IF IsEnd(item) THEN End(item, "ended")
    ELSE End(Failure("default"), "protocol")

\* Mutant: what follows an end is dropped and the end kept.
GuardKeepsEnd(item) ==
    IF item.type = "eof" /\ stream.held # NoItem THEN End(stream.held, "ended")
    ELSE IF item.type = "raise" THEN End(Failure(FailureOf(item, stream.held)), "raised")
    ELSE IF stream.held # NoItem THEN stream
    ELSE IF IsEnd(item) THEN [stream EXCEPT !.held = item]
    ELSE IF IsEvent(item) THEN Pass(item)
    ELSE End(Failure("default"), "protocol")

\* _guard_finite_stream, for one item: only the end of the stream releases the
\* end that is held, and whatever else follows it breaks the protocol.
Guard(item) ==
    IF item.type = "eof" /\ stream.held # NoItem THEN End(stream.held, "ended")
    ELSE IF item.type = "raise" THEN End(Failure(FailureOf(item, stream.held)), "raised")
    ELSE IF stream.held = NoItem /\ IsEnd(item) THEN [stream EXCEPT !.held = item]
    ELSE IF stream.held = NoItem /\ IsEvent(item) THEN Pass(item)
    ELSE End(Failure("default"), "protocol")

Over == stream.verdict # "none"

\* A verdict closes the stream: nothing more is read of the executor.
GuardReads ==
    /\ ~Over /\ out # <<>>
    /\ stream' = Guard(Head(out))
    /\ read' = Append(read, Head(out))
    /\ out' = IF stream'.verdict = "none" THEN Tail(out) ELSE <<>>
    /\ UNCHANGED <<kind, graphVars, mainVars>>

-----------------------------------------------------------------------------
(* The executors *)

Kinds == {"main_agent", "diagnosis", "other"}

Init ==
    /\ kind \in Kinds
    /\ GraphInit
    /\ KernelInit
    /\ out = <<>>
    /\ stream = [passed |-> <<>>, held |-> NoItem, verdict |-> "none"]
    /\ read = <<>>
    \* What the other executors start from is of no matter.
    /\ kind # "diagnosis" => diag.mock
    /\ kind # "main_agent" => material = {}

MainAgent ==
    /\ kind = "main_agent" /\ ~Over
    /\ KernelNode
    /\ UNCHANGED <<kind, graphVars, stream, read>>

MainAgentWaits ==
    /\ kind = "main_agent" /\ ~Over
    /\ Cancel \/ Tick
    /\ UNCHANGED <<kind, graphVars, stream, read>>

Diagnosis ==
    /\ kind = "diagnosis" /\ ~Over
    /\ GraphSteps
    /\ UNCHANGED <<kind, mainVars, stream, read>>

\* Tools that outlived their wait go on, after the end of the Run as well.
ToolThreads ==
    /\ kind = "diagnosis"
    /\ Workers
    /\ UNCHANGED <<kind, mainVars, stream, read>>

\* An executor that yields what it likes, when it likes.
OtherItems == {Item("agent_start", "", 0), Item("delivery", "answer", 0), Item("failure", "raised", 0),
               Item("unknown", "", 0), Item("raise", "coded", 0), Item("raise", "", 0), Eof}

Other ==
    /\ kind = "other" /\ ~Over /\ out = <<>>
    /\ \E item \in OtherItems :
         /\ item.type \notin {"eof", "raise"} => Len(stream.passed) < MaxItems
         /\ out' = <<item>>
    /\ UNCHANGED <<kind, graphVars, mainVars, stream, read>>

Next == GuardReads \/ MainAgent \/ MainAgentWaits \/ Diagnosis \/ ToolThreads \/ Other

Spec == Init /\ [][Next]_vars

\* The Run's task reads its executor to the end.  A call of the model comes
\* back within the timeout it was given, and a wait for a tool ends; of the
\* threads that run the tools nothing is assumed.
FairSpec ==
    /\ Spec
    /\ WF_vars(GuardReads) /\ WF_vars(MainAgent) /\ WF_vars(Diagnosis)

-----------------------------------------------------------------------------
(* Properties *)

Labels == {"", "default", "coded", "MAIN_AGENT_RULE_UNAVAILABLE"} \cup StepStatuses \cup Strategies
            \cup Texts \cup RouteLabels \cup ToolFailures \cup Deliveries
            \cup Failures
Items == [type : StepTypes \cup {"agent_start", "none"} \cup Ends \cup Broken, label : Labels,
          step : Nat]

\* The type invariant.
TypeOK ==
    /\ kind \in Kinds
    /\ GatewayTypeOK /\ AgentTypeOK /\ diag \in DiagnosisState
    /\ KernelTypeOK
    /\ out \in Seq(Items) /\ read \in Seq(Items)
    /\ stream \in [passed : Seq(Items), held : Items, verdict : {"none", "ended", "raised", "protocol"}]

\* The events that have been passed on: all but the one end
Told == IF Over THEN Len(stream.passed) - 1 ELSE Len(stream.passed)

\* An executor that ends as it should: events, one end, and nothing more
Kept(r) == r # <<>> /\ r[Len(r)].type = "eof" /\ Len(r) > 1 /\ IsEnd(r[Len(r) - 1])
             /\ \A i \in 1 .. Len(r) - 2 : IsEvent(r[i])

\* guard_run_stream: whatever an executor yields and whenever it raises, the
\* service is told the events before the first item that is none, in their
\* order, then exactly one end; and that end is the executor's own only if the
\* executor stopped right after it.
OneEndLast ==
    /\ \A i \in DOMAIN stream.passed : IsEnd(stream.passed[i]) => Over /\ i = Len(stream.passed)
    /\ Over => /\ stream.passed # <<>> /\ IsEnd(stream.passed[Len(stream.passed)])
               /\ (stream.verdict = "ended") <=> Kept(read)
               /\ stream.verdict = "ended" => stream.passed = SubSeq(read, 1, Len(read) - 1)
    /\ Told <= Len(read) /\ \A i \in 1 .. Told : IsEvent(read[i]) /\ stream.passed[i] = read[i]
    /\ Told < Len(read) => ~ IsEvent(read[Told + 1])

\* The stream the service consumes is well formed whatever is behind it.
StreamIsGuarded == TypeOK /\ OneEndLast

\* No executor waits or calls beyond its budget, at any depth.
BudgetsHold == WaitsFitTheDeadline /\ CallsStayInTheLimit

OfType(type) == {i \in DOMAIN stream.passed : stream.passed[i].type = type}
Happened(type) == Cardinality(OfType(type))
LastOf(S, i) == i \in S /\ \A j \in S : j <= i

\* The events of a main agent Run and its end tell one story: its decisions are
\* numbered as they were made, the loads that are told are those that were
\* made, and agent_done, the last event, has the label of the end.
MainAgentTellsItsStory ==
    LET routes == OfType("route_decided")
        passed == stream.passed
        last == passed[Len(passed)]
        done == passed[Len(passed) - 1]
    IN kind = "main_agent" =>
        /\ \A i \in routes :
             \/ passed[i].step = Cardinality({j \in routes : j <= i})
             \/ LastOf(routes, i) /\ passed[i].step = MaxDecisions
        /\ stream.verdict = "ended" =>
             Cardinality({i \in routes : passed[i].label = "load_skill"}) = kernel.loads
        /\ stream.verdict = "ended" /\ kernel.failure # "raised" =>
             /\ done.type = "agent_done"
             /\ \E i \in DOMAIN passed :
                  /\ LastOf(routes, i)
                  /\ (last.label = "budget_exhausted") <=> (passed[i].label = "budget_exhausted")
             /\ done.label = IF last.type = "delivery" THEN last.label
                             ELSE IF last.label = "budget_exhausted" THEN last.label ELSE "failed"

DiagnosisDone == kind = "diagnosis" /\ stream.verdict = "ended"

\* coordinator.py route_stream: though every node hands on the whole trace,
\* each step of the diagnosis is told once: one route, one check for a conflict,
\* one debate, a report and a review of each draft, and every call of a tool.
DiagnosisTellsItsStory ==
    DiagnosisDone =>
        /\ \A type \in {"route_decided", "conflict_checked", "debate_round"} : Happened(type) = 1
        /\ Happened("report") = diag.revision + 1 /\ Happened("reflection") = diag.revision + 1
        /\ Happened("tool_invoked") = Cardinality(Calls)

\* graph.py reflection: the report that is returned is the last draft, its
\* review was made after it was written, and it is clean unless the revisions
\* are used up.
FinalReportWasReviewed ==
    DiagnosisDone =>
        /\ diag.revision <= MaxRevision
        /\ diag.final = diag.draft
        /\ \/ diag.reviewed = diag.revision + 1
           \/ diag.mock /\ diag.valid = {} /\ diag.revision = 0
        /\ diag.issues => diag.revision = MaxRevision

\* What the two executors tell of a Run and deliver at its end is what they did,
\* and the report of a diagnosis is one that was reviewed.
ExecutorsTellTheStory ==
    /\ MainAgentTellsItsStory
    /\ DiagnosisTellsItsStory
    /\ DeliveriesPassValidation
    /\ FinalReportWasReviewed

\* tool_gateway.py: nothing a tool does after its wait was over changes what
\* was reported of the call.
LateAnswersStayClosed == [][\A a \in Agents : LateAnswersAreClosed(a)]_gateway

\* What is reported of a call is true when it is reported and stays so.
CallsAreHonest == []ClosedCallsAreHonest /\ LateAnswersStayClosed

\* Every Run of the two executors gets its end, though a tool never returns.
EveryRunGetsItsEnd == kind # "other" => <>Over
=============================================================================

--------------------------- MODULE DiagnosisGraph ---------------------------
(***************************************************************************)
(* The diagnosis of one question: the graph of core/graph.py, driven by    *)
(* route_stream of core/coordinator.py, read by coordinator_executor.py.   *)
(*                                                                         *)
(* route chooses one agent, a chain of them or all at once; several        *)
(* conclusions are checked for a conflict and debated; a report is         *)
(* written, reviewed and sent back MaxRevision times at most.  Each node   *)
(* returns the whole trace, of which the coordinator yields what is new.   *)
(***************************************************************************)
EXTENDS DomainAgent, SequencesExt, ExecutorItems

CONSTANT MaxRevision    \* MAX_REVISION

ASSUME RevisionAssumption == MaxRevision \in Nat

VARIABLE diag    \* the DiagnosisState and the node that is next

-----------------------------------------------------------------------------
(* What is yielded *)

Event(type, label) == Item(type, label, 0)
Raised == Item("raise", "", 0)

-----------------------------------------------------------------------------
(* State *)

\* The chain asks server, db and log, as far as they are registered.
Registered(name, found) == IF name \in Agents THEN found ELSE <<>>
Chained == {"server", "db", "log"} \cap Agents
ChainOrder == Registered("server", <<"server">>) \o Registered("db", <<"db">>)
                \o Registered("log", <<"log">>)

Strategies == {"direct", "chain", "parallel"}
\* Targets: a registered agent, no domain at all, a name nobody registered.
Targets == Agents \cup {"none", "unknown"}
Texts == {"none", "draft", "revised", "llm_error"}
NodePcs == {"route", "direct", "chain", "parallel", "conflict_check", "debate", "report",
            "reflection", "complete", "failed", "over"}

\* What the trace says of a node or a tool, and with which status.
StepTypes == {"route_decided", "agent_done", "tool_invoked", "conflict_checked", "debate_round",
              "report", "reflection"}
StepStatuses == {"", "ok", "skipped", "attention", "failed"}

DiagnosisState ==
    [mock : BOOLEAN, pc : NodePcs, strategy : Strategies \cup {"none"}, target : Targets,
     todo : Seq(Agents), valid : SUBSET Agents, conflict : BOOLEAN,
     consensus : Texts, feedback : BOOLEAN, revision : Nat, draft : Texts, reviewed : Nat,
     issues : BOOLEAN, final : Texts, trace : Seq(StepTypes \X StepStatuses), seen : Nat]

NewDiagnosis(mock) ==
    [mock |-> mock, pc |-> "route", strategy |-> "none", target |-> "none", todo |-> <<>>,
     valid |-> {}, conflict |-> FALSE, consensus |-> "none", feedback |-> FALSE,
     revision |-> 0, draft |-> "none", reviewed |-> 0, issues |-> FALSE, final |-> "none",
     trace |-> <<>>, seen |-> 0]

GraphInit == AgentInit /\ \E mock \in BOOLEAN : diag = NewDiagnosis(mock)

-----------------------------------------------------------------------------
(* Nodes: each returns its update and the trace with its own entries *)

\* Mutant: every update yields the whole trace.
YieldAll(trace) == [i \in DOMAIN trace |-> Event(trace[i][1], trace[i][2])]

\* route_stream: the entries beyond those already yielded.
YieldNew(trace) ==
    LET new == SubSeq(trace, diag.seen + 1, Len(trace))
    IN [i \in DOMAIN new |-> Event(new[i][1], new[i][2])]

Entry(type, status) == <<<<type, status>>>>
Entries(n) == [i \in 1 .. n |-> <<"tool_invoked", "">>]

\* _create_start_events, after the update of route.
StartEvents(state) ==
    IF state.strategy = "direct" /\ state.target \notin Agents THEN <<>>
    ELSE <<Event("agent_start", state.strategy)>>

Return(state, entries, started) ==
    LET trace == diag.trace \o entries
    IN /\ diag' = [state EXCEPT !.trace = trace, !.seen = Len(trace)]
       /\ out' = YieldNew(trace) \o started

\* An exception of a node: the stream ends with one error item, which the
\* executor raises.
Fail ==
    /\ diag' = [diag EXCEPT !.pc = "over"]
    /\ out' = <<Raised>>

\* The coordinator's factory fails before the stream begins.
FactoryFails ==
    /\ diag.pc = "route"
    /\ Fail
    /\ UNCHANGED <<agent, gateway>>

\* route_node: a health query of a bound service, the model, or the keywords.
RoutesOf(strategy, target) ==
    [diag EXCEPT !.pc = strategy, !.strategy = strategy, !.target = target,
                 !.todo = IF strategy = "chain" THEN ChainOrder ELSE <<>>]

Route ==
    /\ diag.pc = "route"
    /\ \E s \in Strategies, t \in Targets :
         /\ ~diag.mock => t # "none"
         /\ LET state == RoutesOf(s, t)
            IN Return(state, Entry("route_decided", ""), StartEvents(state))
    /\ UNCHANGED <<agent, gateway>>

Ended(a) == agent[a].pc \in {"done", "raised"}

\* The agents whose conclusion counts: in mock mode those with evidence of a
\* tool, in real mode any text without a marker, that of a failed run included.
Conclusions(S) ==
    LET answered == {a \in S : agent[a].outcome = "answer"}
    IN {V \cup (IF diag.mock THEN {} ELSE S \ answered) : V \in SUBSET answered}

\* A health query, which only route sends to db directly, has one call.
Limits == IF diag.strategy = "direct" /\ diag.target = "db" THEN {1, Unlimited} ELSE {Unlimited}

Start(a) ==
    /\ agent[a].pc = "idle"
    /\ \E limit \in Limits : SetAgent(a, Started(limit))
    /\ UNCHANGED <<gateway, diag, out>>

Skipped == Entry("conflict_checked", "skipped") \o Entry("debate_round", "skipped")
ToolEntries(a) == Entries(Len(gateway[a]))
ToReport == [diag EXCEPT !.pc = "report"]

\* direct_node without an agent, and with one.
DirectSkipped ==
    /\ diag.pc = "direct" /\ diag.target \notin Agents
    /\ Return(ToReport, Entry("agent_done", "skipped") \o Skipped, <<>>)
    /\ UNCHANGED <<agent, gateway>>

DirectStarts == diag.pc = "direct" /\ diag.target \in Agents /\ Start(diag.target)

DirectEnds ==
    /\ diag.pc = "direct" /\ diag.target \in Agents
    /\ agent[diag.target].pc = "done"
    /\ \E V \in Conclusions({diag.target}) :
         Return([ToReport EXCEPT !.valid = V],
                ToolEntries(diag.target) \o Entry("agent_done", "ok") \o Skipped, <<>>)
    /\ UNCHANGED <<agent, gateway>>

\* chain_node: one agent after the other, each with what those before it said.
ChainStarts == diag.pc = "chain" /\ diag.todo # <<>> /\ Start(Head(diag.todo))

ChainGoesOn ==
    /\ diag.pc = "chain" /\ diag.todo # <<>>
    /\ agent[Head(diag.todo)].pc = "done"
    /\ diag' = [diag EXCEPT !.todo = Tail(@)]
    /\ UNCHANGED <<agent, gateway, out>>

ChainEnds ==
    LET layer(name) == Registered(name, ToolEntries(name) \o Entry("agent_done", ""))
    IN /\ diag.pc = "chain" /\ diag.todo = <<>>
       /\ \E V \in Conclusions(Chained) :
            Return([ToReport EXCEPT !.valid = V],
                   layer("server") \o layer("db") \o layer("log") \o Skipped, <<>>)
       /\ UNCHANGED <<agent, gateway>>

\* parallel_node: every agent in a thread of its own; the node waits for all.
ParallelStarts == diag.pc = "parallel" /\ \E a \in Agents : Start(a)

ParallelEnds ==
    /\ diag.pc = "parallel" /\ \A a \in Agents : agent[a].pc = "done"
    /\ \E V \in Conclusions(Agents) :
         Return([diag EXCEPT !.pc = "conflict_check", !.valid = V],
                Entries(Cardinality(Calls))
                  \o Entry("agent_done", ""), <<>>)
    /\ UNCHANGED <<agent, gateway>>

\* The exception of an agent leaves its node; parallel_node first joins the others.
AgentFails ==
    /\ diag.pc \in {"direct", "chain", "parallel"}
    /\ \E a \in Agents : agent[a].pc = "raised"
    /\ \A a \in Agents : agent[a].pc \in {"idle", "done", "raised"}
    /\ diag.pc = "parallel" => \A a \in Agents : Ended(a)
    /\ Fail
    /\ UNCHANGED <<agent, gateway>>

ConflictCheck ==
    /\ diag.pc = "conflict_check"
    /\ \E conflict \in IF Cardinality(diag.valid) < 2 THEN {FALSE} ELSE BOOLEAN :
         Return([diag EXCEPT !.pc = IF conflict THEN "debate" ELSE "report", !.conflict = conflict],
                Entry("conflict_checked", IF Cardinality(diag.valid) < 2 THEN "skipped"
                                          ELSE IF conflict THEN "attention" ELSE "ok")
                  \o IF conflict THEN <<>> ELSE Entry("debate_round", "skipped"), <<>>)
    /\ UNCHANGED <<agent, gateway>>

\* What a call of the model puts in place of the text that was asked for: its
\* answer, or the fixed text of its failure.
ModelTexts(text) == IF diag.mock THEN {text} ELSE {text, "llm_error"}

Debate ==
    /\ diag.pc = "debate"
    /\ \E text \in ModelTexts("draft") :
         Return([ToReport EXCEPT !.consensus = text], Entry("debate_round", "ok"), <<>>)
    /\ UNCHANGED <<agent, gateway>>

\* report_node: a first draft, or the draft as the feedback wants it.
WriteReport ==
    /\ diag.pc = "report"
    /\ \E text \in IF diag.feedback THEN ModelTexts("revised") ELSE {"draft"} :
         Return([diag EXCEPT !.pc = "reflection", !.draft = text], Entry("report", ""), <<>>)
    /\ UNCHANGED <<agent, gateway>>

\* Mutant: the last revision is sent back once more.
SentBackBelow(revision) == revision <= MaxRevision

\* revision >= MAX_REVISION keeps the draft whatever the review says.
SentBack(revision) == revision < MaxRevision

Finish(issues, status) ==
    Return([diag EXCEPT !.pc = "complete", !.final = diag.draft, !.feedback = FALSE,
                        !.issues = issues, !.reviewed = IF status = "skipped" THEN @ ELSE @ + 1],
           Entry("reflection", status), <<>>)

Reflect ==
    /\ diag.pc = "reflection"
    /\ IF diag.mock /\ diag.valid = {}
       THEN Finish(FALSE, "skipped")
       ELSE \E issues \in BOOLEAN :
              IF issues /\ SentBack(diag.revision)
              THEN Return([diag EXCEPT !.pc = "report", !.feedback = TRUE, !.revision = @ + 1,
                                       !.reviewed = @ + 1],
                          Entry("reflection", "attention"), <<>>)
              ELSE Finish(issues, IF issues THEN "failed" ELSE "ok")
    /\ UNCHANGED <<agent, gateway>>

\* route_stream ends with one complete item: the executor's result.
Complete ==
    /\ diag.pc = "complete"
    /\ diag' = [diag EXCEPT !.pc = "over"]
    /\ out' = <<Event("result", diag.final), Eof>>
    /\ UNCHANGED <<agent, gateway>>

-----------------------------------------------------------------------------
(* The graph is a generator: it goes on when what it yielded has been read. *)

GraphNode ==
    \/ FactoryFails \/ Route \/ DirectSkipped \/ DirectStarts \/ DirectEnds
    \/ ChainStarts \/ ChainGoesOn \/ ChainEnds \/ ParallelStarts \/ ParallelEnds \/ AgentFails
    \/ ConflictCheck \/ Debate \/ WriteReport \/ Reflect \/ Complete

GraphSteps ==
    \/ out = <<>> /\ GraphNode
    \/ \E a \in Agents : AgentSteps(a) /\ UNCHANGED <<diag, out>>

Workers == \E a \in Agents : WorkerSteps(a) /\ UNCHANGED <<diag, out>>
=============================================================================

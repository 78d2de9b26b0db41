# OperMind: a TLA+ verification project

OperMind is an operations assistant.  A person asks a question in a *session*;
the backend accepts the question as a *Run*, executes it in a background task
(a diagnosis graph of agents, or the V2 main agent), streams the Run's events
to the browser, stores the result, and may propose one fixed, *controlled
action* (create a missing index) that is approved, confirmed, executed against
the target database and verified.  The backend is Python (FastAPI over
SQLAlchemy: SQLite or PostgreSQL), the frontend React.

This directory holds TLA+ modules translated from that code, the TLC
configurations that check them on small instances, and theorems about them
that TLAPS proves for every value of the constants.  `PROJECT.json` maps each
definition to the lines it models and lists components, runs, mutants, hazards,
findings and theorems.

## 1. Inventory

Paths are below `src/backend/src` unless they say otherwise.

### 1.1 Run lifecycle

*Code.* `application/services.py` (RunApplicationService) over
`infrastructure/persistence/repositories.py`, called from the create, rerun and
cancel routes of `api/v1/routes.py`.
*State.* The tables diagnosis_runs (status, next_event_sequence), run_events,
diagnosis_results / run_deliveries with their assistant messages,
run_idempotency_keys; in memory only the background task of each Run.
*Operations.* accept, accept_main_agent, rerun, execute (claim, events, success,
failure), cancel.
*Hard.* Requests, background tasks and cancels interleave between the short
transactions; the same key may arrive twice at once; the process may restart
between any two commits and nothing recovers what was in flight; FastAPI drops
the background task of a response that fails.
*Correct when.* One end per Run, announced once and kept; a reply exactly on
success; a gap-free event log; one Run per idempotency key and one task per
Run; every accepted Run ends unless a fault strands it.

### 1.2 Controlled action loop

*Code.* `application/action_services.py`, `infrastructure/actions/
postgres_target_executor.py`, `infrastructure/persistence/action_repositories.py`.
*State.* Proposals, approvals, executions, verifications, action events and
action idempotency keys; outside, the index of the target database.
*Operations.* propose (in the transaction that completes a Run), decide,
request execution, expire, execute in a background task (claim, inspect, write,
record, verify, finish).
*Hard.* The target is a second database without a common transaction; several
confirmations race; the approval may expire while a confirmation is under way;
two proposals share one index; a restart may change the action mode.
*Correct when.* The change statement is sent at most once, only after approval
and confirmation; the four tables and the audit trail tell one story; a
confirmed execution ends unless a fault strands it.

### 1.3 Sessions

*Code.* SessionApplicationService and `_touch_session` in `application/services.py`,
the session repository, `infrastructure/persistence/plain_message_writer.py`.
*State.* diagnosis_sessions: title, status, archived_at, updated_at.
*Operations.* create, rename, archive, restore, touch (by a plain message, and by
a Run that is accepted or ends).
*Hard.* Rename and archive read the row, decide, and write back what differs
from a second read; acceptance reads the status and inserts later; a restore and
a touch are one conditional UPDATE.
*Correct when.* The session is what its last successful edit asked for;
archived_at is set exactly for archived sessions; a touch never takes updated_at
back.

### 1.4 Messages

*Code.* `application/message_editing.py`, `application/plain_messages.py`,
`infrastructure/persistence/message_editing_writer.py`, `plain_message_writer.py`,
the message repository, and the parts of `application/services.py` that write and
read the messages of Runs.
*State.* session_messages, in the order of (created_at, id).
*Operations.* send a plain message with its reply, accept a Run with its input
message, claim it, answer it, rerun it, edit a message, delete it with its reply.
*Hard.* Edits and deletions race with each other and with Runs that still wait
to read their question; the reply that goes with a question is found by position.
*Correct when.* A Run with a snapshot executes what was asked; a deleted message
keeps its words; a deletion takes a question and its own reply, never an answer
of a Run.

### 1.5 Event stream

*Code.* `api/v1/sse.py`, the events routes, and of `src/frontend/src/features/workbench/`
`use-run-event-stream.ts`, `run-events.ts` and InvestigationProcess in `WorkbenchPage.tsx`.
*State.* The generator's cursor and page, the connection, the EventSource with
its Last-Event-ID, the events and the status the view shows.
*Operations.* poll (the status, then the events after the cursor), send, close;
connect, reconnect, receive, poll the list, merge, fetch the status again.
*Hard.* Status and events are read by two statements while writers commit;
connections drop at any event; lists arrive late; an error answer closes an
EventSource for good.
*Correct when.* The view shows a gap-free prefix of the committed events; the
stream stays open until the end was sent; the view notices the end.

### 1.6 Runtime guard and executors

*Code.* `application/runtime_safety.py`, `application/run_execution.py`,
`infrastructure/agent_runtime/run_executor.py`,
`infrastructure/diagnosis/coordinator_executor.py`.
*State.* The terminal signal held back until the stream's end.
*Operations.* Pass events on, hold a terminal signal back, turn protocol errors
and exceptions into one failure.
*Correct when.* Exactly one terminal signal, last, whatever the executor yields.

### 1.7 Diagnosis graph

*Code.* `core/graph.py`, `core/coordinator.py`, `core/debate.py`,
`core/reflection.py`, `core/public_projection.py`, and the agents' loop of
`core/agent.py` and `core/react_graph.py`.
*State.* Route, agent results, conflict, report, issues, revision count, trace.
*Operations.* route, direct / chain / parallel, conflict check, debate, report,
reflection, with at most two revisions; streaming of new trace entries.
*Hard.* Parallel agents; a bounded loop; every node hands on the whole trace.
*Correct when.* Each step is told once; the report that is returned was reviewed
or is the last allowed; no agent calls more tools than its limit.

### 1.8 Main agent kernel and tool gateway

*Code.* `core/main_agent_react.py`, `core/main_agent_budget.py`,
`core/main_agent_model.py`, `core/main_agent_decisions.py`,
`core/tool_gateway.py`, `capabilities/*`, `tools/text_compare.py`,
`domain/main_agent.py`.
*State.* Step, budgets (6 decisions, 2 knowledge loads, 3 tool calls), loaded
skills, observations, the outcome, the one worker thread of the tool gateway; the
frozen input: materials and earlier messages.
*Operations.* decide, load_skill, invoke_capability; submit, time out, cancel.
*Hard.* Cancellation checks around every model call; counters at their limit;
a timed-out tool that keeps the only worker and may answer late.
*Correct when.* One outcome; no budget exceeded; nothing is decided after a
cancel; a closed call stays closed; a comparison is exact.

### 1.9 Service registration

*Code.* `application/service_registration.py`, ServiceRegistry in
`domain/services.py`, `infrastructure/services/*`.
*State.* The service rows, the in-memory entries with their connectors, an epoch
lock and one lock per entry, poisoned entries.
*Hard.* The commit and the in-memory change are two steps; the lock order; a
commit whose answer is lost; a start without the master key.
*Correct when.* The table follows the rows, and where it cannot the entry is
hidden; readers never see a connector of one version with the source of another.

### 1.10 Monitoring

*Code.* `infrastructure/monitoring/sampler.py`, `application/monitoring.py`,
`infrastructure/persistence/monitor_repositories.py`.
*State.* Samples, threshold rows, the round under way, the pool's threads.
*Hard.* Calls that outlive their timeout keep the threads the round's
transaction needs; two saves of one threshold row.
*Correct when.* A stored round is whole and of services that were registered when
it began; history, trend and overview say what the samples and settings say.

### 1.11 Model providers and roles

*Code.* `application/model_providers.py`, `application/model_mode.py` and their
repositories; of `config.py`, `core/bootstrap.py` and `api/v1/dependencies.py` what a
Run is built from.
*State.* Providers with their connection and the outcome of a verification, the
active one, role assignments, idempotency keys, the mode; a build under way.
*Hard.* The network is asked between a read and a write; deletes race with
activation and assignment; creates race under one key; a build is put together
from four statements, and what cannot be read falls back to something else.
*Correct when.* At most one provider is active, none is deleted while it is,
each assignment has its provider, an edit is not undone by a late outcome; the mock
mode asks no model, and what stays while it is read is what is used and shown.

### 1.12 Lists, exports, audit and knowledge

*Code.* The list queries and cursors of the repositories and routes,
`application/audit_service.py`, `application/session_export.py`,
`domain/audit.py`, `infrastructure/persistence/audit_repositories.py`,
`application/knowledge.py`, `knowledge/reader.py`, and the pages that read them.
*State.* Pages a browser keeps, files, the one worker of the knowledge directory.
*Hard.* Rows commit late or move while a person pages; two tables are read by two
statements; jobs nobody waits for any more still occupy the worker.
*Correct when.* Pages leave nothing out that stays and repeat nothing; an
export that does not say it was cut holds all; a search says what the files said.

### 1.13 Frontend

*Code.* `src/frontend/src/features/workbench/*`: sending with idempotency keys kept
in session storage, the event stream hook, the projection of messages and Runs
to turns; the audit and knowledge pages.
*Hard.* An accepted request's answer is lost, the page is reloaded or left, a
React effect runs with the values of an older render.
*Correct when.* A question is investigated once for each service and its intent
resolved; the conversation shows each message under its own question.

### 1.14 Tools, agents, connectors, configuration

`tools/*`, `agents/*`, `core/llm.py` and the connectors talk to targets and models;
`app.py` and the rest of `config.py`, `core/bootstrap.py` and `api/v1/dependencies.py`
wire it up.

### How the parts interact

Routes call the application services; the services share nothing but the
database and the service registry.  A background task runs after its response
in the same process.  A Run touches its session when it is accepted and when it
ends; a successful diagnosis proposes an action in the same transaction; the
event stream reads what the Run's task and cancels commit; the guard stands
between an executor and the Run's task; the sampler asks the connectors of the
registry; lists, exports and projections read what all of them commit.

## 2. Plan

Most important behaviour first; all of the plan's modules are written.

| # | Modules | Models | Abstract specification, composition | Theorems |
|---|---|---|---|---|
| 1 | RunLifecycle | 1.1 | implements RunPromise | rows, keys, the refinement |
| 2 | ActionLoop | 1.2 | implements ActionPromise | every safety property, the refinement |
| 3 | SessionLifecycle | 1.3 | | both properties |
| 4 | MessageTimeline | 1.4 | extended by ConversationTurns | every property |
| 5 | EventStream | 1.5 | over the log of RunLifecycle | every safety property |
| 6 | RunExecution | 1.6 | composes MainAgentKernel, DiagnosisGraph over DomainAgent over ToolGateway, both over ExecutorItems, and an arbitrary executor | every safety property |
| 7 | RunView | 1.1, 1.8 as they are shown | extends MainAgentKernel | every property |
| 8 | ServiceRegistration, MonitorSampler | 1.9, 1.10 | MonitorSampler extends ServiceRegistration | every safety property |
| 9 | ModelProviders, ModelBuilds | 1.11 | ModelBuilds extends ModelProviders | every property |
| 10 | SendIntent | 1.13 | over the keys of RunLifecycle | every safety property |
| 11 | AuditTrail, PagedLists, HistoryExports, MonitorReadings, KnowledgeReadings, ConversationTurns, TextComparison, MainContext, composed in MCReadings | 1.12, what 1.4, 1.8, 1.10 are read as | operators against reference definitions | all but turns and comparisons |

## 3. Modules and code

One rule decides what is one step.  SQLite (with autocommitted reads) and
PostgreSQL (READ COMMITTED) both let another transaction commit between a read
and a later conditional UPDATE, so a transaction that decides on what it read
is split there; from the UPDATE, which holds the row, to the commit it is one
step.  A rolled-back transaction changes nothing and has no step unless its
caller goes on.

The `MC` modules add the symmetry sets of their runs.  An operator that follows
a "Mutant:" comment is a plausible bug; it is used only where `PROJECT.json`
puts it in the place of a definition of the code.

### RunLifecycle

State: `status`, `nextSeq`, `events`, `replies` and `idem` are the tables;
`request`, `cancel` and `task` say where the requests and the background tasks
are.  An event is its number and its type, a result or delivery with its
message is one reply.

| Actions | Code |
|---|---|
| Submit, AcceptRead, AcceptCommit, AcceptConflict, AcceptReread | `accept`, `accept_main_agent`, `rerun`: the key is looked up, the Run, its key and its first event are inserted; a violated unique key is answered from the row that won |
| Schedule | the response of the route is sent; FastAPI starts the task |
| ClaimRead, ClaimCommit, ClaimLost | `execute`: queued to running, conditionally |
| LegacyCheck, LegacyAppend | `_execute_legacy`: `_is_cancelled`, then an event without a test of the status |
| TypedAppend, TypedStop | `_execute_typed`: the UPDATE that reserves the number tests the status |
| SuccessRead, SuccessCommit, SuccessLost | `_complete_success`, `_complete_main_agent_success` |
| Raise, FailureRead, FailureCommit, FailureLost | an exception, and `_complete_failure` |
| CancelRead, CancelCommit, CancelLost | `cancel_run` |
| Restart, ResponseFails, FailureWriteFails | faults: what was in memory is gone; the answer fails after the commit, so the task is dropped; the failure cannot be written |

The abstract specification *RunPromise* is a Run as its readers see it: accepted,
started, ended at most once, announced, and replied to when it succeeded.
`KeepsThePromise` maps `phase` to `status`, `announced` to the ends in the log
and `replied` to `replies`.

### ActionLoop

State: one variable for each of the tables, `index` and `writes` for the target,
`armed` for the configured action mode, `request` and `task`.

| Actions | Code |
|---|---|
| Propose, Lapse | the proposal that a completed Run leaves; `expires_at` passes |
| Submit, ReadRequest | the routes, and the reads of `decide` and `request_execution` |
| DecideCommit, DecideLost, ConfirmCommit, ConfirmLost, ExpireCommit, Schedule | their conditional UPDATEs and the response |
| ClaimRead, ClaimCommit | `execute`: queued to running |
| Inspect, Send, WriteEnds, Verify | the executor's calls of the target database |
| RecordSuccess, StartVerification, FinishVerified, FinishRefuted, FinishBlocked, FinishFailed | the transactions that store what the executor returned |
| Restart, TaskWriteFails, ResponseFails | faults; a restart may come back in another action mode, and a statement in flight ends either way |
| Cleanup | a person drops an invalid index |

*ActionPromise* is the operator's view: the write happens between confirmation
and end, once, and never for a proposal that is reported blocked, rejected or
expired.

### SessionLifecycle

`row` is the session, `edit` holds the copies that rename and archive carry
between reading and flushing, `work` a message or Run that touches the session.
Restore is one UPDATE; Confirm, Read, ReadAgain and Flush are `update_session`
and `archive_session` with `save`; Admit, Insert, End and TouchAtEnd are the
acceptance of work and `_touch_session`.  `asked` is a ghost: what the last
successful edit wanted.  With `Serial` one edit is answered before the next is
sent, as from one browser tab; without it edits overlap.

### MessageTimeline

`timeline` is the message table in its list order.  `TakeTime` and `AddTo` say
where a message lands: a writer takes its time before it commits, and equal
times are ordered by random ids.  SendPlain and CommitPlain are the plain
message writer; CreateRun, Claim, Answer, EndSilently and Rerun the messages of
Runs; ReadToEdit, UpdateContent and ArchiveMessage the edits and deletions, which
`change` follows from the read to the UPDATE.  `stamp` is the latest time taken.  `Apart` assumes
that no two writers take times less than two microseconds apart; without it a
reply may be paired with another question.

### EventStream

`log`, `next` and `tx` are the committed events and the open transactions that
number them (Write); `server` is the generator of `replay_run_events` (Replay);
`wire`, `source` and `last` the connection and the EventSource (Source);
`events`, `rest`, `shown` and `refresh` the view with its polled list and its
copy of the status (View).  It takes from RunLifecycle that a Run has one end,
and that a diagnosis task past its check may append one event after it.  A Run
has fewer events than the 100 of a page, so a page is what follows the cursor.

### RunExecution, MainAgentKernel, DiagnosisGraph, DomainAgent, ToolGateway

*RunExecution* is one executing Run: `out` (ExecutorItems) holds what the executor has yielded,
GuardReads is `_guard_finite_stream` for one item, `stream` what was passed on and
the end that is held back, `read` a history of what was read.  The executor is a
generator: it rests while an item is read.

| Module | State | Actions and code |
|---|---|---|
| MainAgentKernel | `kernel` (node, budgets, decision, wait), `material`, `now`, `cancel` | RefuseInput, StartAgent (`MainAgentRunExecutor`), Decide (`_decide_node` up to the call), ModelAnswers (after it, with the look for a cancel), FinalizeAnswer, FinalizeNeedsInput, RefuseSkill, NoLoadLeft, LoadSkill, RefuseCapability, CallCapability, ToolAnswers, KernelRaises, ReportOutcome; Cancel comes from another thread, Tick is the clock of the budget |
| DiagnosisGraph | `diag` (the node that is next, conclusions, draft, revision, issues) | one action per node: route, agents in a chain or in parallel, conflict, debate, report, reflection, and what `route_stream` makes of each node's trace |
| DomainAgent | `agent` (place, steps, calls, limit) | Think, CallTool, StopAtLimit, TurnEnds, Raise (`react_graph.py`) |
| ToolGateway | `gateway` (the calls of each agent, in order) | Invoke, WorkerStarts, WorkerEnds, Answer, WaitEnds, Expire: `ToolGateway.invoke` and its one worker thread |

What a model decides is any decision its JSON validates into; what a tool answers
is any outcome; texts are left out.

### RunView

Extends MainAgentKernel with the rows of the Run.  Claim, Work, StoreEvent,
StoreEnd, FinishDiagnosis and CancelRun write them; OpenRead, ReadDelivery and
ReadEvents are the separate statements of `GET /runs/{id}` and of the lists;
Damage makes a stored delivery unreadable.  A delivery is its kind and the
capability it names: the skill an answer is grounded in, or the one called for a
comparison.  `Readable`, `ShownCapabilities` and
`LiveCapabilities` are the projections of `resources.py` and of
`main-delivery-readers.ts`, `Card` the page's strip and panel.  `LiveSteps` is what
`read_step` leaves after all events: an end replaces the steps before it, the
highest of what is not replaced is shown.

### ServiceRegistration and MonitorSampler

`rows` are committed rows, `table` the connectors in memory, `registered`,
`poisoned` the registry's sets, `epoch` and `entry` the locks, `key` the master
key of this process; `doubtful`, `log`, `answered` are histories.  A client sends
a request (Send) and goes through its places (ClientStep): locks, read, commit,
table, unlock, or a read of the connector and of its source.  CommitFails and
Restart are faults.  MonitorSampler adds the round: CollectHost, RoundStep (take,
ask, time out, persist, sleep), PersistFails, LateAnswer.  A DSN and a connector
are told apart by the number of the request that wrote them.

### ModelProviders

`provider`, `keys`, `assignment` and `mode` are the tables, `client` the copies
a request carries from its reads to its writes: CreateReads/CreateWrites,
ReadsProvider/Rereads/Writes for update and verify (Ask is the network between),
Activate, DeleteReads/DeleteWrites, AssignReads/AssignWrites, Unassign,
ModeReads/ModeWrites.  An UPDATE carries the columns that differ from what the
session read, as SQLAlchemy's flush does.  Uniqueness, primary and foreign keys
are checked by the database at the write.

### ModelBuilds

extends ModelProviders by one `reading`: a build of a Run (`build_coordinator` over
`resolve_runtime_mode` and `resolve_role_llm_configs`) or the list of the roles.  ReadConfig,
ReadMode, ReadAssignments and ReadProviders are its statements, each of which may be
lost, and TablesStep is a step of ModelProviders between them; `steady` says what has not changed
since the reading began.  The environment's configuration is any of `EnvConfigs`.  The
client of a role, the plain reply, the availability and the model that is shown are operators over
what has been read.

### SendIntent

`store` is sessionStorage, `page` the state of the mounted component with the
values its effects closed over, `loops` the submissions under way, `wire` and
`plain` the requests in flight, `server` the session with its Runs.  Two submission loops and one
reconciliation at a time are modelled.

### Readings

*MCReadings* composes the modules of what is read; a behaviour is about one kind.

| Module | Models |
|---|---|
| AuditTrail | `domain/audit.py` and the two selects: what a row becomes, the filters, the merge of both tables |
| PagedLists | the list queries with keyset cursors, the routes, TanStack Query's pages (load more, rebuild, drop a late answer), `fetch_all_pages`; rows take their time and commit later |
| HistoryExports | the audit export with its limit, page state and overlapping downloads; the session export with its caps and four statements |
| MonitorReadings | retention, history with trend and fluctuations, the overview, thresholds and two overlapping saves |
| KnowledgeReadings | the directory, its links, the rules for names and for what they lead to, hits, the one worker with abandoned jobs; `from` is the name the walk came by, which no answer shows |
| ConversationTurns | extends MessageTimeline by the lists of messages and Runs and the projection of `conversation-turns.ts` |
| TextComparison | the form, the frozen materials, the diff blocks, the validation before they are stored, the page's reading of them |
| MainContext | `_select_main_context`: the earlier messages a new Run is given, while Runs overlap and messages are edited or deleted |

## 4. Runs

A property of a run is a conjunction of named parts, each stated and commented
in its module.  Deadlock is not checked: requests, Runs, edits and rounds are
bounded and the systems come to rest.

| Run | Shows | Instance |
|---|---|---|
| run_race | RowsTellTheRun: one end wins, announced once and kept, the log has no gap, a reply exactly on success, at most one late event.  KeysAreHonest: a key admits one Run, answers its own question, starts one task.  KeepsThePromise: RunPromise.  AcceptedRunsEnd | two diagnosis Runs and a main agent Run, two requests under one key, two cancels, two process events, one fault |
| action_race | TablesAgree; WrittenAtMostOnce; ReportsAreTrue: keys and audit trail match the rows, an expiry is noticed, one of two proposals for the index is verified; ExecutionsAreAtWork; KeepsThePromise: ActionPromise | two proposals for one index, four requests, two keys, one fault |
| session_serial | LastEditShows: edits stick while Runs and messages hold older copies; OnlyASaveGoesBack | two serial edits, two pieces of work, four times |
| timeline_edits | RunsRepeatTheirQuestion, DeletionsTakePairs, DeletedWordsStay | one plain message, a Run and its rerun, two changes, two texts |
| stream_view | ViewFollowsTheLog: a gap-free prefix, closed only after the end; ShownStays; EndIsNoticed | two writers, four events, two faults |
| execution | StreamIsGuarded: one end, last; BudgetsHold; CancelStopsTheKernel; ExecutorsTellTheStory; CallsAreHonest; EveryRunGetsItsEnd | the kernel with three decisions and a clock of five, the graph with two agents and two revisions, or any executor |
| services | RegistryFollowsTheRows, StoredRoundsAreTrue, WorkEnds | two threads with three requests, two services, a round with one worker, one fault, one restart |
| models | ModelTablesAgree, ConnectionsAreAsEdited, and BuildsAreTrue: the mock mode presents no key, a build and a view agree with what stays while they are read | two clients with three requests, one of them a reading, up to three providers, one key, one fault |
| run_view | RowsCanBeRead, CapabilitiesAreTrue, TerminalViewsAreFinal | one Run of either kind, one reader, one damaged row |
| send_intent | QuestionsRunOnce, IntentsLeaveOnce, IntentsAreResolved | two services, two questions, three intents, two faults |
| send_pending | *violated:* a pending message is sent once | one service, one question |
| readings | ListsReadWell, ExportsAreTrue, ReadingsAreTrue, SearchesAreTrue, TurnsAreHonest | pages of one row, exports cut at one row, and small instances of each kind (see the cfg) |

Why the bounds are enough.  A conditional UPDATE is won by one of its rivals,
and rivals differ in kind, not number: one task, two cancels and two requests
already contain each pair of rivals and one spectator.  Two process events show
one before and one after a cancel.  Four requests on an action are decision,
confirmation and a rival of either, or a replay.  The ending of a page, the drop
of a connection and the late list need no more than four events.  The kernel's
limits are smaller than the real ones (six decisions) but each can be the first
to be reached.  Two revisions, one worker per gateway and two locks are the real
numbers.  Pages of one row make every row a boundary; an export cut at one row
is cut or not.  Three providers are one active, one to take its place and one
that is created meanwhile.  Where a theorem stands behind a property (section 7)
the bound does not matter.

`MaxFaults`, `MaxEvents`, `MaxTime`, `MaxOps`, `MaxRestarts`, `MaxRounds`,
`MaxProviders`, `MaxAsks`, `MaxIntents`, `MaxItems`, `MaxTools`, `MaxDamage`,
`MaxWrites`, `MaxFailures`, `MaxReloads`, `MaxSpent`, `MaxSamples`, `MaxChanges`, `MaxTalks` and `MaxRewrites`
are the counters that are cut, each in the guard of the action that counts it; `Details` are the
paths whose text is asked for.  `FewLinks` bounds the knowledge directories *readings* begins
with: at most one link, within the directory or out of it, and only the least name hidden, or
beside a link within the directory odd or of another kind, so that it is now the link and now
what the link leads to.
MaxDecisions, MaxLoads, MaxToolCalls, MaxObservations, MaxSteps, MaxRevision,
Deadline, Limit, ExportMax, MessageCap, RunCap, HitLimit, MaxLines, MaxBlocks,
MaxMessages, MaxLength and MaxRecent are limits of the code (MaxRecent = 2 of three Runs, so that an
answered Run is out of reach while fewer than MaxMessages newer ones were answered).

## 5. Fairness

Nobody is obliged to ask, cancel, decide, confirm, edit, break a connection or
restart the process.  What is assumed to go on:

- *RunLifecycle: ExecuteStep, TaskStep.*  A background task runs in the thread pool of
  the living process, and each of its transactions either commits or raises.  A
  task that a fault has taken is in `lost` and has no steps.  *Schedule*: the
  response of an accepted request is sent, unless it fails.
- *EventStream: Replay* polls in a loop with a sleep; *Connect, Receive*: the
  EventSource reconnects by itself and its callbacks run; *ReadList, Merge, Refetch*:
  timers and fetches of a visible tab.
- *RunExecution: GuardReads, MainAgent, Diagnosis.*  The Run's task reads its
  executor; a call of the model comes back within the timeout it was given, and a
  wait for a tool ends.  Of the threads that run the tools nothing is assumed.
- *MonitorSampler: Scheduled.*  As long as a request's thread, the round or the
  timeout of a connector's driver has something to do, one of them does it.
- *SendIntent: PageStep, ReadEnds, Network, Loop.*  The browser renders and runs effects
  and callbacks, and the server answers.

Weak fairness is enough for each, as none of these steps is disabled again by
others once it is due, except by the end it is heading for.  Faults are bounded
and never fair; AcceptedRunsEnd and IntentsAreResolved excuse a behaviour with a
fault, because nothing in the code recovers what one strands.  ActionLoop states no
fairness: ExecutionsAreAtWork says that a live execution has the one task that
ends it.

## 6. What the code does otherwise than it says, or than one expects

One run is expected to be violated: *send_pending*.  The list of words in the
browser (`message-intent.ts`) lacks one of the server's
(`message_routing.py`), so a question of the welcome page is sent as a plain
message, refused, investigated, and never cleared: each page opened later
investigates it again.

The models show more of this kind, without a run of its own:

*Runs.*  Of two cancels that read a live Run one is answered 409 although the Run
is cancelled.  One process event may follow `run_cancelled` in the log of a
diagnosis Run.  A queued diagnosis Run executes the text its message was edited
to; after an edit the replay of a rerun under its key is refused.  A failed call of
the model becomes the text of the report.  A detail that is read while the Run
ends is answered 500 (RowsCanBeRead bounds it to that).  `agent_done` with step 0
makes the projection of capabilities unavailable; a cancelled Run whose last event
is the signal of a spent budget shows one step more than it decided.

*Actions.*  After a restart without target mode the proposal fails while its
execution stays queued for ever.  The panel shows only the first 20 events.

*Sessions.*  A rename that read the session before an archive writes `active`
back, and an older `updated_at` over a newer touch; work that was admitted before
an archive is inserted after it.  A session that moves back in the list is shown
twice by a reader of pages.

*Services.*  An identifier stays poisoned after a lost commit or rows that were
not loaded, until the next start.  GET names the source of a connector by a second
question, which may be about the next one.  Samples and thresholds of a
service survive its deletion.

*Models.*  A verification stamps its outcome on a connection that was edited
meanwhile.  "Keep the secret" writes back the secret that was read.  Overlapping
assignments mix.  Two retries over an expired key create two providers.
In the real mode a role without a key of its own runs on the default, and with no key
there on the mock client.  A role whose provider has no readable key is shown as
assigned and runs on the default.  The key `mock` is shown as a configuration though no
model is asked; the placeholder of the example file is not, though models are asked with
it.  When app_settings cannot be read the mode is that of the environment.

*Sending.*  A hidden question sent again while its intent is being cleared puts the
closure's intent back until the page is reloaded.  A saved other plain message
clears the pending one whose sending failed.

*Readings.*  A session's export holds deleted messages.  A plain reply is shown under the
wrong question while a Run is not loaded.  The audit page and its export read two
statements; a Run may be exported as running with a result.  A second export may
start while the first is on its way, and its state is overwritten.  Two
overlapping saves of thresholds mix column by column, and of two first saves one
fails.  A file with a backslash in its name is listed and cannot be read.  A link inside the
knowledge directory makes its document be listed and found twice under one name; it can be
read by the name of the link too, which is listed nowhere, hidden or not.  A link with a
Markdown name to a file of another kind lists that file under its own name, which cannot be
read.  A page of documents that ends between two equal names leaves out the second.  A job
nobody waits for any more occupies the one worker.  The composer keeps its texts
ticked after a question was accepted.  The context of a Run skips a message that
is too long and takes older ones, so that a pair may be split; a late answer of
an older Run is left out, and so is an answered Run behind sixteen newer ones of any
kind and end, however short the context is without it; and a session whose recent messages look like
credentials accepts no more main agent Runs.

## 7. Proofs

Each theorem holds for every value of the constants that satisfies the
assumptions stated in its module and the modules it extends, and under no other
hypothesis but `Apart` for DeletionsAlwaysTakePairs.  The sets of Runs, requests, clients, agents, texts and keys are
arbitrary and the bounds any natural number.  A module of proofs that is about several
modules extends them all, so that one set of lemmas serves them: RunExecutionProofs both
RunExecution and RunView with their one kernel, SessionProofs those of a session and MainContext,
ReadingProofs the live view, the lists, the exports, the searches and the monitoring.  The names of these
modules are kept apart for that (ViewInit, TimelineInit and the like).

### What is assumed

| Module | Assumptions | Why |
|---|---|---|
| RunLifecycle | Runs of both kinds, NoRun and Queries do not overlap | a Run has one runtime kind; the others are names |
| SessionLifecycle, MessageTimeline | OldTitle and `none` are not titles of a rename; `Posts \cap Runs = {}`; for DeletionsTakePairs also `Apart` | names; Apart is what the code hopes of its clocks, see section 3 |
| ToolGateway, DomainAgent, DiagnosisGraph | finitely many agents, limits and revisions are numbers | `core/coordinator.py` keeps its agents in a dict |
| MainAgentKernel, RunExecution | budgets are numbers, waits positive; no skill is a tool, and none is called `none` or `unknown` | `capabilities/registry.py` resolves an identifier to its active version, which is of one kind |
| RunView | MaxDecisions > 0, Deadline > 0 | MAX_MAIN_DECISIONS is 6; MainAgentBudget refuses wall_clock_seconds <= 0 |
| ServiceRegistration | the services of the environment and of the table do not overlap, and there is one; `free` is no client, `none` no key | `free` and `none` are the values of what is not held |
| ModelProviders | some slot; `none`, `old`, `own` are no contents, models or keys | names |
| PagedLists, HistoryExports | identifiers are numbers and finitely many, limits are positive; an audited row is a Run if its identifier is even and an event else, a turn a main agent Run if it is even | the numbers stand for times and keys; both tables of the audit stream have keys of their own |
| KnowledgeReadings | paths are numbers and finitely many, so are the requests; the limit of hits is positive | the order of the numbers is that of the relative names, and of the walk among the links to one document; `search_documents` takes at least one hit.  Which links there are is free, but that a link leads to what is no link, as `Path.resolve` does |
| MonitorReadings | finitely many services; the retention is positive; `none` is no save | `monitoring.retention_hours` is between 1 and 168; `none` is a name |
| MainContext | limits and the lengths of answers are numbers | `domain/main_agent.py` has them as constants; a length is one |
| SendIntent | at least one service | the page sends nothing otherwise |

### The theorems and their invariants

An invariant of the runs is seldom inductive.  What is proved is the
strengthening named here; TLC finds each of them an invariant of the instances the runs
use (SendInv of that of *send_pending*).

- **RunLifecycleProofs.**  *RowsAlwaysTellTheRun, KeysAlwaysHonest, EndsAreFinal,
  RunKeepsThePromise.*  `RowInv` adds that only diagnosis tasks are past
  `_is_cancelled` (TaskFitsKind): without it a main agent's task could append after
  the end.  A step touches one row and appends at most one event (RowStep).
  `LateInv` says how often a diagnosis task may still append: a task that streams has
  a Run that runs or was cancelled, and after a late event it does not pass the check
  again.  `KeyInv` says for each request what it has read and what that row still is
  (RequestFits), so that what it answers at the end is what its key admitted.  The
  refinement maps a row step to Accept, Start or End of RunPromise, the others to
  stuttering.
- **ActionLoopProofs.**  *TablesAlwaysAgree, NeverWrittenTwice, ReportsAreAlwaysTrue,
  ExecutionsAreAlwaysAtWork, LoopKeepsThePromise.*  `LoopInv`: a proposal has one task
  at most (OneTask), the place of a task fits the rows it will update and the
  statements sent (TaskFits), nothing is sent before the claim (WritesFit).  `IndexInv`:
  one task or one verified proposal holds the index, which is there.  `WorkInv`: without a
  fault a live execution has the request that works for it.  `KeysInv` and `TrailInv` are
  the invariants of the keys and of the audit trail themselves.
- **SessionProofs** holds the modules of a session.  *LastEditAlwaysShows,
  ActivityGoesBackOnlyBySave*: `SerialInv`, at most one edit is under way (OneEdit), the
  row is what was asked for, and the copy a flush compares with differs from the row at
  most in updated_at (Holds).  *DeletionsAlwaysTakePairs, AnswersAlwaysStay,
  RunsAlwaysRepeatTheirQuestion, DeletedWordsAlwaysStay*: `TimelineInv`, what is in the
  list was written by those who may have (RowsFit), a plain message and its reply come
  together and the reply one microsecond later (RepliesFit), what a Run or an edit is
  about can be read (ReadersFit), rerun keys name what was asked again (QuestionsFit), and
  with Apart the times taken are so far apart that nothing lands between a message and
  its reply (TimesFit).  The first message at or after a time is found by the least
  element of a set of positions, which the well-founded order of the naturals gives.
  *ContextsAlwaysRecent*: `ContextInv`, a Run has one question and no answer before it has
  ended (Spoken), and each message of a context was said by an earlier main agent Run
  (Informed).  What the selection has taken of the newest k messages (Gathered) is in the order of
  time, is as long as it is counted, and had no room for a candidate it left out; a message
  that is no candidate is too old (OthersAreOld).  Both this and that the recursive function of the selection
  exists at all are proved by least counterexamples.
- **ReadingProofs**, lists.  *ListsAlwaysReadWell.*  A page has no memory of what it passed,
  so the argument is about places: the cursor is the key of the last item shown, a row keeps
  its place unless it is touched (it *slipped*) or committed behind the reader, and each
  page is in order and has, up to its own end, every row that was there all the time
  (PageReads).  `ReadersInv` says so of the pages held, of a rebuild under way and of an
  answer that was overtaken.  The two sides of the audit stream are each in order and
  are merged by rank.
- **ReadingProofs**, exports.  *ExportsAlwaysTrue.*  `FilesInv`: what an export has read of one
  table holds all that stayed there (ExportFits), and a file that does not say it was cut holds both;
  a session's document knows its messages (SaidFits) and gives the results of just the Runs
  it read (SummaryFits).
- **ReadingProofs**, searches.  *SearchesAlwaysTrue.*  `KnowledgeInv`: only the first job
  of the queue has begun (QueueFits), a job answers a request of its kind (JobFits), and an
  answer stays fit while the directory changes (AnswerFits).  SurveyFits says that each
  name whose document stayed as it is since the survey began is still to be read or was found.
  LinksFit, that a link leads to what is no link, is what makes a document that is read by any
  name one that is listed under its own.  What is shown is the
  best by rank (FirstBy): ranks of a finite strict order are the numbers from one, each once.
  That a count is the most occurrences without overlap is proved by a least counterexample
  over the recursive function of `find_snippets`.
- **ReadingProofs**, monitoring.  *ReadingsAlwaysTrue.*  `MonitorInv`: the samples of a service
  have an identifier each (SamplesAre; the next one is larger than all, which are finitely
  many), what a save has found is in the table until another one is committed, and what it has
  saved until it is replaced (SaveFits), and each service of the overview is to be read, is being
  read or has its item (OverviewIs).  A line holds the samples of its window in the order of time
  (Chronicle), so that its positions and those samples correspond one to one: by that
  bijection the sum over positions is the sum over samples, the predecessor in
  the line is the one in time, and what is counted over the line is what is counted over the
  samples (TrendAgrees, ItemAgrees).
- **ReadingProofs**, live view.  *ViewAlwaysFollowsTheLog, ShownEventsStay.*  `StreamInv`: one
  writer holds the row and the log is an initial segment of the numbers (WriterInv); the
  wire has what lies between the Last-Event-ID and the cursor, a page what follows
  the cursor (WireInv, PageInv); lists and view are initial segments (ViewInv); a terminal
  status was read before a page that holds the end or follows it (CloseInv).
- **RunExecutionProofs**, first part.  *EveryStreamIsGuarded, BudgetsAlwaysHold,
  CancelAlwaysStopsTheKernel, CallsStayHonest, DeliveriesAreValidated,
  FinalReportsWereReviewed.*  `RunInv` is KernelInv (step and decisions agree, a wait ends
  before the deadline, and CancelFits: what may still begin, by where the cancel came),
  DiagInv over AgentInv over GatewayInv (revision and review counts, calls and their
  futures), GuardInv (what was read is what was passed on, what is held and no more;
  each item is what the guard takes it for) and EndFits (an end on its way is that of a
  reviewed report).
- **RunExecutionProofs**, second part.  *RowsCanAlwaysBeRead, EndedViewsAreFinal,
  CapabilitiesAlwaysTrue*: RunView over the same kernel.  `ViewInv` follows a use of a
  capability from the node to the page.  StageFits says what the kernel decided where it
  stands; OutFits, that a signal on its way is about the decision at hand and that only an
  end follows the outcome; TrailFits, that each stored event tells what the kernel did;
  ToldFits, that unless the Run was cancelled each use is in the trail or on its way;
  StepsFit, that a step beyond the decisions is told only before the outcome that corrects
  it; RowFits and ReaderFits, that what a read found of a Run that was over is what the
  Run has.  ToldFits is what makes the two projections agree: what a delivery proves is
  already in the trail, and a capability is used in one way since no skill is a tool.
- **RunExecutionProofs**, third part.  *ExecutorsAlwaysTellTheStory.*  What an executor has
  told is what the guard has read and what still waits to be read, `read \o out`.  A node
  appends to it; the guard's reading does not change it, and what is not read when the
  guard breaks off is no part of any claim.  `TaleFits` is what the main agent has told where it
  stands: the signals are numbered as they were made, but for a last one that is refused
  beyond the limit (WellNumbered), the loads told are those made, nothing but events is
  told before the end, and what a kernel that is over has told last is its outcome
  and its end (LastTold).  `GraphTaleFits` counts the steps told by the node that is next
  (StepsTold), says which agents may be at work there (AtWork), so that the calls counted
  at the end of a node are all there will be, and that each entry of the trace was yielded
  once.  Sequences are counted by the sets of their positions, of which appending adds one
  and joining adds those of the second, shifted.
- **MonitorSamplerProofs.**  *RegistryAlwaysFollowsTheRows, StoredRoundsAreAlwaysTrue.*
  `RegistrationInv`: the locks are held by those inside them, outside a change of the table
  an entry that is not doubtful is what its row asks for, and a client that goes on knows
  the row it read (MutationFits, ReaderFits).  `RoundFits`: what a round has stored or still
  has to ask, by the place it is in.
- **ModelProvidersProofs.**  *TablesOfModelsAgree, EndpointAlwaysStaysServed,
  ConnectionsAlwaysAsEdited.*  `ModelsInv`: every copy a request carries is a row that was
  (ClientsFit), one provider has the endpoint, each assignment has its provider, a key
  that is not expired is the only one of its provider (KeysFit).  *BuildsAlwaysTrue,
  TablesAgreeBesideReaders, ConnectionsAsEditedBesideReaders*: ModelBuilds adds reads to those
  steps and changes no table.  `BuildInv` is ModelsInv with ReadingFits, by which what a
  reading has found of each table is what the table had when it was read, and has still
  where the table is steady.
- **SendIntentProofs.**  *QuestionsAlwaysRunOnce, IntentsAlwaysLeaveOnce.*  `SendInv` follows
  every copy of an intent, in the storage, the page and the loops: which question each
  identifier was given (AsksFit, with the questions asked as a witness), that a mark of a
  service is backed by a Run (MarksFit), that a request is the one its loop awaits
  (PostsFit), and that the page shows the intent of the storage unless the service
  centre's fixed question took its place (PageFits).

### What stays with TLC

- Liveness and what needs ENABLED: AcceptedRunsEnd, EndIsNoticed, EveryRunGetsItsEnd,
  WorkEnds, IntentsAreResolved.
- TurnsAreHonest of *readings*, but for its contexts: turns and diffs are put together by
  folds and recursion over sequences, which need
  induction over data.  The property as a whole cannot be stated beside a theorem, as
  TextComparison has a RECURSIVE operator; ContextsAlwaysRecent is about its part.
- PendingIsSentOnce, which is violated.

Modules with theorems use no RECURSIVE operator.

## 8. Not modelled

- `tools/*`, `agents/*`, `core/llm.py` and the connectors: calls of targets and
  models without state of the program.  Their outcomes are choices.
- `app.py` and what ModelBuilds does not have of `config.py`, `api/v1/dependencies.py` and
  `core/bootstrap.py`: read once at start-up.  That nothing is recovered at start-up is in RunLifecycle and ActionLoop.
- Of model providers: parameters, usage records and the requests a verification sends.
- Of monitoring: how the host's metrics are measured.
- Of the HTTP layer: schemas and resources that only convert.
- Of the frontend: settings pages, layout, rendering.
- Links of the knowledge directory that come, go or turn while it is read, and links to
  directories, below which nothing is listed; a name below one is read like a link of no
  Markdown name (`other`).  In PagedLists no link leads to a document.
- Wording of prompts, reports, messages, exports and logs.
- A plain message or Run that is inserted into a session archived since the check
  of its status: it is in SessionLifecycle (Admit, Insert) but violates nothing
  the code promises, so no property is about it.

`PROJECT.json` gives the reason for each component.

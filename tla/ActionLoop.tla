----------------------------- MODULE ActionLoop -----------------------------
(***************************************************************************)
(* The controlled action loop of application/action_services.py: a Run     *)
(* that found the missing index proposes one fixed change, the operator    *)
(* approves it and confirms its execution, a background task has           *)
(* infrastructure/actions/postgres_target_executor.py write to the target  *)
(* database and verify the result.                                         *)
(*                                                                         *)
(* As in RunLifecycle a transaction that decides on what it read is split  *)
(* between the read and the conditional UPDATE, and everything from that   *)
(* UPDATE to the commit is one step.  The target is another database: no   *)
(* transaction spans a call of the executor.                               *)
(***************************************************************************)
EXTENDS Naturals, Sequences

CONSTANTS
    Proposals,   \* identifiers of proposals, one per source Run
    Requests,    \* POST requests that decide on a proposal or execute it
    Keys,        \* Idempotency-Key header values
    MaxFaults    \* bound: restarts and failing writes in a behaviour

ASSUME BoundsAssumption == MaxFaults \in Nat

VARIABLES
    status,        \* status[p]: ActionProposalRecord.status, "absent" before the insert
    due,           \* due[p]: the clock has passed expires_at
    approval,      \* approval[p]: decision of the ActionApprovalRecord, or "none"
    execution,     \* execution[p]: status of the ActionExecutionRecord, or "none"
    verification,  \* verification[p]: status of the ActionVerificationRecord, or "none"
    trail,         \* trail[p]: the ActionEventRecord rows of p in sequence order
    idem,          \* the ActionIdempotencyKeyRecord rows: commands that were accepted
    request,       \* request[q]: where a request is
    task,          \* task[q]: where the background task started for q is
    index,         \* the index of the target database
    writes,        \* writes[p]: CREATE INDEX statements sent for p
    armed,         \* an executor is configured: action_mode is target
    faults         \* restarts and failing writes so far

rows == <<status, approval, execution, verification, trail, idem>>
world == <<due, index, writes, armed, faults>>
vars == <<rows, request, task, world>>

-----------------------------------------------------------------------------
(* Values *)

Ended == {"rejected", "expired", "verified", "blocked", "failed"}
Status == {"absent", "pending_approval", "approved", "executing", "verifying"} \cup Ended
EventTypes ==
    {"proposal_created", "approval_recorded", "approval_expired",
     "execution_requested", "execution_started", "precondition_checked",
     "execution_completed", "verification_started", "verification_completed",
     "action_blocked", "action_failed"}

\* A command and what distinguishes its fingerprint, the decision.
Command ==
    [endpoint : {"approval"}, proposal : Proposals, key : Keys, decision : {"approve", "reject"}]
      \cup
    [endpoint : {"execution"}, proposal : Proposals, key : Keys, decision : {"none"}]
NoCommand == [endpoint |-> "none"]

SameScope(a, b) == a.endpoint = b.endpoint /\ a.proposal = b.proposal /\ a.key = b.key

RequestPcs == {"idle", "reading", "deciding", "confirming", "expiring", "accepted", "answered"}
Answers == {"none", "decided", "created", "replayed", "key_reused", "invalid_state",
            "expired", "lost"}
\* "approval_expired" is ACTION_FAILED with the status expired in its data.
TaskPcs == {"none", "scheduled", "claiming", "claimed", "checked", "writing", "written",
            "recorded", "verifying", "passed", "refuted", "blocking", "failing",
            "done", "lost"}

TypeOK ==
    /\ status \in [Proposals -> Status]
    /\ due \in [Proposals -> BOOLEAN]
    /\ approval \in [Proposals -> {"none", "approve", "reject"}]
    /\ execution \in [Proposals -> {"none", "queued", "running", "succeeded", "blocked", "failed"}]
    /\ verification \in [Proposals -> {"none", "verified", "failed"}]
    /\ trail \in [Proposals -> Seq(EventTypes)]
    /\ idem \subseteq Command
    /\ request \in [Requests -> [pc : RequestPcs, cmd : Command \cup {NoCommand}, answer : Answers]]
    /\ \A q \in Requests : request[q].pc # "idle" => request[q].cmd \in Command
    /\ \A q \in Requests : request[q].pc = "deciding" => request[q].cmd.decision # "none"
    /\ task \in [Requests -> TaskPcs]
    /\ \A q \in Requests : task[q] # "none" => request[q].pc = "answered"
    /\ index \in {"absent", "building", "valid", "invalid"}
    /\ writes \in [Proposals -> Nat]
    /\ armed \in BOOLEAN
    /\ faults \in Nat

Init ==
    /\ status = [p \in Proposals |-> "absent"]
    /\ due = [p \in Proposals |-> FALSE]
    /\ approval = [p \in Proposals |-> "none"]
    /\ execution = [p \in Proposals |-> "none"]
    /\ verification = [p \in Proposals |-> "none"]
    /\ trail = [p \in Proposals |-> <<>>]
    /\ idem = {}
    /\ request = [q \in Requests |-> [pc |-> "idle", cmd |-> NoCommand, answer |-> "none"]]
    /\ task = [q \in Requests |-> "none"]
    /\ index = "absent"
    /\ writes = [p \in Proposals |-> 0]
    /\ armed = TRUE
    /\ faults = 0

-----------------------------------------------------------------------------
(* The repository operations the transactions are made of *)

\* _append_event_in_transaction, once per event.
Record(p, types) == trail' = [trail EXCEPT ![p] = @ \o types]

Set(f, p, v) == [f EXCEPT ![p] = v]

\* Mutant: the conditional UPDATE names the proposal only.
MayDecideAny(p) == status[p] # "absent"

\* The WHERE clauses of the conditional UPDATEs.
MayDecide(p) == status[p] = "pending_approval"
MayConfirm(p) == status[p] = "approved"
MayExpire(p) == status[p] = "approved"
MayClaim(p) == execution[p] = "queued"

Target(q) == request[q].cmd.proposal

Goto(q, pc) == task' = [task EXCEPT ![q] = pc]

Proceed(q, pc, answer) ==
    request' = [request EXCEPT ![q] = [pc |-> pc, cmd |-> request[q].cmd, answer |-> answer]]
Answer(q, answer) == Proceed(q, "answered", answer)

-----------------------------------------------------------------------------
(* Proposing and deciding *)

\* maybe_create_proposal_in_transaction, in the transaction that completes
\* the source Run; only in target mode.
Propose(p) ==
    /\ armed /\ status[p] = "absent"
    /\ status' = Set(status, p, "pending_approval")
    /\ Record(p, <<"proposal_created">>)
    /\ UNCHANGED <<approval, execution, verification, idem, request, task, world>>

\* Time passes: an approval is good for APPROVAL_VALIDITY_SECONDS.
Lapse(p) ==
    /\ status[p] = "approved" /\ ~due[p]
    /\ due' = Set(due, p, TRUE)
    /\ UNCHANGED <<rows, request, task, index, writes, armed, faults>>

Submit(q, cmd) ==
    /\ request[q].pc = "idle"
    /\ status[cmd.proposal] # "absent"
    /\ request' = [request EXCEPT ![q] = [pc |-> "reading", cmd |-> cmd, answer |-> "none"]]
    /\ UNCHANGED <<rows, task, world>>

\* A stored key answers the request.
AnswerFromKey(q, row) ==
    Answer(q, IF row.decision = request[q].cmd.decision THEN "replayed" ELSE "key_reused")

\* The reads of _decide_in_transaction and _request_execution_in_transaction.
ReadRequest(q) ==
    /\ request[q].pc = "reading"
    /\ LET p == Target(q)
           stored == {row \in idem : SameScope(row, request[q].cmd)}
           approving == request[q].cmd.endpoint = "approval"
           open == status[p] = IF approving THEN "pending_approval" ELSE "approved"
       IN \/ \E row \in stored : AnswerFromKey(q, row)
          \/ stored = {} /\ ~open /\ Answer(q, "invalid_state")
          \/ stored = {} /\ open /\ approving /\ Proceed(q, "deciding", "none")
          \/ stored = {} /\ open /\ ~approving /\ due[p] /\ Proceed(q, "expiring", "none")
          \/ stored = {} /\ open /\ ~approving /\ ~due[p] /\ Proceed(q, "confirming", "none")
    /\ UNCHANGED <<rows, task, world>>

\* Status, approval, key and event together.
DecideCommit(q) ==
    LET p == Target(q)
        decision == request[q].cmd.decision
    IN /\ request[q].pc = "deciding"
       /\ MayDecide(p)
       /\ status' = Set(status, p, IF decision = "approve" THEN "approved" ELSE "rejected")
       /\ approval' = Set(approval, p, decision)
       /\ Record(p, <<"approval_recorded">>)
       /\ idem' = idem \cup {request[q].cmd}
       /\ Answer(q, "decided")
       /\ UNCHANGED <<execution, verification, task, world>>

\* The UPDATE matched no row: ActionProposalInvalidStateError.
DecideLost(q) ==
    /\ request[q].pc = "deciding"
    /\ ~MayDecide(Target(q))
    /\ Answer(q, "invalid_state")
    /\ UNCHANGED <<rows, task, world>>

-----------------------------------------------------------------------------
(* Confirming the execution *)

\* Mutant: the key is not stored.
ConfirmCommitKeyless(q) ==
    LET p == Target(q)
    IN /\ request[q].pc = "confirming"
       /\ MayConfirm(p)
       /\ status' = Set(status, p, "executing")
       /\ execution' = Set(execution, p, "queued")
       /\ Record(p, <<"execution_requested">>)
       /\ Proceed(q, "accepted", "none")
       /\ UNCHANGED <<approval, verification, idem, task, world>>

\* Status, execution, key and event together.
ConfirmCommit(q) ==
    LET p == Target(q)
    IN /\ request[q].pc = "confirming"
       /\ MayConfirm(p)
       /\ status' = Set(status, p, "executing")
       /\ execution' = Set(execution, p, "queued")
       /\ Record(p, <<"execution_requested">>)
       /\ idem' = idem \cup {request[q].cmd}
       /\ Proceed(q, "accepted", "none")
       /\ UNCHANGED <<approval, verification, task, world>>

ConfirmLost(q) ==
    /\ request[q].pc = "confirming"
    /\ ~MayConfirm(Target(q))
    /\ Answer(q, "invalid_state")
    /\ UNCHANGED <<rows, task, world>>

\* Mutant: the expiry is persisted without its event.
ExpireSilently(q) ==
    LET p == Target(q)
    IN /\ request[q].pc = "expiring"
       /\ status' = IF MayExpire(p) THEN Set(status, p, "expired") ELSE status
       /\ Answer(q, "expired")
       /\ UNCHANGED <<approval, execution, verification, trail, idem, task, world>>

\* An expired approval: the result of the conditional UPDATE is not looked at,
\* the event is appended and the request is answered "expired" either way.
ExpireCommit(q) ==
    LET p == Target(q)
    IN /\ request[q].pc = "expiring"
       /\ status' = IF MayExpire(p) THEN Set(status, p, "expired") ELSE status
       /\ Record(p, <<"approval_expired">>)
       /\ Answer(q, "expired")
       /\ UNCHANGED <<approval, execution, verification, idem, task, world>>

\* Mutant: the task starts before the response.
ScheduleFirst(q) ==
    /\ request[q].pc = "accepted" /\ task[q] = "none"
    /\ Goto(q, "scheduled")
    /\ UNCHANGED <<rows, request, world>>

\* The route has read the detail it answers with; the task starts after it.
Schedule(q) ==
    /\ request[q].pc = "accepted"
    /\ Answer(q, "created")
    /\ Goto(q, "scheduled")
    /\ UNCHANGED <<rows, world>>

-----------------------------------------------------------------------------
(* Executing: execute in a background task *)

\* Without an executor _finish_without_executor goes straight to _finish_failed.
ClaimRead(q) ==
    /\ task[q] = "scheduled"
    /\ Goto(q, IF ~armed THEN "failing"
               ELSE IF status[Target(q)] = "executing" THEN "claiming" ELSE "done")
    /\ UNCHANGED <<rows, request, world>>

\* The conditional UPDATE of _claim_execution, with execution_started.
ClaimCommit(q) ==
    LET p == Target(q)
    IN /\ task[q] = "claiming"
       /\ IF MayClaim(p)
            THEN /\ execution' = Set(execution, p, "running")
                 /\ Record(p, <<"execution_started">>)
                 /\ Goto(q, "claimed")
            ELSE Goto(q, "done") /\ UNCHANGED <<execution, trail>>
       /\ UNCHANGED <<status, approval, verification, idem, request, world>>

\* The executor validates the proposal and inspects the target on a connection
\* of its own.  A bad proposal, no DSN, no connection, no table or an existing
\* index, valid or not, blocks.
Inspect(q) ==
    /\ task[q] = "claimed"
    /\ \/ Goto(q, "blocking")
       \/ index = "absent" /\ Goto(q, "checked")
    /\ UNCHANGED <<rows, request, world>>

\* Mutant: the second connection fails and is reported after the statement.
SendBlocksLate(q) ==
    LET p == Target(q)
    IN /\ task[q] = "checked"
       /\ writes' = [writes EXCEPT ![p] = @ + 1]
       /\ Goto(q, "blocking")
       /\ UNCHANGED <<rows, request, due, index, armed, faults>>

\* Mutant: CREATE INDEX CONCURRENTLY IF NOT EXISTS.
SendIfNotExists(q) ==
    LET p == Target(q)
    IN /\ task[q] = "checked"
       /\ writes' = [writes EXCEPT ![p] = @ + 1]
       /\ IF index = "absent"
            THEN index' = "building" /\ Goto(q, "writing")
            ELSE UNCHANGED index /\ Goto(q, "written")
       /\ UNCHANGED <<rows, request, due, armed, faults>>

\* The second connection: none, which still blocks, or the statement is sent.
\* The index may have appeared since Inspect; then the statement fails at once.
Send(q) ==
    LET p == Target(q)
    IN /\ task[q] = "checked"
       /\ \/ Goto(q, "blocking") /\ UNCHANGED <<index, writes>>
          \/ /\ writes' = [writes EXCEPT ![p] = @ + 1]
             /\ IF index = "absent"
                  THEN index' = "building" /\ Goto(q, "writing")
                  ELSE UNCHANGED index /\ Goto(q, "failing")
       /\ UNCHANGED <<rows, request, due, armed, faults>>

\* Mutant: a statement that timed out and left no index is tried again.
WriteEndsRetries(q) ==
    /\ task[q] = "writing"
    /\ \/ index' = "valid" /\ Goto(q, "written")
       \/ index' \in {"invalid", "valid"} /\ Goto(q, "failing")
       \/ index' = "absent" /\ Goto(q, "checked")
    /\ UNCHANGED <<rows, request, due, writes, armed, faults>>

\* CREATE INDEX CONCURRENTLY ends: with a valid index, or with an error or a
\* timeout that leaves no index, an invalid one or, the answer lost, a valid one.
WriteEnds(q) ==
    /\ task[q] = "writing"
    /\ \/ index' = "valid" /\ Goto(q, "written")
       \/ index' \in {"absent", "invalid", "valid"} /\ Goto(q, "failing")
    /\ UNCHANGED <<rows, request, due, writes, armed, faults>>

\* _record_execution_success.
RecordSuccess(q) ==
    LET p == Target(q)
    IN /\ task[q] = "written"
       /\ IF execution[p] = "running"
            THEN /\ execution' = Set(execution, p, "succeeded")
                 /\ Record(p, <<"precondition_checked", "execution_completed">>)
                 /\ Goto(q, "recorded")
            ELSE Goto(q, "lost") /\ UNCHANGED <<execution, trail>>
       /\ UNCHANGED <<status, approval, verification, idem, request, world>>

\* _start_verification.
StartVerification(q) ==
    LET p == Target(q)
    IN /\ task[q] = "recorded"
       /\ IF status[p] = "executing"
            THEN /\ status' = Set(status, p, "verifying")
                 /\ Record(p, <<"verification_started">>)
                 /\ Goto(q, "verifying")
            ELSE Goto(q, "lost") /\ UNCHANGED <<status, trail>>
       /\ UNCHANGED <<approval, execution, verification, idem, request, world>>

\* Mutant: an index that is not valid raises an error nobody catches.
VerifyRaises(q) ==
    /\ task[q] = "verifying"
    /\ \/ index = "valid" /\ Goto(q, "passed")
       \/ Goto(q, "lost")
    /\ UNCHANGED <<rows, request, world>>

\* verify on a new read-only connection: a failing connection, an index that is
\* not valid or a plan that does not use it refute.
Verify(q) ==
    /\ task[q] = "verifying"
    /\ \/ index = "valid" /\ Goto(q, "passed")
       \/ Goto(q, "refuted")
    /\ UNCHANGED <<rows, request, world>>

\* _finish_verified: the verification is rolled back when the UPDATE of the
\* proposal matches no row.
FinishVerified(q) ==
    LET p == Target(q)
    IN /\ task[q] = "passed"
       /\ IF status[p] = "verifying"
            THEN /\ status' = Set(status, p, "verified")
                 /\ verification' = Set(verification, p, "verified")
                 /\ Record(p, <<"verification_completed">>)
                 /\ Goto(q, "done")
            ELSE Goto(q, "lost") /\ UNCHANGED <<status, verification, trail>>
       /\ UNCHANGED <<approval, execution, idem, request, world>>

\* _finish_verification_failed: the result of the UPDATE is not looked at.
FinishRefuted(q) ==
    LET p == Target(q)
    IN /\ task[q] = "refuted"
       /\ verification' = Set(verification, p, "failed")
       /\ status' = IF status[p] = "verifying" THEN Set(status, p, "failed") ELSE status
       /\ Record(p, <<"action_failed">>)
       /\ Goto(q, "done")
       /\ UNCHANGED <<approval, execution, idem, request, world>>

\* Mutant: the execution row is forgotten.
FinishOnlyProposal(q, pc, end, type) ==
    LET p == Target(q)
    IN /\ task[q] = pc
       /\ status' = IF status[p] = "executing" THEN Set(status, p, end) ELSE status
       /\ Record(p, <<type>>)
       /\ Goto(q, "done")
       /\ UNCHANGED <<approval, execution, verification, idem, request, world>>

\* _finish_execution_terminal: two conditional UPDATEs whose results are not
\* looked at, and the event.  A queued execution is left queued.
Finish(q, pc, end, type) ==
    LET p == Target(q)
    IN /\ task[q] = pc
       /\ execution' = IF execution[p] = "running" THEN Set(execution, p, end) ELSE execution
       /\ status' = IF status[p] = "executing" THEN Set(status, p, end) ELSE status
       /\ Record(p, <<type>>)
       /\ Goto(q, "done")
       /\ UNCHANGED <<approval, verification, idem, request, world>>

FinishBlocked(q) == Finish(q, "blocking", "blocked", "action_blocked")
FinishFailed(q) == Finish(q, "failing", "failed", "action_failed")

-----------------------------------------------------------------------------
(* Faults *)

\* The process restarts, perhaps with another action_mode.  A statement in
\* flight ends either way; nothing at start-up looks for executing proposals.
Restart ==
    /\ faults < MaxFaults
    /\ faults' = faults + 1
    /\ armed' \in BOOLEAN
    /\ index' \in IF index = "building" THEN {"absent", "invalid", "valid"} ELSE {index}
    /\ task' = [q \in Requests |-> IF task[q] \in {"none", "done"} THEN task[q] ELSE "lost"]
    /\ request' = [q \in Requests |->
                     IF request[q].pc \in {"idle", "answered"} THEN request[q]
                     ELSE [pc |-> "answered", cmd |-> request[q].cmd, answer |-> "lost"]]
    /\ UNCHANGED <<rows, due, writes>>

\* A transaction of the task fails: the exception leaves execute.
TaskWriteFails(q) ==
    /\ faults < MaxFaults
    /\ faults' = faults + 1
    /\ task[q] \in {"claiming", "written", "recorded", "passed", "refuted", "blocking", "failing"}
    /\ Goto(q, "lost")
    /\ UNCHANGED <<rows, request, due, index, writes, armed>>

\* The route fails after the commit and the background task is dropped.
ResponseFails(q) ==
    /\ faults < MaxFaults
    /\ faults' = faults + 1
    /\ request[q].pc = "accepted"
    /\ Answer(q, "lost")
    /\ UNCHANGED <<rows, task, due, index, writes, armed>>

\* A person drops an invalid index: the system never does.
Cleanup ==
    /\ index = "invalid"
    /\ index' = "absent"
    /\ UNCHANGED <<rows, request, task, due, writes, armed, faults>>

-----------------------------------------------------------------------------
RequestStep(q) ==
    \/ \E cmd \in Command : Submit(q, cmd)
    \/ ReadRequest(q)
    \/ DecideCommit(q)  \/ DecideLost(q)
    \/ ConfirmCommit(q) \/ ConfirmLost(q)
    \/ ExpireCommit(q)
    \/ Schedule(q)

TaskStep(q) ==
    \/ ClaimRead(q) \/ ClaimCommit(q) \/ Inspect(q) \/ Send(q) \/ WriteEnds(q)
    \/ RecordSuccess(q) \/ StartVerification(q) \/ Verify(q)
    \/ FinishVerified(q) \/ FinishRefuted(q) \/ FinishBlocked(q) \/ FinishFailed(q)

Fault ==
    \/ Restart
    \/ \E q \in Requests : TaskWriteFails(q) \/ ResponseFails(q)

Next ==
    \/ \E p \in Proposals : Propose(p) \/ Lapse(p)
    \/ \E q \in Requests : RequestStep(q) \/ TaskStep(q)
    \/ Fault
    \/ Cleanup

Spec == Init /\ [][Next]_vars
-----------------------------------------------------------------------------
(* Properties *)

\* The four tables tell one story whatever requests, tasks and faults did:
\* a proposal's status fixes which approval, execution and verification exist.
RowsAgree(p) ==
    LET a == approval[p]  e == execution[p]  v == verification[p]
    IN /\ status[p] \in {"absent", "pending_approval"} => a = "none" /\ e = "none" /\ v = "none"
       /\ status[p] = "rejected" => a = "reject" /\ e = "none" /\ v = "none"
       /\ status[p] \in {"approved", "expired"} => a = "approve" /\ e = "none" /\ v = "none"
       /\ status[p] = "executing" =>
            a = "approve" /\ e \in {"queued", "running", "succeeded"} /\ v = "none"
       /\ status[p] = "verifying" => a = "approve" /\ e = "succeeded" /\ v = "none"
       /\ status[p] = "verified" => a = "approve" /\ e = "succeeded" /\ v = "verified"
       /\ status[p] = "blocked" => a = "approve" /\ e = "blocked" /\ v = "none"
       /\ status[p] = "failed" =>
            /\ a = "approve"
            /\ \/ e \in {"queued", "failed"} /\ v = "none"
               \/ e = "succeeded" /\ v = "failed"
StatusesAgree == \A p \in Proposals : RowsAgree(p)

\* Proposal, approval, execution and verification can be read together at any
\* moment: each is well formed and none contradicts another.
TablesAgree == TypeOK /\ StatusesAgree

\* The change statement is sent at most once for a proposal, whatever mix of
\* confirmations, replays, tasks and restarts it meets: nothing retries it.
WrittenAtMostOnce == \A p \in Proposals : writes[p] <= 1

\* A key is stored for an accepted decision or confirmation and for nothing
\* else: one approval key per decided proposal, one execution key per execution.
KeysMatchRows ==
    \A p \in Proposals :
        /\ \A a, b \in idem : a.proposal = p /\ b.proposal = p /\ a.endpoint = b.endpoint => a = b
        /\ \A a \in idem : a.endpoint = "approval" /\ a.proposal = p => a.decision = approval[p]
        /\ approval[p] # "none" => \E a \in idem : a.endpoint = "approval" /\ a.proposal = p
        /\ execution[p] # "none" <=> \E a \in idem : a.endpoint = "execution" /\ a.proposal = p

\* The events of a proposal's life, in their order.
StoryOrder ==
    <<"proposal_created", "approval_recorded", "execution_requested", "execution_started",
      "precondition_checked", "execution_completed", "verification_started",
      "verification_completed", "action_blocked", "action_failed">>

\* The events a proposal with these rows must have.
Owed(p) ==
    {type \in EventTypes :
       \/ type = "proposal_created" /\ status[p] # "absent"
       \/ type = "approval_recorded" /\ approval[p] # "none"
       \/ type = "execution_requested" /\ execution[p] # "none"
       \/ type = "execution_started" /\ execution[p] \notin {"none", "queued"}
       \/ type \in {"precondition_checked", "execution_completed"} /\ execution[p] = "succeeded"
       \/ type = "verification_started" /\ (status[p] = "verifying" \/ verification[p] # "none")
       \/ type = "verification_completed" /\ status[p] = "verified"
       \/ type = "action_blocked" /\ status[p] = "blocked"
       \/ type = "action_failed" /\ status[p] = "failed"}

\* The trail, its notices of an expired approval aside, has the events that are
\* owed and no others, each once and after none that should follow it.
Tells(events, owed) ==
    /\ \A type \in owed : \E n \in 1 .. Len(events) : events[n] = type
    /\ \A n \in 1 .. Len(events) : events[n] \in owed \cup {"approval_expired"}
    /\ \A n \in 1 .. Len(events), k \in 1 .. Len(StoryOrder) :
          events[n] = StoryOrder[k] =>
             \A m \in 1 .. n - 1, j \in k .. Len(StoryOrder) : events[m] # StoryOrder[j]

\* The audit trail of a proposal is the story its rows tell: every commit writes
\* both, in the same order.
TrailTellsTheStory == \A p \in Proposals : Tells(trail[p], Owed(p))

\* An expired proposal has its notice.
ExpiryIsNoticed ==
    \A p \in Proposals :
        status[p] = "expired" => \E n \in 1 .. Len(trail[p]) : trail[p][n] = "approval_expired"

\* Proposals share the one index of the target.  Two that are executed at once
\* both may find it missing, but only the one whose statement built the index
\* is reported verified.
OneProposalVerified ==
    \A p, r \in Proposals : status[p] = "verified" /\ status[r] = "verified" => p = r

\* What was decided and done can be told afterwards from the keys and the audit
\* trail alone, whatever was retried, lost or refused in between, and what is
\* reported verified was done by that proposal.
ReportsAreTrue ==
    /\ KeysMatchRows
    /\ TrailTellsTheStory
    /\ ExpiryIsNoticed
    /\ OneProposalVerified

\* The proposal as the operator sees it, and the statements the target saw.
Promise == INSTANCE ActionPromise WITH
    phase <- status, written <- [p \in Proposals |-> writes[p] > 0]

\* The loop implements ActionPromise.
KeepsThePromise == Promise!Spec

\* The requests and tasks that still take the execution of p on.
AtWork(p) ==
    {q \in Requests :
       /\ request[q].cmd # NoCommand /\ Target(q) = p
       /\ request[q].pc = "accepted" \/ task[q] \notin {"none", "done", "lost"}}

\* execute: every outcome of the executor, a lost UPDATE and a replayed or rival
\* confirmation included, leads on to a persisted end.  Unless a fault strands
\* it, a proposal that is executing or verifying has the one task that ends it,
\* and a proposal that is not has none.
ExecutionsAreAtWork ==
    faults = 0 =>
        \A p \in Proposals :
            /\ status[p] \in {"executing", "verifying"} => \E q \in Requests : AtWork(p) = {q}
            /\ status[p] \notin {"executing", "verifying"} => AtWork(p) = {}
=============================================================================

---------------------------- MODULE RunLifecycle ----------------------------
(***************************************************************************)
(* A Run from its acceptance to its end: application/services.py over      *)
(* infrastructure/persistence/repositories.py, called from the create,     *)
(* rerun and cancel routes of api/v1/routes.py and from the in-process     *)
(* background task that executes the Run.                                  *)
(*                                                                         *)
(* Each short database transaction of the code is one action or two.  The  *)
(* store (SQLite with autocommitted reads, or PostgreSQL READ COMMITTED)   *)
(* lets another transaction commit between a read and the conditional      *)
(* UPDATE that follows it, so a transaction that decides on what it read   *)
(* is split there; the UPDATE takes the row, so everything from it to the  *)
(* commit is one step.  A rolled-back transaction changes nothing.         *)
(***************************************************************************)
EXTENDS Naturals, FiniteSets

CONSTANTS
    DiagnosisRuns,  \* identifiers of Runs of kind diagnosis
    MainRuns,       \* identifiers of Runs of kind main_agent
    NoRun,          \* "no Run yet"
    Requests,       \* POST requests that create or rerun a Run
    Cancels,        \* POST requests that cancel a Run
    Keys,           \* Idempotency-Key header values
    Queries,        \* questions a create request may carry
    MaxEvents,      \* bound: process events one execution emits
    MaxFaults       \* bound: restarts and failing writes in a behaviour

Runs == DiagnosisRuns \cup MainRuns

ASSUME RunsAssumption ==
    /\ DiagnosisRuns \cap MainRuns = {}
    /\ NoRun \notin Runs
    /\ Runs \cap Queries = {}
ASSUME BoundsAssumption == MaxEvents \in Nat /\ MaxFaults \in Nat

VARIABLES
    status,     \* status[r]: DiagnosisRunRecord.status, "absent" before the insert
    nextSeq,    \* nextSeq[r]: DiagnosisRunRecord.next_event_sequence
    events,     \* events[r]: the RunEventRecord rows of r, as [seq, type]
    replies,    \* replies[r]: Result/delivery rows of r, each with its assistant message
    idem,       \* the RunIdempotencyKeyRecord rows, as [cmd, run]
    request,    \* request[q]: where an accepting request is
    cancel,     \* cancel[k]: where a cancelling request is
    task,       \* task[r]: where the background task of r is
    faults      \* restarts and failing writes so far

dbVars == <<status, nextSeq, events, replies, idem>>
vars == <<status, nextSeq, events, replies, idem, request, cancel, task, faults>>

-----------------------------------------------------------------------------
(* Values *)

Terminal == {"succeeded", "failed", "cancelled"}
Live == {"queued", "running"}
Status == {"absent"} \cup Live \cup Terminal

TerminalEvents == {"run_succeeded", "run_failed", "run_cancelled"}
EventTypes == {"run_queued", "run_started", "process"} \cup TerminalEvents

\* The terminal event a terminal status is announced with.
TerminalEventOf(s) ==
    IF s = "succeeded" THEN "run_succeeded"
    ELSE IF s = "failed" THEN "run_failed" ELSE "run_cancelled"

KindOf(r) == IF r \in MainRuns THEN "main_agent" ELSE "diagnosis"

\* What a request asks for.  The content of a create is its question; the
\* content of a rerun is the Run it repeats.  The stored fingerprint hashes
\* the kind and the content, so a stored command stands for both.
Command ==
    [endpoint : {"create"}, key : Keys, kind : {"diagnosis", "main_agent"}, content : Queries]
      \cup
    [endpoint : {"rerun"}, key : Keys, kind : {"diagnosis", "main_agent"}, content : Runs]
NoCommand == [endpoint |-> "none"]

Answers == {"none", "created", "replayed", "key_reused", "not_terminal", "lost"}
RequestPcs == {"idle", "reading", "inserting", "conflict", "accepted", "answered"}
CancelPcs == {"idle", "cancelling", "answered"}
CancelAnswers == {"none", "ok", "already_terminal", "lost"}
TaskPcs == {"none", "scheduled", "claiming", "streaming", "checked",
            "succeeding", "erring", "failing", "done", "lost"}

\* Unique key of RunIdempotencyKeyRecord (the models have one session).
SameScope(a, b) == a.endpoint = b.endpoint /\ a.key = b.key
SameFingerprint(a, b) == a.kind = b.kind /\ a.content = b.content

TypeOK ==
    /\ status \in [Runs -> Status]
    /\ nextSeq \in [Runs -> Nat \ {0}]
    /\ events \in [Runs -> SUBSET [seq : Nat, type : EventTypes]]
    /\ replies \in [Runs -> Nat]
    /\ idem \subseteq [cmd : Command, run : Runs]
    /\ request \in [Requests -> [pc : RequestPcs, cmd : Command \cup {NoCommand},
                                 run : Runs \cup {NoRun}, answer : Answers]]
    /\ \A q \in Requests : request[q].pc # "idle" => request[q].cmd \in Command
    /\ cancel \in [Cancels -> [pc : CancelPcs, run : Runs \cup {NoRun},
                               answer : CancelAnswers]]
    /\ \A k \in Cancels : cancel[k].pc # "idle" => cancel[k].run \in Runs
    /\ task \in [Runs -> TaskPcs]
    /\ faults \in Nat

Init ==
    /\ status = [r \in Runs |-> "absent"]
    /\ nextSeq = [r \in Runs |-> 1]
    /\ events = [r \in Runs |-> {}]
    /\ replies = [r \in Runs |-> 0]
    /\ idem = {}
    /\ request = [q \in Requests |->
                    [pc |-> "idle", cmd |-> NoCommand, run |-> NoRun, answer |-> "none"]]
    /\ cancel = [k \in Cancels |-> [pc |-> "idle", run |-> NoRun, answer |-> "none"]]
    /\ task = [r \in Runs |-> "none"]
    /\ faults = 0

-----------------------------------------------------------------------------
(* The repository operations the transactions are made of *)

\* Mutant: the counter is read and never written back.
AppendEventUnreserved(r, type) ==
    /\ events' = [events EXCEPT ![r] = @ \cup {[seq |-> nextSeq[r], type |-> type]}]
    /\ UNCHANGED nextSeq

\* Mutant: the number below the reserved one is written back.
AppendEventCountingDown(r, type) ==
    /\ events' = [events EXCEPT ![r] = @ \cup {[seq |-> nextSeq[r], type |-> type]}]
    /\ nextSeq' = [nextSeq EXCEPT ![r] = @ - 1]

\* _append_event_in_transaction: reserve the next sequence number and insert.
AppendEvent(r, type) ==
    /\ events' = [events EXCEPT ![r] = @ \cup {[seq |-> nextSeq[r], type |-> type]}]
    /\ nextSeq' = [nextSeq EXCEPT ![r] = @ + 1]

\* transition_status took effect, with the event its transaction appends.
MoveTo(r, new, type) ==
    /\ status' = [status EXCEPT ![r] = new]
    /\ AppendEvent(r, type)

\* Mutants: an UPDATE whose WHERE clause only names the Run, or too many statuses.
MayClaimAny(r) == status[r] # "absent"
MayFailAny(r) == status[r] # "absent"
MayCancelUnlessCancelled(r) == status[r] # "cancelled"
MayReserveAny(r) == status[r] # "absent"

\* The WHERE clause of each conditional UPDATE of the status.
MayClaim(r) == status[r] = "queued"
MaySucceed(r) == status[r] = "running"
MayFail(r) == status[r] \in Live
MayCancel(r) == status[r] \in Live
\* The WHERE clause of reserve_running_event_sequence.
MayReserve(r) == status[r] = "running"

Goto(r, pc) == task' = [task EXCEPT ![r] = pc]

ProcessEvents(r) == {e \in events[r] : e.type = "process"}

-----------------------------------------------------------------------------
(* Accepting: accept_run, accept_main_agent_run, rerun_run *)

\* The request goes on, keeping its command.
Proceed(q, pc, r, answer) ==
    request' = [request EXCEPT ![q] =
                  [pc |-> pc, cmd |-> request[q].cmd, run |-> r, answer |-> answer]]
Answer(q, answer, r) == Proceed(q, "answered", r, answer)

Submit(q, cmd) ==
    /\ request[q].pc = "idle"
    /\ cmd.endpoint = "rerun" =>
         status[cmd.content] # "absent" /\ cmd.kind = KindOf(cmd.content)
    /\ request' = [request EXCEPT ![q] =
                     [pc |-> "reading", cmd |-> cmd, run |-> NoRun, answer |-> "none"]]
    /\ UNCHANGED <<dbVars, cancel, task, faults>>

\* Mutant: the fingerprint is not compared.
AnswerFromKeyUnchecked(q, row) == Answer(q, "replayed", row.run)

\* Mutant: a Run found by its key is treated as newly accepted.
AnswerFromKeyAsNew(q, row) ==
    IF SameFingerprint(row.cmd, request[q].cmd)
      THEN Proceed(q, "accepted", row.run, "none")
      ELSE Answer(q, "key_reused", NoRun)

\* A stored key answers the request: with its Run, or with a conflict when it
\* was stored for something else.
AnswerFromKey(q, row) ==
    IF SameFingerprint(row.cmd, request[q].cmd)
      THEN Answer(q, "replayed", row.run)
      ELSE Answer(q, "key_reused", NoRun)

\* Mutant: the original of a rerun is not looked at.
AcceptReadUnchecked(q) ==
    /\ request[q].pc = "reading"
    /\ LET rows == {row \in idem : SameScope(row.cmd, request[q].cmd)}
       IN \/ \E row \in rows : AnswerFromKey(q, row)
          \/ rows = {} /\ Proceed(q, "inserting", NoRun, "none")
    /\ UNCHANGED <<dbVars, cancel, task, faults>>

\* The reads of the accepting transaction: a rerun needs an ended original,
\* a stored key ends the request, anything else goes on to the inserts.
AcceptRead(q) ==
    /\ request[q].pc = "reading"
    /\ LET cmd == request[q].cmd
           rejected == cmd.endpoint = "rerun" /\ status[cmd.content] \notin Terminal
           rows == {row \in idem : SameScope(row.cmd, cmd)}
       IN \/ rejected /\ Answer(q, "not_terminal", NoRun)
          \/ ~rejected /\ \E row \in rows : AnswerFromKey(q, row)
          \/ /\ ~rejected /\ rows = {}
             /\ Proceed(q, "inserting", NoRun, "none")
    /\ UNCHANGED <<dbVars, cancel, task, faults>>

\* Mutant: no unique constraint on the scope of a key.
AcceptCommitNotUnique(q, r) ==
    /\ request[q].pc = "inserting"
    /\ status[r] = "absent" /\ KindOf(r) = request[q].cmd.kind
    /\ status' = [status EXCEPT ![r] = "queued"]
    /\ AppendEvent(r, "run_queued")
    /\ idem' = idem \cup {[cmd |-> request[q].cmd, run |-> r]}
    /\ Proceed(q, "accepted", r, "none")
    /\ UNCHANGED <<replies, cancel, task, faults>>

\* The inserts and the commit: message, Run, key and run_queued together.
AcceptCommit(q, r) ==
    /\ request[q].pc = "inserting"
    /\ status[r] = "absent" /\ KindOf(r) = request[q].cmd.kind
    /\ ~\E row \in idem : SameScope(row.cmd, request[q].cmd)
    /\ status' = [status EXCEPT ![r] = "queued"]
    /\ AppendEvent(r, "run_queued")
    /\ idem' = idem \cup {[cmd |-> request[q].cmd, run |-> r]}
    /\ Proceed(q, "accepted", r, "none")
    /\ UNCHANGED <<replies, cancel, task, faults>>

\* The unique constraint rejects the inserts: IntegrityError, rollback.
AcceptConflict(q) ==
    /\ request[q].pc = "inserting"
    /\ \E row \in idem : SameScope(row.cmd, request[q].cmd)
    /\ Proceed(q, "conflict", NoRun, "none")
    /\ UNCHANGED <<dbVars, cancel, task, faults>>

\* _load_idempotency_after_conflict: reread the key in a new transaction.
AcceptReread(q) ==
    /\ request[q].pc = "conflict"
    /\ \E row \in idem : SameScope(row.cmd, request[q].cmd) /\ AnswerFromKey(q, row)
    /\ UNCHANGED <<dbVars, cancel, task, faults>>

\* The route answers 202 and the background task starts after the response.
\* A replayed request never gets here.
Schedule(q) ==
    /\ request[q].pc = "accepted"
    /\ Answer(q, "created", request[q].run)
    /\ Goto(request[q].run, "scheduled")
    /\ UNCHANGED <<dbVars, cancel, faults>>

-----------------------------------------------------------------------------
(* Executing: execute_run in a background task *)

\* _claim_run reads the Run; one that is no longer queued is left alone.
ClaimRead(r) ==
    /\ task[r] = "scheduled"
    /\ Goto(r, IF status[r] = "queued" THEN "claiming" ELSE "done")
    /\ UNCHANGED <<dbVars, request, cancel, faults>>

\* The conditional UPDATE of _claim_run, with run_started.
ClaimCommit(r) ==
    /\ task[r] = "claiming"
    /\ MayClaim(r)
    /\ MoveTo(r, "running", "run_started")
    /\ Goto(r, "streaming")
    /\ UNCHANGED <<replies, idem, request, cancel, faults>>

\* The UPDATE matched no row: reread, and leave the Run alone.
ClaimLost(r) ==
    /\ task[r] = "claiming"
    /\ ~MayClaim(r)
    /\ Goto(r, "done")
    /\ UNCHANGED <<dbVars, request, cancel, faults>>

\* Mutant: no cancellation check point.
LegacyCheckSkipped(r) ==
    /\ r \in DiagnosisRuns
    /\ task[r] = "streaming"
    /\ Cardinality(ProcessEvents(r)) < MaxEvents
    /\ Goto(r, "checked")
    /\ UNCHANGED <<dbVars, request, cancel, faults>>

\* _execute_legacy: an event arrives from the stream and _is_cancelled is
\* read in a session of its own.
LegacyCheck(r) ==
    /\ r \in DiagnosisRuns
    /\ task[r] = "streaming"
    /\ Cardinality(ProcessEvents(r)) < MaxEvents
    /\ Goto(r, IF status[r] = "cancelled" THEN "done" ELSE "checked")
    /\ UNCHANGED <<dbVars, request, cancel, faults>>

\* _append_event: its transaction looks at nothing but the sequence counter.
LegacyAppend(r) ==
    /\ task[r] = "checked"
    /\ AppendEvent(r, "process")
    /\ Goto(r, "streaming")
    /\ UNCHANGED <<status, replies, idem, request, cancel, faults>>

\* _execute_typed: _append_execution_event reserves the number and tests the
\* status in one UPDATE.
TypedAppend(r) ==
    /\ r \in MainRuns
    /\ task[r] = "streaming"
    /\ Cardinality(ProcessEvents(r)) < MaxEvents
    /\ MayReserve(r)
    /\ AppendEvent(r, "process")
    /\ UNCHANGED <<status, replies, idem, request, cancel, task, faults>>

\* The UPDATE matched no row: stop consuming the stream.
TypedStop(r) ==
    /\ r \in MainRuns
    /\ task[r] = "streaming"
    /\ ~MayReserve(r)
    /\ Goto(r, "done")
    /\ UNCHANGED <<dbVars, request, cancel, faults>>

\* The stream ends with a result or a delivery; _complete_success and
\* _complete_main_success read the Run and return when it has ended.
SuccessRead(r) ==
    /\ task[r] = "streaming"
    /\ Goto(r, IF status[r] \in Terminal THEN "done" ELSE "succeeding")
    /\ UNCHANGED <<dbVars, request, cancel, faults>>

\* Result or delivery, assistant message, status and run_succeeded together.
SuccessCommit(r) ==
    /\ task[r] = "succeeding"
    /\ MaySucceed(r)
    /\ MoveTo(r, "succeeded", "run_succeeded")
    /\ replies' = [replies EXCEPT ![r] = @ + 1]
    /\ Goto(r, "done")
    /\ UNCHANGED <<idem, request, cancel, faults>>

\* Mutant: result and message are committed before the status is tested.
SuccessLostKeepsReply(r) ==
    /\ task[r] = "succeeding"
    /\ ~MaySucceed(r)
    /\ replies' = [replies EXCEPT ![r] = @ + 1]
    /\ Goto(r, "erring")
    /\ UNCHANGED <<status, nextSeq, events, idem, request, cancel, faults>>

\* The UPDATE matched no row: RunAlreadyTerminalError rolls the inserts back
\* and the handler of execute_run goes on to _complete_failure.
SuccessLost(r) ==
    /\ task[r] = "succeeding"
    /\ ~MaySucceed(r)
    /\ Goto(r, "erring")
    /\ UNCHANGED <<dbVars, request, cancel, faults>>

\* A failure signal, or an exception anywhere in the claim, the stream or a
\* completion (a bad input, an unsafe delivery, a failing write): the
\* transaction is rolled back and execute_run goes on to _complete_failure.
Raise(r) ==
    /\ task[r] \in {"claiming", "streaming", "checked", "succeeding"}
    /\ Goto(r, "erring")
    /\ UNCHANGED <<dbVars, request, cancel, faults>>

\* Mutant: only a running Run is failed, so a failed claim leaves it queued.
FailureReadRunningOnly(r) ==
    /\ task[r] = "erring"
    /\ Goto(r, IF status[r] = "running" THEN "failing" ELSE "done")
    /\ UNCHANGED <<dbVars, request, cancel, faults>>

\* _complete_failure reads the Run and returns when it has ended.
FailureRead(r) ==
    /\ task[r] = "erring"
    /\ Goto(r, IF status[r] \in Terminal THEN "done" ELSE "failing")
    /\ UNCHANGED <<dbVars, request, cancel, faults>>

FailureCommit(r) ==
    /\ task[r] = "failing"
    /\ MayFail(r)
    /\ MoveTo(r, "failed", "run_failed")
    /\ Goto(r, "done")
    /\ UNCHANGED <<replies, idem, request, cancel, faults>>

\* The UPDATE matched no row: RunAlreadyTerminalError ends the task.
FailureLost(r) ==
    /\ task[r] = "failing"
    /\ ~MayFail(r)
    /\ Goto(r, "done")
    /\ UNCHANGED <<dbVars, request, cancel, faults>>

-----------------------------------------------------------------------------
(* Cancelling: cancel_run *)

AnswerCancel(k, r, answer) ==
    cancel' = [cancel EXCEPT ![k] = [pc |-> "answered", run |-> r, answer |-> answer]]

CancelRead(k, r) ==
    /\ cancel[k].pc = "idle"
    /\ status[r] # "absent"
    /\ \/ status[r] \in {"succeeded", "failed"} /\ AnswerCancel(k, r, "already_terminal")
       \/ status[r] = "cancelled" /\ AnswerCancel(k, r, "ok")
       \/ /\ status[r] \in Live
          /\ cancel' = [cancel EXCEPT ![k] = [pc |-> "cancelling", run |-> r, answer |-> "none"]]
    /\ UNCHANGED <<dbVars, request, task, faults>>

CancelCommit(k) ==
    LET r == cancel[k].run
    IN /\ cancel[k].pc = "cancelling"
       /\ MayCancel(r)
       /\ MoveTo(r, "cancelled", "run_cancelled")
       /\ AnswerCancel(k, r, "ok")
       /\ UNCHANGED <<replies, idem, request, task, faults>>

\* The UPDATE matched no row: RunAlreadyTerminalError, whatever ended the Run.
CancelLost(k) ==
    /\ cancel[k].pc = "cancelling"
    /\ ~MayCancel(cancel[k].run)
    /\ AnswerCancel(k, cancel[k].run, "already_terminal")
    /\ UNCHANGED <<dbVars, request, task, faults>>

-----------------------------------------------------------------------------
(* Faults *)

\* The process restarts: tasks and requests in flight are gone, committed
\* rows stay, and nothing at start-up looks for queued or running Runs.
Restart ==
    /\ faults < MaxFaults
    /\ faults' = faults + 1
    /\ task' = [r \in Runs |->
                  IF task[r] \in {"none", "done"} THEN task[r] ELSE "lost"]
    /\ request' = [q \in Requests |->
                     IF request[q].pc \in {"idle", "answered"} THEN request[q]
                     ELSE [pc |-> "answered", cmd |-> request[q].cmd,
                           run |-> request[q].run, answer |-> "lost"]]
    /\ cancel' = [k \in Cancels |->
                    IF cancel[k].pc = "cancelling"
                      THEN [pc |-> "answered", run |-> cancel[k].run, answer |-> "lost"]
                      ELSE cancel[k]]
    /\ UNCHANGED dbVars

\* The read of _run_response after the commit raises: the route answers with
\* an error and FastAPI drops the background task it had been given.
ResponseFails(q) ==
    /\ faults < MaxFaults
    /\ faults' = faults + 1
    /\ request[q].pc = "accepted"
    /\ Answer(q, "lost", request[q].run)
    /\ UNCHANGED <<dbVars, cancel, task>>

\* The database refuses the writes of _complete_failure: the exception leaves
\* execute_run and the task ends.
FailureWriteFails(r) ==
    /\ faults < MaxFaults
    /\ faults' = faults + 1
    /\ task[r] = "failing"
    /\ Goto(r, "lost")
    /\ UNCHANGED <<dbVars, request, cancel>>

-----------------------------------------------------------------------------
AcceptStep(q) ==
    \/ \E cmd \in Command : Submit(q, cmd)
    \/ AcceptRead(q)
    \/ \E r \in Runs : AcceptCommit(q, r)
    \/ AcceptConflict(q)
    \/ AcceptReread(q)
    \/ Schedule(q)

ExecuteStep(r) ==
    \/ ClaimRead(r)    \/ ClaimCommit(r)   \/ ClaimLost(r)
    \/ LegacyCheck(r)  \/ LegacyAppend(r)  \/ TypedAppend(r)  \/ TypedStop(r)
    \/ SuccessRead(r)  \/ SuccessCommit(r) \/ SuccessLost(r)
    \/ Raise(r)        \/ FailureRead(r)   \/ FailureCommit(r) \/ FailureLost(r)

CancelStep(k) ==
    \/ \E r \in Runs : CancelRead(k, r)
    \/ CancelCommit(k)
    \/ CancelLost(k)

Fault ==
    \/ Restart
    \/ \E q \in Requests : ResponseFails(q)
    \/ \E r \in Runs : FailureWriteFails(r)

Next ==
    \/ \E q \in Requests : AcceptStep(q)
    \/ \E r \in Runs : ExecuteStep(r)
    \/ \E k \in Cancels : CancelStep(k)
    \/ Fault

Spec == Init /\ [][Next]_vars

\* A background task keeps running, and an accepted request gets its response;
\* no user is obliged to send anything.
Fairness ==
    /\ \A r \in Runs : WF_vars(ExecuteStep(r))
    /\ \A q \in Requests : WF_vars(Schedule(q))

FairSpec == Spec /\ Fairness
-----------------------------------------------------------------------------
(* Properties *)

EndsIn(r) == {e \in events[r] : e.type \in TerminalEvents}

\* The event log of a Run is numbered 1, 2, 3, ... without a gap or a repeat
\* whoever appends to it: _append_event_in_transaction and
\* _append_execution_event, from the task and from a cancelling request.
LogIsNumbered ==
    \A r \in Runs :
        /\ \A e \in events[r] : e.seq \in 1 .. (nextSeq[r] - 1)
        /\ \A n \in 1 .. (nextSeq[r] - 1) : \E e \in events[r] : e.seq = n
        /\ \A e, f \in events[r] : e.seq = f.seq => e = f

\* A Run has ended exactly when its log announces an end, and then it announces
\* that end and no other, once: of the task's success, its failure and any
\* number of cancels, one conditional UPDATE of the status wins.
EndIsAnnouncedOnce ==
    \A r \in Runs :
        /\ \A e, f \in EndsIn(r) : e = f
        /\ \A e \in EndsIn(r) : status[r] \in Terminal /\ e.type = TerminalEventOf(status[r])
        /\ status[r] \in Terminal => EndsIn(r) # {}

\* Result or delivery and assistant message appear together with success and
\* never otherwise; a completion that lost against a cancel leaves none.
ReplyIffSucceeded ==
    \A r \in Runs : replies[r] = IF status[r] = "succeeded" THEN 1 ELSE 0

\* An ended Run keeps its status, and a started one is never queued again:
\* late results, late failures and late cancels change nothing.
EndStays ==
    \A r \in Runs :
        /\ status[r] \in Terminal => status'[r] = status[r]
        /\ status[r] = "running" => status'[r] # "queued"
EndIsFinal == [][EndStays]_vars

Late(r) == {e \in events[r] : \E f \in EndsIn(r) : e.seq > f.seq}

\* The end of a main_agent Run is the last event of its log: TypedAppend tests
\* the status in the UPDATE that reserves the number.
MainLogEndsWithTheEnd == \A r \in MainRuns : Late(r) = {}

\* A diagnosis Run reads _is_cancelled before each event, so a cancel can be
\* overtaken by the one event that was past the check, and by no more.
AtMostOneLateEvent ==
    \A r \in DiagnosisRuns : \A e, f \in Late(r) : e = f

\* A reader can take the rows for the story of the Run: the log is well formed
\* and numbered, it announces the end the row has and no other, but for one
\* overtaken event of a diagnosis that end is its last word, and there is a
\* reply exactly when the end is a success.
RowsTellTheRun ==
    /\ TypeOK
    /\ LogIsNumbered
    /\ EndIsAnnouncedOnce
    /\ ReplyIffSucceeded
    /\ MainLogEndsWithTheEnd
    /\ AtMostOneLateEvent

\* A key admits one Run: create and rerun requests with the same scope and any
\* interleaving leave one row, each Run was admitted by one key, and no Run
\* exists without its key.
OneRunPerKey ==
    /\ \A a, b \in idem : SameScope(a.cmd, b.cmd) \/ a.run = b.run => a = b
    /\ \A r \in Runs : status[r] # "absent" <=> \E a \in idem : a.run = r

\* The Run a request is answered with was accepted for what the request asks,
\* whether it inserted the Run, found the key, or lost the race for it.
AnswerFitsQuestion ==
    \A q \in Requests :
        request[q].run # NoRun =>
            \E a \in idem : /\ a.run = request[q].run
                           /\ SameScope(a.cmd, request[q].cmd)
                           /\ SameFingerprint(a.cmd, request[q].cmd)

\* Only one request may start the background task of a Run: a replayed answer
\* never does, so no Run is executed twice.
StartedByOneRequest ==
    \A p, q \in Requests :
        /\ request[p].run # NoRun /\ request[p].run = request[q].run
        /\ {request[p].pc, request[q].pc} \subseteq {"accepted", "answered"}
        /\ "replayed" \notin {request[p].answer, request[q].answer}
        => p = q

\* A rerun is accepted only for a Run that had ended.
RerunsRepeatEndedRuns ==
    \A a \in idem : a.cmd.endpoint = "rerun" => status[a.cmd.content] \in Terminal

\* What a client may take from its idempotency key, whichever of its retries
\* came first and however they raced for the unique constraint: one Run, the
\* one it asked for, executed once, and a repetition only of what had ended.
KeysAreHonest ==
    /\ OneRunPerKey
    /\ AnswerFitsQuestion
    /\ StartedByOneRequest
    /\ RerunsRepeatEndedRuns

Announced(r) == {s \in Terminal : \E e \in events[r] : e.type = TerminalEventOf(s)}

\* The Run as its readers see it.
Promise == INSTANCE RunPromise WITH
    phase <- status,
    announced <- [r \in Runs |-> Announced(r)],
    replied <- replies

\* Requests, task, cancels and restarts together keep the promise of RunPromise.
KeepsThePromise == Promise!Spec

\* While nothing is lost to a restart or a failing write, every accepted Run
\* ends: the claim, the stream, a lost race with a cancel and every exception
\* lead to a terminal status.
AcceptedRunsEnd ==
    \A r \in Runs : status[r] = "queued" ~> (status[r] \in Terminal \/ faults > 0)
=============================================================================

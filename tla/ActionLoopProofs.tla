-------------------------- MODULE ActionLoopProofs --------------------------
(***************************************************************************)
(* ActionLoop for any number of proposals, requests, keys and faults.      *)
(***************************************************************************)
EXTENDS ActionLoop, SequenceTheorems, TLAPS

-----------------------------------------------------------------------------
(* Types *)

\* Events are appended to the trail of one proposal.
LEMMA RecordType ==
    ASSUME trail \in [Proposals -> Seq(EventTypes)],
           NEW p \in Proposals, NEW types \in Seq(EventTypes), Record(p, types)
    PROVE  trail' \in [Proposals -> Seq(EventTypes)]
<1>1. trail[p] \o types \in Seq(EventTypes)
  BY ConcatProperties
<1>2. QED
  BY <1>1 DEF Record

\* The events of every transaction are events.
LEMMA EventSequences ==
    /\ \A type \in EventTypes : <<type>> \in Seq(EventTypes)
    /\ <<"precondition_checked", "execution_completed">> \in Seq(EventTypes)
  BY DEF EventTypes

\* Every step keeps TypeOK.
LEMMA LoopTypeStep == TypeOK /\ [Next]_vars => TypeOK'
<1> USE DEF TypeOK, rows, world
<1> SUFFICES ASSUME TypeOK, [Next]_vars PROVE TypeOK'
  OBVIOUS
<1>1. ASSUME NEW p \in Proposals, Propose(p) \/ Lapse(p) PROVE TypeOK'
  <2>1. CASE Propose(p)
    <3>1. trail' \in [Proposals -> Seq(EventTypes)]
      BY <2>1, RecordType, EventSequences DEF Propose, EventTypes
    <3>2. QED
      BY <2>1, <3>1 DEF Propose, Set, Status
  <2>2. CASE Lapse(p)
    BY <2>2 DEF Lapse, Set
  <2>3. QED
    BY <1>1, <2>1, <2>2
<1>2. ASSUME NEW q \in Requests, RequestStep(q) PROVE TypeOK'
  <2> USE DEF Answer, Proceed, RequestPcs, Answers
  <2>1. ASSUME NEW cmd \in Command, Submit(q, cmd) PROVE TypeOK'
    BY <2>1 DEF Submit
  <2>2. CASE ReadRequest(q)
    <3>1. PICK pc \in RequestPcs, answer \in Answers :
            /\ request' = [request EXCEPT ![q] = [pc |-> pc, cmd |-> request[q].cmd, answer |-> answer]]
            /\ pc = "deciding" => request[q].cmd.endpoint = "approval"
      BY <2>2 DEF ReadRequest, AnswerFromKey
    <3>2. request[q].cmd \in Command /\ task[q] = "none" /\ UNCHANGED <<rows, task, world>>
      BY <2>2 DEF ReadRequest
    <3>3. request[q].cmd.endpoint = "approval" => request[q].cmd.decision # "none"
      BY <3>2 DEF Command
    <3>4. QED
      BY <3>1, <3>2, <3>3
  <2>3. CASE DecideCommit(q)
    <3>1. request[q].cmd \in Command /\ Target(q) \in Proposals
      BY <2>3 DEF DecideCommit, Target, Command
    <3>2. approval' \in [Proposals -> {"none", "approve", "reject"}]
      BY <2>3, <3>1 DEF DecideCommit, Set, Command
    <3>3. trail' \in [Proposals -> Seq(EventTypes)]
      BY <2>3, <3>1, RecordType, EventSequences DEF DecideCommit, EventTypes
    <3>4. QED
      BY <2>3, <3>1, <3>2, <3>3 DEF DecideCommit, Set, Status, Ended
  <2>4. CASE DecideLost(q) \/ ConfirmLost(q)
    <3>1. request[q].cmd \in Command /\ task[q] = "none"
      BY <2>4 DEF DecideLost, ConfirmLost
    <3>2. request' = [request EXCEPT ![q] =
                        [pc |-> "answered", cmd |-> request[q].cmd, answer |-> "invalid_state"]]
      BY <2>4 DEF DecideLost, ConfirmLost
    <3>3. UNCHANGED <<rows, task, world>>
      BY <2>4 DEF DecideLost, ConfirmLost
    <3>4. QED
      BY <3>1, <3>2, <3>3
  <2>5. CASE ConfirmCommit(q)
    <3>1. request[q].cmd \in Command /\ Target(q) \in Proposals
      BY <2>5 DEF ConfirmCommit, Target, Command
    <3>2. trail' \in [Proposals -> Seq(EventTypes)]
      BY <2>5, <3>1, RecordType, EventSequences DEF ConfirmCommit, EventTypes
    <3>3. QED
      BY <2>5, <3>1, <3>2 DEF ConfirmCommit, Set, Status
  <2>6. CASE ExpireCommit(q)
    <3>1. request[q].cmd \in Command /\ Target(q) \in Proposals
      BY <2>6 DEF ExpireCommit, Target, Command
    <3>2. trail' \in [Proposals -> Seq(EventTypes)]
      BY <2>6, <3>1, RecordType, EventSequences DEF ExpireCommit, EventTypes
    <3>3. QED
      BY <2>6, <3>1, <3>2 DEF ExpireCommit, Set, Status, Ended
  <2>7. CASE Schedule(q)
    BY <2>7 DEF Schedule, Goto, TaskPcs
  <2>8. QED
    BY <1>2, <2>1, <2>2, <2>3, <2>4, <2>5, <2>6, <2>7 DEF RequestStep
<1>3. ASSUME NEW q \in Requests, TaskStep(q) PROVE TypeOK'
  <2> USE DEF Goto, TaskPcs, Set, Status, Ended
  <2>1. task[q] # "none"
    BY <1>3 DEF TaskStep, ClaimRead, ClaimCommit, Inspect, Send, WriteEnds, RecordSuccess,
                StartVerification, Verify, FinishVerified, FinishRefuted, FinishBlocked,
                FinishFailed, Finish
  <2>2. request[q].pc = "answered" /\ Target(q) \in Proposals
    BY <2>1 DEF Target, Command
  <2>3. CASE ClaimRead(q) \/ Inspect(q) \/ Verify(q)
    <3>1. \E pc \in TaskPcs \ {"none"} : task' = [task EXCEPT ![q] = pc]
      BY <2>3 DEF ClaimRead, Inspect, Verify
    <3>2. UNCHANGED <<rows, request, world>>
      BY <2>3 DEF ClaimRead, Inspect, Verify
    <3>3. QED
      BY <2>2, <3>1, <3>2
  <2>4. CASE ClaimCommit(q)
    <3>1. trail' \in [Proposals -> Seq(EventTypes)]
      BY <2>2, <2>4, RecordType, EventSequences DEF ClaimCommit, EventTypes
    <3>2. QED
      BY <2>2, <2>4, <3>1 DEF ClaimCommit
  <2>5. CASE Send(q)
    <3>1. CASE task' = [task EXCEPT ![q] = "blocking"] /\ UNCHANGED <<index, writes>>
      BY <2>2, <2>5, <3>1 DEF Send
    <3>2. CASE /\ writes' = [writes EXCEPT ![Target(q)] = @ + 1]
               /\ index = "absent" /\ index' = "building"
               /\ task' = [task EXCEPT ![q] = "writing"]
      BY <2>2, <2>5, <3>2 DEF Send
    <3>3. CASE /\ writes' = [writes EXCEPT ![Target(q)] = @ + 1]
               /\ index' = index
               /\ task' = [task EXCEPT ![q] = "failing"]
      BY <2>2, <2>5, <3>3 DEF Send
    <3>4. QED
      BY <2>5, <3>1, <3>2, <3>3 DEF Send
  <2>6. CASE WriteEnds(q)
    <3>1. CASE index' = "valid" /\ task' = [task EXCEPT ![q] = "written"]
      BY <2>2, <2>6, <3>1 DEF WriteEnds
    <3>2. CASE index' \in {"absent", "invalid", "valid"} /\ task' = [task EXCEPT ![q] = "failing"]
      BY <2>2, <2>6, <3>2 DEF WriteEnds
    <3>3. QED
      BY <2>6, <3>1, <3>2 DEF WriteEnds
  <2>7. CASE RecordSuccess(q)
    <3>1. trail' \in [Proposals -> Seq(EventTypes)]
      BY <2>2, <2>7, RecordType, EventSequences DEF RecordSuccess, EventTypes
    <3>2. QED
      BY <2>2, <2>7, <3>1 DEF RecordSuccess
  <2>8. CASE StartVerification(q)
    <3>1. trail' \in [Proposals -> Seq(EventTypes)]
      BY <2>2, <2>8, RecordType, EventSequences DEF StartVerification, EventTypes
    <3>2. QED
      BY <2>2, <2>8, <3>1 DEF StartVerification
  <2>9. CASE FinishVerified(q)
    <3>1. trail' \in [Proposals -> Seq(EventTypes)]
      BY <2>2, <2>9, RecordType, EventSequences DEF FinishVerified, EventTypes
    <3>2. QED
      BY <2>2, <2>9, <3>1 DEF FinishVerified
  <2>10. CASE FinishRefuted(q)
    <3>1. trail' \in [Proposals -> Seq(EventTypes)]
      BY <2>2, <2>10, RecordType, EventSequences DEF FinishRefuted, EventTypes
    <3>2. QED
      BY <2>2, <2>10, <3>1 DEF FinishRefuted
  <2>11. CASE FinishBlocked(q)
    <3>1. trail' \in [Proposals -> Seq(EventTypes)]
      BY <2>2, <2>11, RecordType, EventSequences DEF FinishBlocked, Finish, EventTypes
    <3>2. QED
      BY <2>2, <2>11, <3>1 DEF FinishBlocked, Finish
  <2>12. CASE FinishFailed(q)
    <3>1. trail' \in [Proposals -> Seq(EventTypes)]
      BY <2>2, <2>12, RecordType, EventSequences DEF FinishFailed, Finish, EventTypes
    <3>2. QED
      BY <2>2, <2>12, <3>1 DEF FinishFailed, Finish
  <2>13. QED
    BY <1>3, <2>3, <2>4, <2>5, <2>6, <2>7, <2>8, <2>9, <2>10, <2>11, <2>12 DEF TaskStep
<1>4. CASE Restart
  BY <1>4 DEF Restart, TaskPcs, RequestPcs, Answers
<1>5. ASSUME NEW q \in Requests, TaskWriteFails(q) \/ ResponseFails(q) PROVE TypeOK'
  <2>1. CASE TaskWriteFails(q)
    BY <2>1 DEF TaskWriteFails, Goto, TaskPcs
  <2>2. CASE ResponseFails(q)
    BY <2>2 DEF ResponseFails, Answer, Proceed, RequestPcs, Answers
  <2>3. QED
    BY <1>5, <2>1, <2>2
<1>6. CASE Cleanup
  BY <1>6 DEF Cleanup
<1>7. CASE UNCHANGED vars
  BY <1>7 DEF vars
<1>8. QED
  BY <1>1, <1>2, <1>3, <1>4, <1>5, <1>6, <1>7 DEF Next, Fault

\* Whatever the constants, every reachable state has the types TypeOK lists.
THEOREM LoopTypeCorrect == Spec => []TypeOK
<1>1. Init => TypeOK
  BY DEF Init, TypeOK, Status, RequestPcs, Answers, TaskPcs, EventTypes
<1>2. QED
  BY <1>1, LoopTypeStep, PTL DEF Spec

-----------------------------------------------------------------------------
(* What a task may rely on *)

InFlight(q) == request[q].pc = "accepted" \/ task[q] # "none"

At(p, s, es, w) == status[p] = s /\ execution[p] \in es /\ writes[p] = w

\* The rows a request or task finds at its next step.  The failure paths only
\* need the proposal to be executing.
TaskFits(q) ==
    LET p == Target(q)
    IN /\ request[q].pc = "accepted" => At(p, "executing", {"queued"}, 0)
       /\ task[q] \in {"scheduled", "claiming"} => At(p, "executing", {"queued"}, 0)
       /\ task[q] \in {"claimed", "checked", "blocking"} => At(p, "executing", {"running"}, 0)
       /\ task[q] = "failing" => status[p] = "executing" /\ execution[p] \in {"queued", "running"}
       /\ task[q] \in {"writing", "written"} => At(p, "executing", {"running"}, 1)
       /\ task[q] = "recorded" => At(p, "executing", {"succeeded"}, 1)
       /\ task[q] \in {"verifying", "passed", "refuted"} => At(p, "verifying", {"succeeded"}, 1)

\* A proposal has one task, and it has one only after its execution was created.
OneTask ==
    /\ \A q \in Requests : InFlight(q) => execution[Target(q)] # "none"
    /\ \A q, r \in Requests : InFlight(q) /\ InFlight(r) /\ Target(q) = Target(r) => q = r

\* Nothing is written before the execution of a proposal is claimed.
WritesFit ==
    \A p \in Proposals :
        writes[p] <= 1 /\ (execution[p] \in {"none", "queued"} => writes[p] = 0)

\* The inductive invariant.
LoopInv ==
    /\ TypeOK
    /\ StatusesAgree
    /\ OneTask
    /\ \A q \in Requests : TaskFits(q)
    /\ WritesFit

Outside(p) ==
    \A r \in Proposals \ {p} :
        /\ status'[r] = status[r] /\ approval'[r] = approval[r] /\ execution'[r] = execution[r]
        /\ verification'[r] = verification[r] /\ writes'[r] = writes[r]

RowsUnchanged == UNCHANGED <<status, approval, execution, verification, writes>>

\* A step that leaves the rows alone, starts no task and leaves every task that
\* is under way where its rows fit.
LEMMA RowsStay ==
    ASSUME LoopInv, TypeOK', RowsUnchanged,
           \A q \in Requests : InFlight(q)' => InFlight(q) /\ Target(q)' = Target(q) /\ TaskFits(q)'
    PROVE  LoopInv'
<1> USE DEF LoopInv, RowsUnchanged
<1>1. StatusesAgree'
  BY DEF StatusesAgree, RowsAgree
<1>2. OneTask'
  BY DEF OneTask
<1>3. \A q \in Requests : TaskFits(q)'
  BY DEF TaskFits, InFlight
<1>4. WritesFit'
  BY DEF WritesFit
<1>5. QED
  BY <1>1, <1>2, <1>3, <1>4

\* A step that changes the rows of one proposal on behalf of the only request
\* that may be executing it, or before anyone is.
LEMMA OneProposalMoves ==
    ASSUME LoopInv, TypeOK', NEW p \in Proposals, NEW q \in Requests, Target(q)' = p,
           Outside(p),
           \A r \in Requests \ {q} : request'[r] = request[r] /\ task'[r] = task[r],
           \A r \in Requests \ {q} : InFlight(r) => Target(r) # p,
           InFlight(q)' => execution'[p] # "none",
           RowsAgree(p)', TaskFits(q)',
           writes'[p] <= 1, execution'[p] \in {"none", "queued"} => writes'[p] = 0
    PROVE  LoopInv'
<1> USE DEF LoopInv
<1>1. StatusesAgree'
  BY DEF StatusesAgree, RowsAgree, Outside
<1>2. \A r \in Requests \ {q} : (InFlight(r)' <=> InFlight(r)) /\ Target(r)' = Target(r)
  BY DEF InFlight, Target
<1>3. \A r \in Requests \ {q} : InFlight(r) => Target(r) \in Proposals \ {p}
  BY DEF InFlight, Target, TypeOK, Command
<1>4. OneTask'
  BY <1>2, <1>3 DEF OneTask, Outside
<1>5. ASSUME NEW r \in Requests \ {q} PROVE TaskFits(r)'
  <2>1. CASE InFlight(r)
    BY <1>2, <1>3, <2>1 DEF TaskFits, At, Outside
  <2>2. CASE ~InFlight(r)
    BY <1>2, <2>2 DEF TaskFits, InFlight
  <2>3. QED
    BY <2>1, <2>2
<1>6. \A r \in Requests : TaskFits(r)'
  BY <1>5
<1>7. WritesFit'
  BY DEF WritesFit, Outside
<1>8. QED
  BY <1>1, <1>4, <1>6, <1>7

\* The same, for a step of one request or task.
LEMMA RowsStayFor ==
    ASSUME LoopInv, TypeOK', RowsUnchanged, NEW q \in Requests,
           \A r \in Requests \ {q} : request'[r] = request[r] /\ task'[r] = task[r],
           InFlight(q)' => InFlight(q) /\ Target(q)' = Target(q) /\ TaskFits(q)'
    PROVE  LoopInv'
<1>1. ASSUME NEW r \in Requests \ {q}, InFlight(r)' PROVE InFlight(r) /\ Target(r)' = Target(r) /\ TaskFits(r)'
  BY <1>1 DEF InFlight, Target, TaskFits, At, RowsUnchanged, LoopInv
<1>2. QED
  BY <1>1, RowsStay

\* A decided or confirmed proposal was not being executed.
LEMMA NobodyExecutes ==
    ASSUME LoopInv, NEW q \in Requests, execution[Target(q)] = "none"
    PROVE  \A r \in Requests : InFlight(r) => Target(r) # Target(q)
BY DEF LoopInv, OneTask

\* A task is the only one of its proposal.
LEMMA TaskIsAlone ==
    ASSUME LoopInv, NEW q \in Requests, task[q] # "none"
    PROVE  /\ Target(q) \in Proposals
           /\ request[q].pc = "answered"
           /\ execution[Target(q)] # "none"
           /\ \A r \in Requests \ {q} : InFlight(r) => Target(r) # Target(q)
BY DEF LoopInv, OneTask, InFlight, TypeOK, Target, Command

-----------------------------------------------------------------------------
(* The invariant is inductive *)

\* What requests do.
LEMMA RequestStepKeeps ==
    ASSUME LoopInv, TypeOK', NEW q \in Requests, RequestStep(q)
    PROVE  LoopInv'
<1> USE DEF rows, world, Answer, Proceed
<1>1. ASSUME NEW cmd \in Command, Submit(q, cmd) PROVE LoopInv'
  BY <1>1, RowsStay DEF Submit, RowsUnchanged, InFlight, Target, TaskFits, At, LoopInv, TypeOK
<1>2. CASE ReadRequest(q)
  <2>1. PICK pc \in RequestPcs \ {"accepted"}, answer \in Answers :
          request' = [request EXCEPT ![q] = [pc |-> pc, cmd |-> request[q].cmd, answer |-> answer]]
    BY <1>2 DEF ReadRequest, AnswerFromKey, RequestPcs, Answers
  <2>2. request[q].pc = "reading" /\ UNCHANGED <<rows, task, world>>
    BY <1>2 DEF ReadRequest
  <2>3. task[q] = "none" /\ ~InFlight(q)'
    BY <2>1, <2>2 DEF InFlight, LoopInv, TypeOK
  <2>4. \A r \in Requests \ {q} : request'[r] = request[r] /\ task'[r] = task[r]
    BY <2>1, <2>2 DEF LoopInv, TypeOK
  <2>5. QED
    BY <2>2, <2>3, <2>4, RowsStayFor DEF RowsUnchanged
<1>3. CASE DecideLost(q) \/ ConfirmLost(q)
  <2>1. request' = [request EXCEPT ![q] =
                      [pc |-> "answered", cmd |-> request[q].cmd, answer |-> "invalid_state"]]
    BY <1>3 DEF DecideLost, ConfirmLost
  <2>2. request[q].pc \in {"deciding", "confirming"} /\ UNCHANGED <<rows, task, world>>
    BY <1>3 DEF DecideLost, ConfirmLost
  <2>3. task[q] = "none" /\ ~InFlight(q)'
    BY <2>1, <2>2 DEF InFlight, LoopInv, TypeOK
  <2>4. \A r \in Requests \ {q} : request'[r] = request[r] /\ task'[r] = task[r]
    BY <2>1, <2>2 DEF LoopInv, TypeOK
  <2>5. QED
    BY <2>2, <2>3, <2>4, RowsStayFor DEF RowsUnchanged
<1>4. CASE Schedule(q)
  <2>1. /\ request' = [request EXCEPT ![q] =
                         [pc |-> "answered", cmd |-> request[q].cmd, answer |-> "created"]]
        /\ task' = [task EXCEPT ![q] = "scheduled"]
        /\ request[q].pc = "accepted" /\ UNCHANGED <<rows, world>>
    BY <1>4 DEF Schedule, Goto
  <2>2. InFlight(q) /\ Target(q)' = Target(q) /\ TaskFits(q)'
    BY <2>1 DEF InFlight, Target, TaskFits, At, LoopInv, TypeOK
  <2>3. \A r \in Requests \ {q} : request'[r] = request[r] /\ task'[r] = task[r]
    BY <2>1 DEF LoopInv, TypeOK
  <2>4. QED
    BY <2>1, <2>2, <2>3, RowsStayFor DEF RowsUnchanged
<1>5. ASSUME request[q].pc \in {"deciding", "confirming", "expiring"}
      PROVE  Target(q) \in Proposals /\ task[q] = "none" /\ RowsAgree(Target(q))
  BY <1>5 DEF LoopInv, TypeOK, Target, Command, StatusesAgree
<1>6. CASE DecideCommit(q)
  <2>0. PICK p \in Proposals : p = Target(q)
    BY <1>5, <1>6 DEF DecideCommit
  <2>1. task[q] = "none" /\ RowsAgree(p) /\ status[p] = "pending_approval"
    BY <2>0, <1>5, <1>6 DEF DecideCommit, MayDecide
  <2>2. execution[p] = "none" /\ verification[p] = "none" /\ writes[p] = 0
    BY <2>0, <2>1 DEF RowsAgree, LoopInv, WritesFit
  <2>3. /\ request' = [request EXCEPT ![q] =
                         [pc |-> "answered", cmd |-> request[q].cmd, answer |-> "decided"]]
        /\ UNCHANGED <<execution, verification, writes, task>>
    BY <2>0, <1>6 DEF DecideCommit
  <2>4. /\ status' = [status EXCEPT ![p] = IF request[q].cmd.decision = "approve"
                                             THEN "approved" ELSE "rejected"]
        /\ approval' = [approval EXCEPT ![p] = request[q].cmd.decision]
    BY <2>0, <1>6 DEF DecideCommit, Set
  <2>5. request[q].cmd.decision \in {"approve", "reject"}
    BY <1>6 DEF DecideCommit, LoopInv, TypeOK, Command
  <2>6. Target(q)' = p /\ Outside(p)
    BY <2>0, <2>3, <2>4 DEF Target, Outside, LoopInv, TypeOK
  <2>7. RowsAgree(p)'
    BY <2>0, <2>1, <2>2, <2>3, <2>4, <2>5 DEF RowsAgree, LoopInv, TypeOK
  <2>8. ~InFlight(q)' /\ TaskFits(q)'
    BY <2>0, <2>1, <2>3 DEF InFlight, TaskFits, LoopInv, TypeOK
  <2>9. \A r \in Requests \ {q} : request'[r] = request[r] /\ task'[r] = task[r]
    BY <2>0, <2>3 DEF LoopInv, TypeOK
  <2>10. QED
    BY <2>0, <2>1, <2>2, <2>3, <2>6, <2>7, <2>8, <2>9, NobodyExecutes, OneProposalMoves
<1>7. CASE ConfirmCommit(q)
  <2>0. PICK p \in Proposals : p = Target(q)
    BY <1>5, <1>7 DEF ConfirmCommit
  <2>1. task[q] = "none" /\ RowsAgree(p) /\ status[p] = "approved"
    BY <2>0, <1>5, <1>7 DEF ConfirmCommit, MayConfirm
  <2>2. approval[p] = "approve" /\ execution[p] = "none" /\ verification[p] = "none" /\ writes[p] = 0
    BY <2>0, <2>1 DEF RowsAgree, LoopInv, WritesFit
  <2>3. /\ request' = [request EXCEPT ![q] =
                         [pc |-> "accepted", cmd |-> request[q].cmd, answer |-> "none"]]
        /\ UNCHANGED <<approval, verification, writes, task>>
        /\ status' = [status EXCEPT ![p] = "executing"]
        /\ execution' = [execution EXCEPT ![p] = "queued"]
    BY <2>0, <1>7 DEF ConfirmCommit, Set
  <2>4. status'[p] = "executing" /\ execution'[p] = "queued" /\ writes'[p] = 0
    BY <2>0, <2>1, <2>2, <2>3 DEF LoopInv, TypeOK
  <2>5. Target(q)' = p /\ Outside(p)
    BY <2>0, <2>3 DEF Target, Outside, LoopInv, TypeOK
  <2>6. RowsAgree(p)'
    BY <2>0, <2>2, <2>3, <2>4 DEF RowsAgree
  <2>7. TaskFits(q)'
    BY <2>0, <2>1, <2>3, <2>4, <2>5 DEF TaskFits, At
  <2>8. \A r \in Requests \ {q} : request'[r] = request[r] /\ task'[r] = task[r]
    BY <2>0, <2>3 DEF LoopInv, TypeOK
  <2>9. QED
    BY <2>0, <2>1, <2>2, <2>4, <2>5, <2>6, <2>7, <2>8, NobodyExecutes, OneProposalMoves
<1>8. CASE ExpireCommit(q)
  <2>0. PICK p \in Proposals : p = Target(q)
    BY <1>5, <1>8 DEF ExpireCommit
  <2>1. task[q] = "none" /\ RowsAgree(p)
    BY <2>0, <1>5, <1>8 DEF ExpireCommit
  <2>2. /\ request' = [request EXCEPT ![q] =
                         [pc |-> "answered", cmd |-> request[q].cmd, answer |-> "expired"]]
        /\ UNCHANGED <<approval, execution, verification, writes, task>>
        /\ status' = IF status[p] = "approved" THEN [status EXCEPT ![p] = "expired"] ELSE status
    BY <2>0, <1>8 DEF ExpireCommit, MayExpire, Set
  <2>3. Target(q)' = p /\ Outside(p)
    BY <2>0, <2>2 DEF Target, Outside, LoopInv, TypeOK
  <2>4. RowsAgree(p)'
    BY <2>0, <2>1, <2>2 DEF RowsAgree, LoopInv, TypeOK
  <2>5. ~InFlight(q)' /\ TaskFits(q)'
    BY <2>0, <2>1, <2>2 DEF InFlight, TaskFits, LoopInv, TypeOK
  <2>6. \A r \in Requests \ {q} : request'[r] = request[r] /\ task'[r] = task[r]
    BY <2>0, <2>2 DEF LoopInv, TypeOK
  <2>7. CASE status[p] = "approved"
    <3>1. execution[p] = "none" /\ writes[p] = 0
      BY <2>0, <2>1, <2>7 DEF RowsAgree, LoopInv, WritesFit
    <3>2. QED
      BY <2>0, <2>1, <2>2, <2>3, <2>4, <2>5, <2>6, <3>1, NobodyExecutes, OneProposalMoves
  <2>8. CASE status[p] # "approved"
    <3>1. RowsUnchanged
      BY <2>0, <2>2, <2>8 DEF RowsUnchanged
    <3>2. \A r \in Requests : InFlight(r)' => InFlight(r) /\ Target(r)' = Target(r) /\ TaskFits(r)'
      BY <2>5, <2>6, <3>1 DEF InFlight, Target, TaskFits, At, RowsUnchanged, LoopInv
    <3>3. QED
      BY <3>1, <3>2, RowsStay
  <2>9. QED
    BY <2>7, <2>8
<1>9. QED
  BY <1>1, <1>2, <1>3, <1>4, <1>6, <1>7, <1>8 DEF RequestStep

\* What tasks do.
LEMMA TaskStepKeeps ==
    ASSUME LoopInv, TypeOK', NEW q \in Requests, TaskStep(q)
    PROVE  LoopInv'
<1> USE DEF rows, world, Goto, Set, At
<1>1. task[q] # "none" /\ request' = request
  BY DEF TaskStep, ClaimRead, ClaimCommit, Inspect, Send, WriteEnds, RecordSuccess,
         StartVerification, Verify, FinishVerified, FinishRefuted, FinishBlocked,
         FinishFailed, Finish
<1>2. PICK p \in Proposals : p = Target(q)
  BY <1>1, TaskIsAlone
<1>3. /\ Target(q)' = p
      /\ request[q].pc = "answered" /\ request'[q].pc = "answered"
      /\ \A r \in Requests \ {q} : InFlight(r) => Target(r) # p
  BY <1>1, <1>2, TaskIsAlone DEF Target
<1>4. /\ \A r \in Requests \ {q} : request'[r] = request[r] /\ task'[r] = task[r]
      /\ task'[q] # "none"
  BY <1>1 DEF TaskStep, ClaimRead, ClaimCommit, Inspect, Send, WriteEnds, RecordSuccess,
         StartVerification, Verify, FinishVerified, FinishRefuted, FinishBlocked,
         FinishFailed, Finish, LoopInv, TypeOK
<1>5. /\ RowsAgree(p) /\ TaskFits(q) /\ execution[p] # "none"
      /\ writes[p] <= 1 /\ (execution[p] \in {"none", "queued"} => writes[p] = 0)
  BY <1>1, <1>2, TaskIsAlone DEF LoopInv, StatusesAgree, WritesFit
<1>6. ASSUME Outside(p), RowsAgree(p)', TaskFits(q)', execution'[p] # "none",
             writes'[p] <= 1, execution'[p] \in {"none", "queued"} => writes'[p] = 0
      PROVE  LoopInv'
  BY <1>2, <1>3, <1>4, <1>6, OneProposalMoves
<1>7. CASE ClaimRead(q) \/ Inspect(q) \/ Verify(q) \/ WriteEnds(q)
  <2>1. RowsUnchanged
    BY <1>7 DEF ClaimRead, Inspect, Verify, WriteEnds, RowsUnchanged
  <2>2. TaskFits(q)'
    BY <1>2, <1>3, <1>4, <1>5, <1>7, <2>1
    DEF ClaimRead, Inspect, Verify, WriteEnds, RowsUnchanged, TaskFits, LoopInv, TypeOK
  <2>3. QED
    BY <1>1, <1>2, <1>3, <1>4, <2>1, <2>2, RowsStayFor DEF InFlight
<1>8. CASE ClaimCommit(q)
  <2>1. /\ execution' = [execution EXCEPT ![p] = "running"] /\ task' = [task EXCEPT ![q] = "claimed"]
        /\ UNCHANGED <<status, approval, verification, writes>>
        /\ task[q] = "claiming" /\ status[p] = "executing" /\ execution[p] = "queued" /\ writes[p] = 0
    BY <1>2, <1>5, <1>8 DEF ClaimCommit, MayClaim, TaskFits
  <2>2. QED
    BY <1>2, <1>3, <1>5, <1>6, <2>1 DEF Outside, RowsAgree, TaskFits, LoopInv, TypeOK
<1>9. CASE Send(q)
  <2>1. /\ status[p] = "executing" /\ execution[p] = "running" /\ writes[p] = 0
        /\ UNCHANGED <<status, approval, execution, verification>>
    BY <1>2, <1>5, <1>9 DEF Send, TaskFits
  <2>2. CASE task' = [task EXCEPT ![q] = "blocking"] /\ UNCHANGED writes
    BY <1>2, <1>3, <1>5, <1>6, <2>1, <2>2 DEF Outside, RowsAgree, TaskFits, LoopInv, TypeOK
  <2>3. CASE /\ writes' = [writes EXCEPT ![p] = @ + 1]
             /\ \E pc \in {"writing", "failing"} : task' = [task EXCEPT ![q] = pc]
    BY <1>2, <1>3, <1>5, <1>6, <2>1, <2>3 DEF Outside, RowsAgree, TaskFits, LoopInv, TypeOK
  <2>4. QED
    BY <1>2, <1>9, <2>2, <2>3 DEF Send
<1>10. CASE RecordSuccess(q)
  <2>1. /\ execution' = [execution EXCEPT ![p] = "succeeded"] /\ task' = [task EXCEPT ![q] = "recorded"]
        /\ UNCHANGED <<status, approval, verification, writes>>
        /\ status[p] = "executing" /\ execution[p] = "running" /\ writes[p] = 1
    BY <1>2, <1>5, <1>10 DEF RecordSuccess, TaskFits
  <2>2. QED
    BY <1>2, <1>3, <1>5, <1>6, <2>1 DEF Outside, RowsAgree, TaskFits, LoopInv, TypeOK
<1>11. CASE StartVerification(q)
  <2>1. /\ status' = [status EXCEPT ![p] = "verifying"] /\ task' = [task EXCEPT ![q] = "verifying"]
        /\ UNCHANGED <<execution, approval, verification, writes>>
        /\ status[p] = "executing" /\ execution[p] = "succeeded" /\ writes[p] = 1
    BY <1>2, <1>5, <1>11 DEF StartVerification, TaskFits
  <2>2. QED
    BY <1>2, <1>3, <1>5, <1>6, <2>1 DEF Outside, RowsAgree, TaskFits, LoopInv, TypeOK
<1>12. CASE FinishVerified(q)
  <2>1. /\ status' = [status EXCEPT ![p] = "verified"]
        /\ verification' = [verification EXCEPT ![p] = "verified"]
        /\ task' = [task EXCEPT ![q] = "done"]
        /\ UNCHANGED <<execution, approval, writes>>
        /\ status[p] = "verifying" /\ execution[p] = "succeeded" /\ writes[p] = 1
    BY <1>2, <1>5, <1>12 DEF FinishVerified, TaskFits
  <2>2. QED
    BY <1>2, <1>3, <1>5, <1>6, <2>1 DEF Outside, RowsAgree, TaskFits, LoopInv, TypeOK
<1>13. CASE FinishRefuted(q)
  <2>1. /\ status' = [status EXCEPT ![p] = "failed"]
        /\ verification' = [verification EXCEPT ![p] = "failed"]
        /\ task' = [task EXCEPT ![q] = "done"]
        /\ UNCHANGED <<execution, approval, writes>>
        /\ status[p] = "verifying" /\ execution[p] = "succeeded" /\ writes[p] = 1
    BY <1>2, <1>5, <1>13 DEF FinishRefuted, TaskFits
  <2>2. QED
    BY <1>2, <1>3, <1>5, <1>6, <2>1 DEF Outside, RowsAgree, TaskFits, LoopInv, TypeOK
<1>14. CASE FinishBlocked(q)
  <2>1. /\ status' = [status EXCEPT ![p] = "blocked"]
        /\ execution' = [execution EXCEPT ![p] = "blocked"]
        /\ task' = [task EXCEPT ![q] = "done"]
        /\ UNCHANGED <<verification, approval, writes>>
        /\ status[p] = "executing" /\ execution[p] = "running" /\ writes[p] = 0
    BY <1>2, <1>5, <1>14 DEF FinishBlocked, Finish, TaskFits
  <2>2. QED
    BY <1>2, <1>3, <1>5, <1>6, <2>1 DEF Outside, RowsAgree, TaskFits, LoopInv, TypeOK
<1>15. CASE FinishFailed(q)
  <2>1. /\ status' = [status EXCEPT ![p] = "failed"]
        /\ execution' = IF execution[p] = "running" THEN [execution EXCEPT ![p] = "failed"] ELSE execution
        /\ task' = [task EXCEPT ![q] = "done"]
        /\ UNCHANGED <<verification, approval, writes>>
        /\ status[p] = "executing" /\ execution[p] \in {"queued", "running"}
    BY <1>2, <1>5, <1>15 DEF FinishFailed, Finish, TaskFits
  <2>2. QED
    BY <1>2, <1>3, <1>5, <1>6, <2>1 DEF Outside, RowsAgree, TaskFits, LoopInv, TypeOK
<1>16. QED
  BY <1>7, <1>8, <1>9, <1>10, <1>11, <1>12, <1>13, <1>14, <1>15 DEF TaskStep

\* Every step keeps the invariant.
LEMMA LoopInvStep == LoopInv /\ [Next]_vars => LoopInv'
<1> SUFFICES ASSUME LoopInv, [Next]_vars PROVE LoopInv'
  OBVIOUS
<1>1. TypeOK'
  BY LoopTypeStep DEF LoopInv
<1> USE <1>1 DEF rows, world
<1>2. ASSUME NEW p \in Proposals, Propose(p) PROVE LoopInv'
  <2>1. /\ status' = [status EXCEPT ![p] = "pending_approval"] /\ status[p] = "absent"
        /\ UNCHANGED <<approval, execution, verification, writes, request, task>>
    BY <1>2 DEF Propose, Set
  <2>2. StatusesAgree'
    BY <2>1 DEF LoopInv, StatusesAgree, RowsAgree, TypeOK
  <2>3. OneTask' /\ WritesFit'
    BY <2>1 DEF LoopInv, OneTask, WritesFit, InFlight, Target
  <2>4. execution[p] = "none"
    BY <2>1 DEF LoopInv, StatusesAgree, RowsAgree
  <2>5. ASSUME NEW q \in Requests PROVE TaskFits(q)'
    <3>1. InFlight(q) => Target(q) # p
      BY <2>4 DEF LoopInv, OneTask
    <3>2. QED
      BY <2>1, <3>1 DEF TaskFits, Target, InFlight, At, LoopInv, TypeOK
  <2>6. QED
    BY <2>2, <2>3, <2>5 DEF LoopInv
<1>3. ASSUME NEW q \in Requests, RequestStep(q) \/ TaskStep(q) PROVE LoopInv'
  BY <1>3, RequestStepKeeps, TaskStepKeeps
<1>4. CASE UNCHANGED <<rows, request, task, writes>>
  BY <1>4, RowsStay DEF RowsUnchanged, InFlight, Target, TaskFits, At, LoopInv
<1>5. CASE Restart
  BY <1>5, RowsStay DEF Restart, RowsUnchanged, InFlight, Target, TaskFits, At, LoopInv, TypeOK
<1>6. ASSUME NEW q \in Requests, TaskWriteFails(q) PROVE LoopInv'
  BY <1>6, RowsStay
  DEF TaskWriteFails, Goto, RowsUnchanged, InFlight, Target, TaskFits, At, LoopInv, TypeOK
<1>7. ASSUME NEW q \in Requests, ResponseFails(q) PROVE LoopInv'
  <2>1. /\ request' = [request EXCEPT ![q] =
                         [pc |-> "answered", cmd |-> request[q].cmd, answer |-> "lost"]]
        /\ request[q].pc = "accepted" /\ UNCHANGED <<rows, task, writes>>
    BY <1>7 DEF ResponseFails, Answer, Proceed
  <2>2. ~InFlight(q)'
    BY <2>1 DEF InFlight, LoopInv, TypeOK
  <2>3. \A r \in Requests \ {q} : request'[r] = request[r] /\ task'[r] = task[r]
    BY <2>1 DEF LoopInv, TypeOK
  <2>4. QED
    BY <2>1, <2>2, <2>3, RowsStayFor DEF RowsUnchanged
<1>8. QED
  BY <1>2, <1>3, <1>4, <1>5, <1>6, <1>7 DEF Next, Fault, Lapse, Cleanup, vars

LEMMA LoopInvHolds == Spec => []LoopInv
<1>1. Init => LoopInv
  <2>1. Init => TypeOK
    BY DEF Init, TypeOK, Status, RequestPcs, Answers, TaskPcs, EventTypes
  <2>2. QED
    BY <2>1 DEF Init, LoopInv, StatusesAgree, RowsAgree, OneTask, InFlight, TaskFits, WritesFit
<1>2. QED
  BY <1>1, LoopInvStep, PTL DEF Spec

\* Whatever the constants, a proposal's status fixes its other rows.
THEOREM StatusesAlwaysAgree == Spec => []StatusesAgree
<1>1. LoopInv => StatusesAgree
  BY DEF LoopInv
<1>2. QED
  BY <1>1, LoopInvHolds, PTL

\* The four tables are well typed and tell one story in every reachable state.
THEOREM TablesAlwaysAgree == Spec => []TablesAgree
<1>1. TypeOK /\ StatusesAgree => TablesAgree
  BY DEF TablesAgree
<1>2. QED
  BY <1>1, LoopTypeCorrect, StatusesAlwaysAgree, PTL

\* However many requests, tasks and restarts, a proposal is written at most once.
THEOREM NeverWrittenTwice == Spec => []WrittenAtMostOnce
<1>1. LoopInv => WrittenAtMostOnce
  BY DEF LoopInv, WritesFit, WrittenAtMostOnce
<1>2. QED
  BY <1>1, LoopInvHolds, PTL

-----------------------------------------------------------------------------
(* What the keys tell *)

\* Only an execution command is confirmed.
ConfirmsExecution ==
    \A q \in Requests : request[q].pc = "confirming" => request[q].cmd.endpoint = "execution"

KeysInv == KeysMatchRows /\ ConfirmsExecution

\* The keys go on matching when neither they nor the existence of rows change.
LEMMA KeysStay ==
    ASSUME KeysMatchRows, idem' = idem, approval' = approval,
           \A p \in Proposals : execution'[p] = "none" <=> execution[p] = "none"
    PROVE  KeysMatchRows'
BY DEF KeysMatchRows

\* What a task writes leaves the decisions, the keys and the existence of an
\* execution as they are.
LEMMA TaskLeavesKeys ==
    ASSUME LoopInv, NEW q \in Requests, TaskStep(q)
    PROVE  /\ UNCHANGED <<idem, approval, request>>
           /\ \A p \in Proposals : execution'[p] = "none" <=> execution[p] = "none"
<1> USE DEF rows, world, Set
<1>1. execution \in [Proposals -> {"none", "queued", "running", "succeeded", "blocked", "failed"}]
  BY DEF LoopInv, TypeOK
<1>2. CASE ClaimRead(q) \/ Inspect(q) \/ Send(q) \/ WriteEnds(q) \/ StartVerification(q)
           \/ Verify(q) \/ FinishVerified(q) \/ FinishRefuted(q)
  BY <1>2 DEF ClaimRead, Inspect, Send, WriteEnds, StartVerification, Verify, FinishVerified,
              FinishRefuted
<1>3. CASE ClaimCommit(q)
  BY <1>1, <1>3 DEF ClaimCommit, MayClaim
<1>4. CASE RecordSuccess(q)
  BY <1>1, <1>4 DEF RecordSuccess
<1>5. CASE FinishBlocked(q) \/ FinishFailed(q)
  BY <1>1, <1>5 DEF FinishBlocked, FinishFailed, Finish
<1>6. QED
  BY <1>2, <1>3, <1>4, <1>5 DEF TaskStep

\* A decision is committed for a proposal that has no approval, hence no key.
LEMMA DecideKeepsKeys ==
    ASSUME LoopInv, KeysMatchRows, NEW q \in Requests, DecideCommit(q)
    PROVE  KeysMatchRows'
<1> DEFINE p == Target(q)  cmd == request[q].cmd
<1>1. /\ status[p] = "pending_approval" /\ execution' = execution
      /\ approval' = [approval EXCEPT ![p] = cmd.decision]
      /\ idem' = idem \cup {cmd} /\ request[q].pc = "deciding"
  BY DEF DecideCommit, MayDecide, Set
<1>2. cmd \in Command /\ p \in Proposals /\ cmd.proposal = p /\ cmd.decision # "none"
  BY <1>1 DEF LoopInv, TypeOK, Command, Target
<1>3. cmd.endpoint = "approval"
  BY <1>2 DEF Command
<1>4. approval \in [Proposals -> {"none", "approve", "reject"}] /\ approval[p] = "none"
  BY <1>1, <1>2 DEF LoopInv, TypeOK, StatusesAgree, RowsAgree
<1>5. \A a \in idem : ~(a.endpoint = "approval" /\ a.proposal = p)
  <2>1. \A a \in idem : a.endpoint = "approval" => a.decision # "none"
    BY DEF LoopInv, TypeOK, Command
  <2>2. QED
    BY <1>2, <1>4, <2>1 DEF KeysMatchRows
<1> HIDE DEF p, cmd
<1>6. \A r \in Proposals : r # p => approval'[r] = approval[r]
  BY <1>1, <1>4
<1>7. approval'[p] = cmd.decision
  BY <1>1, <1>2, <1>4
<1>8. QED
  BY <1>1, <1>2, <1>3, <1>5, <1>6, <1>7 DEF KeysMatchRows

\* An execution is committed for a proposal that has none, hence no key.
LEMMA ConfirmKeepsKeys ==
    ASSUME LoopInv, KeysInv, NEW q \in Requests, ConfirmCommit(q)
    PROVE  KeysMatchRows'
<1> DEFINE p == Target(q)  cmd == request[q].cmd
<1>1. /\ status[p] = "approved" /\ approval' = approval
      /\ execution' = [execution EXCEPT ![p] = "queued"]
      /\ idem' = idem \cup {cmd} /\ request[q].pc = "confirming"
  BY DEF ConfirmCommit, MayConfirm, Set
<1>2. cmd \in Command /\ p \in Proposals /\ cmd.proposal = p /\ cmd.endpoint = "execution"
  BY <1>1 DEF LoopInv, TypeOK, Command, Target, KeysInv, ConfirmsExecution
<1>3. /\ execution \in [Proposals -> {"none", "queued", "running", "succeeded", "blocked", "failed"}]
      /\ execution[p] = "none"
  BY <1>1, <1>2 DEF LoopInv, TypeOK, StatusesAgree, RowsAgree
<1>4. \A a \in idem : ~(a.endpoint = "execution" /\ a.proposal = p)
  BY <1>2, <1>3 DEF KeysInv, KeysMatchRows
<1> HIDE DEF p, cmd
<1>5. (\A r \in Proposals : r # p => execution'[r] = execution[r]) /\ execution'[p] = "queued"
  BY <1>1, <1>2, <1>3
<1>6. QED
  BY <1>1, <1>2, <1>4, <1>5 DEF KeysInv, KeysMatchRows

\* Every step keeps them matching.
LEMMA KeysInvStep == LoopInv /\ KeysInv /\ [Next]_vars => KeysInv'
<1> SUFFICES ASSUME LoopInv, KeysInv, [Next]_vars PROVE KeysInv'
  OBVIOUS
<1> USE DEF rows, world
<1>1. KeysMatchRows /\ ConfirmsExecution
  BY DEF KeysInv
<1>2. CASE UNCHANGED <<request, idem, approval, execution>>
  BY <1>1, <1>2, KeysStay DEF KeysInv, ConfirmsExecution
<1>3. ASSUME NEW q \in Requests, RequestStep(q) PROVE KeysInv'
  <2>1. ConfirmsExecution'
    <3>1. ASSUME NEW cmd \in Command, Submit(q, cmd) PROVE ConfirmsExecution'
      BY <1>1, <3>1 DEF Submit, ConfirmsExecution, LoopInv, TypeOK
    <3>2. CASE ReadRequest(q)
      <4>1. PICK pc \in RequestPcs, answer \in Answers :
              /\ request' = [request EXCEPT ![q] = [pc |-> pc, cmd |-> request[q].cmd, answer |-> answer]]
              /\ pc = "confirming" => request[q].cmd.endpoint # "approval"
        BY <3>2 DEF ReadRequest, AnswerFromKey, Answer, Proceed, RequestPcs, Answers
      <4>2. request[q].cmd \in Command
        BY <3>2 DEF ReadRequest, LoopInv, TypeOK
      <4>3. QED
        BY <1>1, <4>1, <4>2 DEF ConfirmsExecution, LoopInv, TypeOK, Command
    <3>3. CASE DecideCommit(q) \/ DecideLost(q) \/ ConfirmCommit(q) \/ ConfirmLost(q)
               \/ ExpireCommit(q) \/ Schedule(q)
      <4>1. \E pc \in {"answered", "accepted"}, answer \in Answers :
              request' = [request EXCEPT ![q] = [pc |-> pc, cmd |-> request[q].cmd, answer |-> answer]]
        BY <3>3 DEF DecideCommit, DecideLost, ConfirmCommit, ConfirmLost, ExpireCommit, Schedule,
                    Answer, Proceed, Answers
      <4>2. QED
        BY <1>1, <4>1 DEF ConfirmsExecution, LoopInv, TypeOK
    <3>4. QED
      BY <1>3, <3>1, <3>2, <3>3 DEF RequestStep
  <2>2. KeysMatchRows'
    <3>1. ASSUME NEW cmd \in Command, Submit(q, cmd) PROVE KeysMatchRows'
      BY <1>1, <3>1, KeysStay DEF Submit
    <3>2. CASE ReadRequest(q) \/ DecideLost(q) \/ ConfirmLost(q) \/ ExpireCommit(q) \/ Schedule(q)
      BY <1>1, <3>2, KeysStay DEF ReadRequest, DecideLost, ConfirmLost, ExpireCommit, Schedule
    <3>3. CASE DecideCommit(q) \/ ConfirmCommit(q)
      BY <1>1, <3>3, DecideKeepsKeys, ConfirmKeepsKeys
    <3>4. QED
      BY <1>3, <3>1, <3>2, <3>3 DEF RequestStep
  <2>3. QED
    BY <2>1, <2>2 DEF KeysInv
<1>4. ASSUME NEW q \in Requests, TaskStep(q) PROVE KeysInv'
  BY <1>1, <1>4, TaskLeavesKeys, KeysStay DEF KeysInv, ConfirmsExecution
<1>5. CASE Restart
  BY <1>1, <1>5, KeysStay DEF Restart, KeysInv, ConfirmsExecution
<1>6. ASSUME NEW q \in Requests, TaskWriteFails(q) \/ ResponseFails(q) PROVE KeysInv'
  <2>1. KeysMatchRows'
    BY <1>1, <1>6, KeysStay DEF TaskWriteFails, ResponseFails
  <2>2. ConfirmsExecution'
    BY <1>1, <1>6 DEF TaskWriteFails, ResponseFails, Answer, Proceed, ConfirmsExecution, LoopInv, TypeOK
  <2>3. QED
    BY <2>1, <2>2 DEF KeysInv
<1>7. QED
  BY <1>2, <1>3, <1>4, <1>5, <1>6 DEF Next, Fault, Propose, Lapse, Cleanup, vars

LEMMA KeysInvHolds == Spec => []KeysInv
<1>1. Init => KeysInv
  BY DEF Init, KeysInv, KeysMatchRows, ConfirmsExecution
<1>2. QED
  BY <1>1, KeysInvStep, LoopInvHolds, PTL DEF Spec

-----------------------------------------------------------------------------
(* Who built the index *)

\* The task has sent the statement that is building, or has built, the index.
Holding(q) == task[q] \in {"writing", "written", "recorded", "verifying", "passed"}

\* One task or one verified proposal holds the index, which is still there.
IndexInv ==
    /\ \A q \in Requests : task[q] = "writing" => index = "building"
    /\ \A q \in Requests : Holding(q) /\ task[q] # "writing" => index = "valid"
    /\ \A p \in Proposals : status[p] = "verified" => index = "valid"
    /\ \A q, r \in Requests : Holding(q) /\ Holding(r) => q = r
    /\ \A q \in Requests, p \in Proposals : ~(Holding(q) /\ status[p] = "verified")
    /\ OneProposalVerified

\* A step after which no task holds the index that did not, and that verifies
\* no proposal, if it leaves an index that was built.
LEMMA IndexStays ==
    ASSUME IndexInv,
           \A q \in Requests : Holding(q)' => Holding(q),
           \A q \in Requests : Holding(q)' => (task'[q] = "writing" <=> task[q] = "writing"),
           \A p \in Proposals : status'[p] = "verified" => status[p] = "verified",
           index = "valid" => index' = "valid",
           \A q \in Requests : task'[q] = "writing" => index' = index
    PROVE  IndexInv'
BY DEF IndexInv, OneProposalVerified, Holding

\* What requests do does not concern the index.
LEMMA RequestLeavesIndex ==
    ASSUME LoopInv, NEW q \in Requests, RequestStep(q)
    PROVE  /\ index' = index
           /\ \A r \in Requests : Holding(r)' => task'[r] = task[r]
           /\ \A p \in Proposals : status'[p] = "verified" => status[p] = "verified"
<1> USE DEF rows, world, Set
<1>1. ASSUME NEW cmd \in Command, Submit(q, cmd)
      PROVE  UNCHANGED <<index, task, status>>
  BY <1>1 DEF Submit
<1>2. CASE ReadRequest(q) \/ DecideLost(q) \/ ConfirmLost(q)
  BY <1>2 DEF ReadRequest, DecideLost, ConfirmLost
<1>3. CASE DecideCommit(q) \/ ConfirmCommit(q) \/ ExpireCommit(q)
  BY <1>3 DEF DecideCommit, ConfirmCommit, ExpireCommit, LoopInv, TypeOK
<1>4. CASE Schedule(q)
  BY <1>4 DEF Schedule, Goto, Holding, LoopInv, TypeOK
<1>5. QED
  BY <1>1, <1>2, <1>3, <1>4 DEF RequestStep

\* A statement is only sent when the index is missing, so nobody holds it.
LEMMA TaskKeepsIndex ==
    ASSUME LoopInv, IndexInv, NEW q \in Requests, TaskStep(q)
    PROVE  IndexInv'
<1> USE DEF rows, world, Set, Goto
<1>1. task \in [Requests -> TaskPcs] /\ status \in [Proposals -> Status]
  BY DEF LoopInv, TypeOK
<1>2. CASE ClaimRead(q) \/ ClaimCommit(q) \/ Inspect(q) \/ StartVerification(q) \/ Verify(q)
           \/ FinishRefuted(q) \/ FinishBlocked(q) \/ FinishFailed(q) \/ RecordSuccess(q)
  <2>1. /\ index' = index
        /\ \A p \in Proposals : status'[p] = "verified" => status[p] = "verified"
        /\ \E pc \in TaskPcs : task' = [task EXCEPT ![q] = pc]
                               /\ pc # "writing" /\ (pc \in {"written", "recorded", "verifying", "passed"} => Holding(q) /\ task[q] # "writing")
    BY <1>1, <1>2 DEF ClaimRead, ClaimCommit, Inspect, StartVerification, Verify, FinishRefuted,
                      FinishBlocked, FinishFailed, Finish, RecordSuccess, Holding, TaskPcs
  <2>2. QED
    BY <1>1, <2>1, IndexStays DEF Holding
<1>3. CASE Send(q)
  <2>1. status' = status /\ task[q] = "checked"
    BY <1>3 DEF Send
  <2>2. CASE index' = index /\ \E pc \in {"blocking", "failing"} : task' = [task EXCEPT ![q] = pc]
    BY <1>1, <2>1, <2>2, IndexStays DEF Holding
  <2>3. CASE index = "absent" /\ index' = "building" /\ task' = [task EXCEPT ![q] = "writing"]
    BY <1>1, <2>1, <2>3 DEF IndexInv, Holding, OneProposalVerified
  <2>4. QED
    BY <1>3, <2>2, <2>3 DEF Send
<1>4. CASE WriteEnds(q)
  <2>1. status' = status /\ task[q] = "writing" /\ index = "building"
    BY <1>4 DEF WriteEnds, IndexInv
  <2>2. CASE task' = [task EXCEPT ![q] = "failing"]
    BY <1>1, <2>1, <2>2 DEF IndexInv, Holding, OneProposalVerified
  <2>3. CASE index' = "valid" /\ task' = [task EXCEPT ![q] = "written"]
    BY <1>1, <2>1, <2>3 DEF IndexInv, Holding, OneProposalVerified
  <2>4. QED
    BY <1>4, <2>2, <2>3 DEF WriteEnds
<1>5. CASE FinishVerified(q)
  <2>1. PICK p \in Proposals : p = Target(q)
    BY <1>5, TaskIsAlone DEF FinishVerified
  <2>2. /\ task[q] = "passed" /\ index' = index /\ index = "valid"
        /\ \E pc \in {"done", "lost"} : task' = [task EXCEPT ![q] = pc]
        /\ status' = status \/ status' = [status EXCEPT ![p] = "verified"]
    BY <1>5, <2>1 DEF FinishVerified, IndexInv, Holding
  <2>3. \A r \in Requests : ~Holding(r)'
    BY <1>1, <2>2 DEF IndexInv, Holding
  <2>4. \A r \in Proposals : status'[r] = "verified" => r = p
    BY <1>1, <2>2 DEF IndexInv, Holding
  <2>5. QED
    BY <2>2, <2>3, <2>4 DEF IndexInv, Holding, OneProposalVerified
<1>6. QED
  BY <1>2, <1>3, <1>4, <1>5 DEF TaskStep

LEMMA IndexInvStep == LoopInv /\ IndexInv /\ [Next]_vars => IndexInv'
<1> SUFFICES ASSUME LoopInv, IndexInv, [Next]_vars PROVE IndexInv'
  OBVIOUS
<1> USE DEF rows, world
<1>1. ASSUME NEW p \in Proposals, Propose(p) PROVE IndexInv'
  BY <1>1, IndexStays DEF Propose, Set, LoopInv, TypeOK, Holding
<1>2. ASSUME NEW q \in Requests, RequestStep(q) PROVE IndexInv'
  BY <1>2, RequestLeavesIndex, IndexStays DEF Holding
<1>3. ASSUME NEW q \in Requests, TaskStep(q) PROVE IndexInv'
  BY <1>3, TaskKeepsIndex
<1>4. CASE Restart
  <2>1. \A q \in Requests : ~Holding(q)'
    BY <1>4 DEF Restart, Holding
  <2>2. status' = status /\ (index = "valid" => index' = "valid")
    BY <1>4 DEF Restart
  <2>3. QED
    BY <2>1, <2>2, IndexStays DEF Holding
<1>5. ASSUME NEW q \in Requests, TaskWriteFails(q) \/ ResponseFails(q) PROVE IndexInv'
  BY <1>5, IndexStays DEF TaskWriteFails, ResponseFails, Goto, Holding, LoopInv, TypeOK
<1>6. CASE Cleanup
  <2>1. UNCHANGED <<task, status>> /\ index = "invalid"
    BY <1>6 DEF Cleanup
  <2>2. \A q \in Requests : task[q] # "writing"
    BY <2>1 DEF IndexInv
  <2>3. QED
    BY <2>1, <2>2, IndexStays DEF Holding
<1>7. CASE UNCHANGED <<task, status, index>>
  BY <1>7, IndexStays DEF Holding
<1>8. QED
  BY <1>1, <1>2, <1>3, <1>4, <1>5, <1>6, <1>7 DEF Next, Fault, Lapse, vars

LEMMA IndexInvHolds == Spec => []IndexInv
<1>1. Init => IndexInv
  BY DEF Init, IndexInv, Holding, OneProposalVerified
<1>2. QED
  BY <1>1, IndexInvStep, LoopInvHolds, PTL DEF Spec

-----------------------------------------------------------------------------
(* What is executing is worked on *)

Working(q) == request[q].pc = "accepted" \/ task[q] \notin {"none", "done", "lost"}

Busy(p) == status[p] \in {"executing", "verifying"}

\* Without a fault nothing strands a proposal.
WorkInv == faults = 0 => \A p \in Proposals : Busy(p) => \E q \in Requests : Working(q) /\ Target(q) = p

\* A step after which no proposal is busy that was not, and the requests that
\* worked still work for theirs unless it is no longer busy.
LEMMA WorkStays ==
    ASSUME WorkInv, faults' = 0 => faults = 0,
           \A p \in Proposals : Busy(p)' => Busy(p),
           \A q \in Requests : Working(q) /\ Busy(Target(q))' => Working(q)',
           \A q \in Requests : Working(q) => Target(q)' = Target(q)
    PROVE  WorkInv'
BY DEF WorkInv, Busy

\* A task leaves a proposal that it does not end with its next step still due.
LEMMA TaskKeepsWork ==
    ASSUME LoopInv, WorkInv, NEW q \in Requests, TaskStep(q)
    PROVE  WorkInv'
<1> USE DEF rows, world, Set, Goto
<1>1. PICK p \in Proposals : p = Target(q)
  BY TaskIsAlone DEF TaskStep, ClaimRead, ClaimCommit, Inspect, Send, WriteEnds, RecordSuccess,
         StartVerification, Verify, FinishVerified, FinishRefuted, FinishBlocked,
         FinishFailed, Finish
<1>2. TaskFits(q) /\ task \in [Requests -> TaskPcs] /\ status \in [Proposals -> Status]
  BY DEF LoopInv, TypeOK
<1>3. request' = request /\ faults' = faults /\ \A r \in Requests : Target(r)' = Target(r)
  BY DEF Target, TaskStep, ClaimRead, ClaimCommit, Inspect, Send, WriteEnds, RecordSuccess,
         StartVerification, Verify, FinishVerified, FinishRefuted, FinishBlocked,
         FinishFailed, Finish
<1>4. CASE ClaimRead(q) \/ ClaimCommit(q) \/ Inspect(q) \/ Send(q) \/ WriteEnds(q)
           \/ RecordSuccess(q) \/ StartVerification(q) \/ Verify(q)
  <2>1. \E pc \in TaskPcs \ {"none", "done", "lost"} : task' = [task EXCEPT ![q] = pc]
    BY <1>1, <1>2, <1>4 DEF ClaimRead, ClaimCommit, Inspect, Send, WriteEnds, RecordSuccess,
         StartVerification, Verify, TaskFits, At, MayClaim, TaskPcs
  <2>2. \A r \in Proposals : Busy(r)' => Busy(r)
    BY <1>1, <1>2, <1>4 DEF ClaimRead, ClaimCommit, Inspect, Send, WriteEnds, RecordSuccess,
         StartVerification, Verify, Busy
  <2>3. \A r \in Requests : Working(r) => Working(r)'
    BY <1>2, <1>3, <2>1 DEF Working
  <2>4. QED
    BY <1>3, <2>2, <2>3, WorkStays
<1>5. CASE FinishVerified(q) \/ FinishRefuted(q) \/ FinishBlocked(q) \/ FinishFailed(q)
  <2>1. /\ \E s \in {"verified", "failed", "blocked"} : status' = [status EXCEPT ![p] = s]
        /\ \E pc \in {"done", "lost"} : task' = [task EXCEPT ![q] = pc]
    BY <1>1, <1>2, <1>5 DEF FinishVerified, FinishRefuted, FinishBlocked, FinishFailed, Finish,
                            TaskFits, At
  <2>2. \A r \in Proposals : Busy(r)' => Busy(r)
    BY <1>2, <2>1 DEF Busy
  <2>3. \A r \in Requests : Working(r) /\ Busy(Target(r))' => Working(r)'
    <3>1. ~Busy(Target(q))'
      BY <1>1, <1>2, <1>3, <2>1 DEF Busy
    <3>2. \A r \in Requests \ {q} : Working(r) => Working(r)'
      BY <1>2, <1>3, <2>1 DEF Working
    <3>3. QED
      BY <3>1, <3>2
  <2>4. QED
    BY <1>3, <2>2, <2>3, WorkStays
<1>6. QED
  BY <1>4, <1>5 DEF TaskStep

\* What requests do: the confirmation starts the work.
LEMMA RequestKeepsWork ==
    ASSUME LoopInv, WorkInv, NEW q \in Requests, RequestStep(q)
    PROVE  WorkInv'
<1> USE DEF rows, world, Set, Goto, Answer, Proceed
<1>1. /\ request \in [Requests -> [pc : RequestPcs, cmd : Command \cup {NoCommand}, answer : Answers]]
      /\ task \in [Requests -> TaskPcs] /\ status \in [Proposals -> Status]
      /\ \A r \in Requests : task[r] # "none" => request[r].pc = "answered"
  BY DEF LoopInv, TypeOK
<1>2. CASE request[q].pc # "accepted" /\ faults' = faults /\ task' = task
           /\ (\A r \in Requests \ {q} : request'[r] = request[r])
           /\ \A p \in Proposals : Busy(p)' => Busy(p)
  <2>1. request[q].pc = "answered" \/ ~Working(q)
    BY <1>1, <1>2 DEF Working
  <2>2. request[q].pc # "answered"
    BY <1>2 DEF RequestStep, Submit, ReadRequest, DecideCommit, DecideLost, ConfirmCommit,
                ConfirmLost, ExpireCommit, Schedule
  <2>3. \A r \in Requests : Working(r) => Working(r)' /\ Target(r)' = Target(r)
    BY <1>2, <2>1, <2>2 DEF Working, Target
  <2>4. QED
    BY <1>2, <2>3, WorkStays
<1>3. ASSUME NEW cmd \in Command, Submit(q, cmd) PROVE WorkInv'
  BY <1>1, <1>2, <1>3 DEF Submit, Busy
<1>4. CASE ReadRequest(q) \/ DecideLost(q) \/ ConfirmLost(q)
  BY <1>1, <1>2, <1>4 DEF ReadRequest, DecideLost, ConfirmLost, AnswerFromKey, Busy
<1>5. CASE DecideCommit(q) \/ ExpireCommit(q)
  BY <1>1, <1>2, <1>5 DEF DecideCommit, ExpireCommit, Busy
<1>6. CASE ConfirmCommit(q)
  <2>1. /\ request' = [request EXCEPT ![q] = [pc |-> "accepted", cmd |-> request[q].cmd, answer |-> "none"]]
        /\ status' = [status EXCEPT ![Target(q)] = "executing"]
        /\ UNCHANGED <<task, faults>> /\ request[q].pc = "confirming"
    BY <1>6 DEF ConfirmCommit
  <2>2. Working(q)' /\ Target(q)' = Target(q)
    BY <1>1, <2>1 DEF Working, Target
  <2>3. \A r \in Requests \ {q} : (Working(r) => Working(r)') /\ Target(r)' = Target(r)
    BY <1>1, <2>1 DEF Working, Target
  <2>4. \A p \in Proposals : Busy(p)' => Busy(p) \/ p = Target(q)
    BY <1>1, <2>1 DEF Busy
  <2>5. ~Working(q)
    BY <1>1, <2>1 DEF Working
  <2>6. QED
    BY <2>1, <2>2, <2>3, <2>4, <2>5 DEF WorkInv
<1>7. CASE Schedule(q)
  <2>1. /\ request' = [request EXCEPT ![q] = [pc |-> "answered", cmd |-> request[q].cmd, answer |-> "created"]]
        /\ task' = [task EXCEPT ![q] = "scheduled"] /\ UNCHANGED <<status, faults>>
    BY <1>7 DEF Schedule
  <2>2. \A r \in Requests : (Working(r) => Working(r)') /\ Target(r)' = Target(r)
    BY <1>1, <2>1 DEF Working, Target
  <2>3. QED
    BY <2>1, <2>2, WorkStays DEF Busy
<1>8. QED
  BY <1>3, <1>4, <1>5, <1>6, <1>7 DEF RequestStep

LEMMA WorkInvStep == LoopInv /\ WorkInv /\ [Next]_vars => WorkInv'
<1> SUFFICES ASSUME LoopInv, WorkInv, [Next]_vars PROVE WorkInv'
  OBVIOUS
<1> USE DEF rows, world
<1>1. ASSUME NEW p \in Proposals, Propose(p) PROVE WorkInv'
  BY <1>1, WorkStays DEF Propose, Set, LoopInv, TypeOK, Busy, Working, Target
<1>2. ASSUME NEW q \in Requests, RequestStep(q) \/ TaskStep(q) PROVE WorkInv'
  BY <1>2, RequestKeepsWork, TaskKeepsWork
<1>3. CASE Fault
  <2>1. faults' = faults + 1 /\ faults \in Nat
    BY <1>3 DEF Fault, Restart, TaskWriteFails, ResponseFails, LoopInv, TypeOK
  <2>2. QED
    BY <2>1 DEF WorkInv
<1>4. CASE UNCHANGED <<request, task, status, faults>>
  BY <1>4 DEF WorkInv, Busy, Working, Target
<1>5. QED
  BY <1>1, <1>2, <1>3, <1>4 DEF Next, Lapse, Cleanup, vars

LEMMA WorkInvHolds == Spec => []WorkInv
<1>1. Init => WorkInv
  BY DEF Init, WorkInv, Busy
<1>2. QED
  BY <1>1, WorkInvStep, LoopInvHolds, PTL DEF Spec

\* A proposal that executes has the one task that ends it, unless a fault
\* stranded it, and any other has none.
THEOREM ExecutionsAreAlwaysAtWork == Spec => []ExecutionsAreAtWork
<1>1. LoopInv /\ WorkInv => ExecutionsAreAtWork
  <2> SUFFICES ASSUME LoopInv, WorkInv, faults = 0, NEW p \in Proposals
               PROVE  /\ Busy(p) => \E q \in Requests : AtWork(p) = {q}
                      /\ ~Busy(p) => AtWork(p) = {}
    BY DEF ExecutionsAreAtWork, Busy
  <2>1. \A q \in Requests : q \in AtWork(p) <=> Working(q) /\ Target(q) = p
    <3>1. \A q \in Requests : Working(q) => request[q].cmd \in Command
      BY DEF LoopInv, TypeOK, Working
    <3>2. \A c \in Command : c # NoCommand
      BY DEF Command, NoCommand
    <3>3. QED
      BY <3>1, <3>2 DEF AtWork, Working
  <2>2. \A q \in Requests : Working(q) => InFlight(q) /\ Busy(Target(q))
    <3>1. ASSUME NEW q \in Requests, Working(q) PROVE InFlight(q) /\ Busy(Target(q))
      <4>1. TaskFits(q) /\ task[q] \in TaskPcs
        BY DEF LoopInv, TypeOK
      <4>2. QED
        BY <3>1, <4>1 DEF Working, InFlight, Busy, TaskFits, At, TaskPcs
    <3>2. QED
      BY <3>1
  <2>3. \A q, r \in Requests : q \in AtWork(p) /\ r \in AtWork(p) => q = r
    BY <2>1, <2>2 DEF LoopInv, OneTask
  <2>4. AtWork(p) \subseteq Requests
    BY DEF AtWork
  <2>5. ~Busy(p) => AtWork(p) = {}
    BY <2>1, <2>2, <2>4
  <2>6. Busy(p) => \E q \in Requests : q \in AtWork(p)
    BY <2>1 DEF WorkInv
  <2>7. QED
    BY <2>3, <2>4, <2>5, <2>6
<1>2. QED
  BY <1>1, LoopInvHolds, WorkInvHolds, PTL

-----------------------------------------------------------------------------
(* What the audit trail tells *)

LEMMA StoryLength == Len(StoryOrder) = 10
BY DEF StoryOrder

\* An event that follows all that are owed continues the story.
LEMMA TellsMore ==
    ASSUME NEW events \in Seq(EventTypes), NEW owed, NEW k \in 1 .. 10,
           NEW type \in EventTypes \ {"approval_expired"}, type = StoryOrder[k],
           Tells(events, owed), \A j \in k .. 10 : StoryOrder[j] \notin owed
    PROVE  Tells(events \o <<type>>, owed \cup {type})
<1> DEFINE longer == events \o <<type>>
<1>0. \A n \in 1 .. Len(events), i \in 1 .. 10 :
        events[n] = StoryOrder[i] => \A m \in 1 .. n - 1, j \in i .. 10 : events[m] # StoryOrder[j]
  BY StoryLength DEF Tells
<1>1. /\ Len(longer) = Len(events) + 1 /\ Len(events) \in Nat
      /\ \A n \in 1 .. Len(events) : longer[n] = events[n]
      /\ longer[Len(events) + 1] = type
  OBVIOUS
<1> HIDE DEF longer
<1>2. \A t \in owed \cup {type} : \E n \in 1 .. Len(longer) : longer[n] = t
  BY <1>1 DEF Tells
<1>3. \A n \in 1 .. Len(longer) : longer[n] \in owed \cup {type} \cup {"approval_expired"}
  BY <1>1 DEF Tells
<1>4. ASSUME NEW n \in 1 .. Len(longer), NEW i \in 1 .. 10, longer[n] = StoryOrder[i],
             NEW m \in 1 .. n - 1, NEW j \in i .. 10
      PROVE  longer[m] # StoryOrder[j]
  <2>1. m \in 1 .. Len(events) /\ longer[m] = events[m] /\ j \in 1 .. 10
    BY <1>1
  <2>2. CASE n \in 1 .. Len(events)
    <3>1. events[n] = StoryOrder[i]
      BY <1>1, <1>4, <2>2
    <3>2. \A l \in 1 .. n - 1, h \in i .. 10 : events[l] # StoryOrder[h]
      BY <1>0, <2>2, <3>1
    <3>3. events[m] # StoryOrder[j]
      BY <3>2
    <3>4. QED
      BY <2>1, <3>3
  <2>3. CASE n = Len(events) + 1
    <3>1. i = k
      BY <1>1, <1>4, <2>3 DEF StoryOrder
    <3>2. events[m] \in owed \cup {"approval_expired"} /\ StoryOrder[j] \notin owed
      BY <2>1, <3>1 DEF Tells
    <3>3. StoryOrder[j] # "approval_expired"
      BY <2>1 DEF StoryOrder
    <3>4. QED
      BY <2>1, <3>2, <3>3
  <2>4. QED
    BY <1>1, <2>2, <2>3
<1>5. Tells(longer, owed \cup {type})
  BY <1>2, <1>3, <1>4, StoryLength DEF Tells
<1>6. QED
  BY <1>5 DEF longer

\* A notice of an expired approval is no part of it.
LEMMA TellsNotice ==
    ASSUME NEW events \in Seq(EventTypes), NEW owed, Tells(events, owed)
    PROVE  Tells(events \o <<"approval_expired">>, owed)
<1> DEFINE longer == events \o <<"approval_expired">>
<1>1. /\ Len(longer) = Len(events) + 1 /\ Len(events) \in Nat
      /\ \A n \in 1 .. Len(events) : longer[n] = events[n]
      /\ longer[Len(events) + 1] = "approval_expired"
  OBVIOUS
<1>2. \A k \in 1 .. 10 : StoryOrder[k] # "approval_expired"
  BY DEF StoryOrder
<1> HIDE DEF longer
<1>3. QED
  BY <1>1, <1>2, StoryLength DEF Tells, longer

TrailInv == TrailTellsTheStory /\ ExpiryIsNoticed

\* A step that neither appends an event nor changes what is owed.
LEMMA TrailStays ==
    ASSUME TrailInv, trail' = trail, \A p \in Proposals : Owed(p)' = Owed(p),
           \A p \in Proposals : status'[p] = "expired" => status[p] = "expired"
    PROVE  TrailInv'
BY DEF TrailInv, TrailTellsTheStory, ExpiryIsNoticed

\* A step that appends to the trail of one proposal.
LEMMA OneTrailGrows ==
    ASSUME TrailInv, TypeOK, NEW p \in Proposals, Outside(p), NEW types \in Seq(EventTypes),
           Record(p, types), Tells(trail[p] \o types, Owed(p)'),
           status'[p] = "expired" => \E n \in 1 .. Len(trail[p] \o types) : (trail[p] \o types)[n] = "approval_expired"
    PROVE  TrailInv'
<1>1. trail'[p] = trail[p] \o types /\ \A r \in Proposals \ {p} : trail'[r] = trail[r]
  BY DEF Record, TypeOK
<1>2. \A r \in Proposals \ {p} : Owed(r)' = Owed(r) /\ status'[r] = status[r]
  BY DEF Owed, Outside
<1>3. TrailTellsTheStory'
  BY <1>1, <1>2 DEF TrailInv, TrailTellsTheStory
<1>4. ExpiryIsNoticed'
  <2>1. status'[p] = "expired" => \E n \in 1 .. Len(trail'[p]) : trail'[p][n] = "approval_expired"
    BY <1>1, Zenon
  <2>2. QED
    BY <1>1, <1>2, <2>1 DEF TrailInv, ExpiryIsNoticed
<1>5. QED
  BY <1>3, <1>4 DEF TrailInv

\* A step that appends the next event of a proposal's story.
LEMMA StoryGoesOn ==
    ASSUME TrailInv, TypeOK, NEW p \in Proposals, Outside(p), NEW k \in 1 .. 10,
           Record(p, <<StoryOrder[k]>>), Owed(p)' = Owed(p) \cup {StoryOrder[k]},
           \A j \in k .. 10 : StoryOrder[j] \notin Owed(p), status'[p] # "expired"
    PROVE  TrailInv'
<1>1. StoryOrder[k] \in EventTypes \ {"approval_expired"}
  BY DEF StoryOrder, EventTypes
<1>2. trail[p] \in Seq(EventTypes) /\ Tells(trail[p], Owed(p))
  BY DEF TypeOK, TrailInv, TrailTellsTheStory
<1>3. <<StoryOrder[k]>> \in Seq(EventTypes)
  BY <1>1
<1>4. Tells(trail[p] \o <<StoryOrder[k]>>, Owed(p)')
  BY <1>1, <1>2, TellsMore
<1>5. QED
  BY <1>3, <1>4, OneTrailGrows

\* Each commit of a task owes the event it appends.
LEMMA TaskKeepsTrail ==
    ASSUME LoopInv, TrailInv, NEW q \in Requests, TaskStep(q)
    PROVE  TrailInv'
<1> USE DEF rows, world, Set, At
<1>1. task[q] # "none" /\ TaskFits(q) /\ TypeOK
  BY DEF LoopInv, TaskStep, ClaimRead, ClaimCommit, Inspect, Send, WriteEnds, RecordSuccess,
         StartVerification, Verify, FinishVerified, FinishRefuted, FinishBlocked,
         FinishFailed, Finish
<1>2. PICK p \in Proposals : p = Target(q) /\ RowsAgree(p)
  BY <1>1, TaskIsAlone DEF LoopInv, StatusesAgree
<1> DEFINE NextEvent(k) ==
      /\ Record(p, <<StoryOrder[k]>>) /\ Outside(p) /\ status'[p] # "expired"
      /\ Owed(p)' = Owed(p) \cup {StoryOrder[k]}
      /\ \A j \in k .. 10 : StoryOrder[j] \notin Owed(p)
<1>3. ASSUME NEW k \in 1 .. 10, NextEvent(k) PROVE TrailInv'
  BY <1>1, <1>3, StoryGoesOn
<1>4. /\ StoryOrder[4] = "execution_started" /\ StoryOrder[7] = "verification_started"
      /\ StoryOrder[8] = "verification_completed" /\ StoryOrder[9] = "action_blocked"
      /\ StoryOrder[10] = "action_failed"
  BY DEF StoryOrder
<1>5. CASE ClaimRead(q) \/ Inspect(q) \/ Send(q) \/ WriteEnds(q) \/ Verify(q)
  BY <1>5, TrailStays DEF ClaimRead, Inspect, Send, WriteEnds, Verify, Owed
<1>6. CASE ClaimCommit(q)
  <2>1. /\ execution' = [execution EXCEPT ![p] = "running"] /\ Record(p, <<"execution_started">>)
        /\ UNCHANGED <<status, approval, verification, writes>>
        /\ status[p] = "executing" /\ execution[p] = "queued"
    BY <1>1, <1>2, <1>6 DEF ClaimCommit, MayClaim, TaskFits
  <2>2. Outside(p) /\ status'[p] # "expired" /\ execution'[p] = "running"
    BY <1>1, <2>1 DEF Outside, TypeOK
  <2>3. Owed(p)' = Owed(p) \cup {"execution_started"}
    BY <1>2, <2>1, <2>2 DEF Owed, RowsAgree, EventTypes
  <2>4. \A j \in 4 .. 10 : StoryOrder[j] \notin Owed(p)
    BY <1>2, <2>1 DEF Owed, RowsAgree, StoryOrder
  <2>5. QED
    BY <1>3, <1>4, <2>1, <2>2, <2>3, <2>4
<1>7. CASE RecordSuccess(q)
  <2>1. /\ execution' = [execution EXCEPT ![p] = "succeeded"]
        /\ Record(p, <<"precondition_checked", "execution_completed">>)
        /\ UNCHANGED <<status, approval, verification, writes>>
        /\ status[p] = "executing" /\ execution[p] = "running"
    BY <1>1, <1>2, <1>7 DEF RecordSuccess, TaskFits
  <2>2. Outside(p) /\ status'[p] # "expired" /\ execution'[p] = "succeeded"
    BY <1>1, <2>1 DEF Outside, TypeOK
  <2>3. Owed(p)' = (Owed(p) \cup {"precondition_checked"}) \cup {"execution_completed"}
    BY <1>2, <2>1, <2>2 DEF Owed, RowsAgree, EventTypes
  <2>4. \A j \in 5 .. 10 : StoryOrder[j] \notin Owed(p)
    BY <1>2, <2>1 DEF Owed, RowsAgree, StoryOrder
  <2>5. /\ StoryOrder[5] = "precondition_checked" /\ StoryOrder[6] = "execution_completed"
        /\ \A j \in 6 .. 10 : StoryOrder[j] # "precondition_checked"
    BY DEF StoryOrder
  <2>6. trail[p] \in Seq(EventTypes) /\ Tells(trail[p], Owed(p))
    BY <1>1, <1>2 DEF TypeOK, TrailInv, TrailTellsTheStory
  <2>7. {"precondition_checked", "execution_completed"} \subseteq EventTypes \ {"approval_expired"}
    BY DEF EventTypes
  <2>8. Tells(trail[p] \o <<"precondition_checked">>, Owed(p) \cup {"precondition_checked"})
    BY <2>4, <2>5, <2>6, <2>7, TellsMore
  <2>9. trail[p] \o <<"precondition_checked">> \in Seq(EventTypes)
    BY <2>6, <2>7
  <2>10. Tells((trail[p] \o <<"precondition_checked">>) \o <<"execution_completed">>, Owed(p)')
    <3>1. \A j \in 6 .. 10 : StoryOrder[j] \notin Owed(p) \cup {"precondition_checked"}
      BY <2>4, <2>5
    <3> DEFINE events == trail[p] \o <<"precondition_checked">>
               owed == Owed(p) \cup {"precondition_checked"}
    <3>2. /\ events \in Seq(EventTypes) /\ Tells(events, owed) /\ Owed(p)' = owed \cup {"execution_completed"}
          /\ \A j \in 6 .. 10 : StoryOrder[j] \notin owed
      BY <2>3, <2>8, <2>9, <3>1
    <3>3. "execution_completed" \in EventTypes \ {"approval_expired"} /\ 6 \in 1 .. 10
      BY <2>7
    <3> HIDE DEF events, owed
    <3>4. Tells(events \o <<"execution_completed">>, owed \cup {"execution_completed"})
      BY <2>5, <3>2, <3>3, TellsMore
    <3>5. QED
      BY <3>2, <3>4 DEF events
  <2>11. (trail[p] \o <<"precondition_checked">>) \o <<"execution_completed">>
           = trail[p] \o <<"precondition_checked", "execution_completed">>
    BY <2>6
  <2>12. QED
    BY <1>1, <2>1, <2>2, <2>10, <2>11, EventSequences, OneTrailGrows
<1>8. CASE StartVerification(q)
  <2>1. /\ status' = [status EXCEPT ![p] = "verifying"] /\ Record(p, <<"verification_started">>)
        /\ UNCHANGED <<execution, approval, verification, writes>>
        /\ status[p] = "executing" /\ execution[p] = "succeeded"
    BY <1>1, <1>2, <1>8 DEF StartVerification, TaskFits
  <2>2. Outside(p) /\ status'[p] = "verifying"
    BY <1>1, <2>1 DEF Outside, TypeOK
  <2>3. Owed(p)' = Owed(p) \cup {"verification_started"}
    BY <1>2, <2>1, <2>2 DEF Owed, RowsAgree, EventTypes
  <2>4. \A j \in 7 .. 10 : StoryOrder[j] \notin Owed(p)
    BY <1>2, <2>1 DEF Owed, RowsAgree, StoryOrder
  <2>5. QED
    BY <1>3, <1>4, <2>1, <2>2, <2>3, <2>4
<1>9. CASE FinishVerified(q)
  <2>1. /\ status' = [status EXCEPT ![p] = "verified"] /\ Record(p, <<"verification_completed">>)
        /\ verification' = [verification EXCEPT ![p] = "verified"]
        /\ UNCHANGED <<execution, approval, writes>>
        /\ status[p] = "verifying" /\ execution[p] = "succeeded"
    BY <1>1, <1>2, <1>9 DEF FinishVerified, TaskFits
  <2>2. Outside(p) /\ status'[p] = "verified" /\ verification'[p] = "verified"
    BY <1>1, <2>1 DEF Outside, TypeOK
  <2>3. Owed(p)' = Owed(p) \cup {"verification_completed"}
    BY <1>2, <2>1, <2>2 DEF Owed, RowsAgree, EventTypes
  <2>4. \A j \in 8 .. 10 : StoryOrder[j] \notin Owed(p)
    BY <1>2, <2>1 DEF Owed, RowsAgree, StoryOrder
  <2>5. QED
    BY <1>3, <1>4, <2>1, <2>2, <2>3, <2>4
<1>10. CASE FinishRefuted(q)
  <2>1. /\ status' = [status EXCEPT ![p] = "failed"] /\ Record(p, <<"action_failed">>)
        /\ verification' = [verification EXCEPT ![p] = "failed"]
        /\ UNCHANGED <<execution, approval, writes>>
        /\ status[p] = "verifying" /\ execution[p] = "succeeded"
    BY <1>1, <1>2, <1>10 DEF FinishRefuted, TaskFits
  <2>2. Outside(p) /\ status'[p] = "failed" /\ verification'[p] = "failed"
    BY <1>1, <2>1 DEF Outside, TypeOK
  <2>3. Owed(p)' = Owed(p) \cup {"action_failed"}
    BY <1>2, <2>1, <2>2 DEF Owed, RowsAgree, EventTypes
  <2>4. \A j \in 10 .. 10 : StoryOrder[j] \notin Owed(p)
    BY <1>2, <2>1 DEF Owed, RowsAgree, StoryOrder
  <2>5. QED
    BY <1>3, <1>4, <2>1, <2>2, <2>3, <2>4
<1>11. CASE FinishBlocked(q)
  <2>1. /\ status' = [status EXCEPT ![p] = "blocked"] /\ Record(p, <<"action_blocked">>)
        /\ execution' = [execution EXCEPT ![p] = "blocked"]
        /\ UNCHANGED <<verification, approval, writes>>
        /\ status[p] = "executing" /\ execution[p] = "running"
    BY <1>1, <1>2, <1>11 DEF FinishBlocked, Finish, TaskFits
  <2>2. Outside(p) /\ status'[p] = "blocked" /\ execution'[p] = "blocked"
    BY <1>1, <2>1 DEF Outside, TypeOK
  <2>3. Owed(p)' = Owed(p) \cup {"action_blocked"}
    BY <1>2, <2>1, <2>2 DEF Owed, RowsAgree, EventTypes
  <2>4. \A j \in 9 .. 10 : StoryOrder[j] \notin Owed(p)
    BY <1>2, <2>1 DEF Owed, RowsAgree, StoryOrder
  <2>5. QED
    BY <1>3, <1>4, <2>1, <2>2, <2>3, <2>4
<1>12. CASE FinishFailed(q)
  <2>1. /\ status' = [status EXCEPT ![p] = "failed"] /\ Record(p, <<"action_failed">>)
        /\ execution' = IF execution[p] = "running" THEN [execution EXCEPT ![p] = "failed"] ELSE execution
        /\ UNCHANGED <<verification, approval, writes>>
        /\ status[p] = "executing" /\ execution[p] \in {"queued", "running"}
    BY <1>1, <1>2, <1>12 DEF FinishFailed, Finish, TaskFits
  <2>2. /\ Outside(p) /\ status'[p] = "failed"
        /\ execution'[p] = IF execution[p] = "running" THEN "failed" ELSE execution[p]
    BY <1>1, <2>1 DEF Outside, TypeOK
  <2>3. Owed(p)' = Owed(p) \cup {"action_failed"}
    BY <1>2, <2>1, <2>2 DEF Owed, RowsAgree, EventTypes
  <2>4. \A j \in 10 .. 10 : StoryOrder[j] \notin Owed(p)
    BY <1>2, <2>1 DEF Owed, RowsAgree, StoryOrder
  <2>5. QED
    BY <1>3, <1>4, <2>1, <2>2, <2>3, <2>4
<1>13. QED
  BY <1>5, <1>6, <1>7, <1>8, <1>9, <1>10, <1>11, <1>12 DEF TaskStep

\* So does each commit of a request; an expired approval is noticed besides.
LEMMA RequestKeepsTrail ==
    ASSUME LoopInv, TrailInv, NEW q \in Requests, RequestStep(q)
    PROVE  TrailInv'
<1> USE DEF rows, world, Set
<1>1. TypeOK /\ StatusesAgree
  BY DEF LoopInv
<1>2. StoryOrder[2] = "approval_recorded" /\ StoryOrder[3] = "execution_requested"
  BY DEF StoryOrder
<1>3. ASSUME NEW cmd \in Command, Submit(q, cmd) PROVE TrailInv'
  BY <1>3, TrailStays DEF Submit, Owed
<1>4. CASE ReadRequest(q) \/ DecideLost(q) \/ ConfirmLost(q) \/ Schedule(q)
  BY <1>4, TrailStays DEF ReadRequest, DecideLost, ConfirmLost, Schedule, Owed
<1>5. CASE DecideCommit(q)
  <2>1. /\ request[q].cmd \in Command /\ request[q].cmd.decision # "none"
    BY <1>1, <1>5 DEF DecideCommit, TypeOK
  <2>2. PICK p \in Proposals, s \in {"approved", "rejected"}, a \in {"approve", "reject"} :
          /\ status' = [status EXCEPT ![p] = s] /\ approval' = [approval EXCEPT ![p] = a]
          /\ Record(p, <<"approval_recorded">>) /\ status[p] = "pending_approval"
          /\ UNCHANGED <<execution, verification, writes>>
    BY <1>5, <2>1 DEF DecideCommit, MayDecide, Target, Command
  <2>3. Outside(p) /\ status'[p] = s /\ approval'[p] = a /\ RowsAgree(p)
    BY <1>1, <2>2 DEF Outside, TypeOK, StatusesAgree
  <2>4. Owed(p)' = Owed(p) \cup {"approval_recorded"}
    BY <2>2, <2>3 DEF Owed, RowsAgree, EventTypes
  <2>5. \A j \in 2 .. 10 : StoryOrder[j] \notin Owed(p)
    BY <2>2, <2>3 DEF Owed, RowsAgree, StoryOrder
  <2>6. QED
    BY <1>1, <1>2, <2>2, <2>3, <2>4, <2>5, StoryGoesOn
<1>6. CASE ConfirmCommit(q)
  <2>1. PICK p \in Proposals :
          /\ status' = [status EXCEPT ![p] = "executing"]
          /\ execution' = [execution EXCEPT ![p] = "queued"]
          /\ Record(p, <<"execution_requested">>) /\ status[p] = "approved"
          /\ UNCHANGED <<approval, verification, writes>>
    BY <1>1, <1>6 DEF ConfirmCommit, MayConfirm, Target, Command, TypeOK
  <2>2. Outside(p) /\ status'[p] = "executing" /\ execution'[p] = "queued" /\ RowsAgree(p)
    BY <1>1, <2>1 DEF Outside, TypeOK, StatusesAgree
  <2>3. Owed(p)' = Owed(p) \cup {"execution_requested"}
    BY <2>1, <2>2 DEF Owed, RowsAgree, EventTypes
  <2>4. \A j \in 3 .. 10 : StoryOrder[j] \notin Owed(p)
    BY <2>1, <2>2 DEF Owed, RowsAgree, StoryOrder
  <2>5. QED
    BY <1>1, <1>2, <2>1, <2>2, <2>3, <2>4, StoryGoesOn
<1>7. CASE ExpireCommit(q)
  <2>1. PICK p \in Proposals :
          /\ status' = IF status[p] = "approved" THEN [status EXCEPT ![p] = "expired"] ELSE status
          /\ Record(p, <<"approval_expired">>)
          /\ UNCHANGED <<approval, execution, verification, writes>>
    BY <1>1, <1>7 DEF ExpireCommit, MayExpire, Target, Command, TypeOK
  <2>2. /\ Outside(p)
        /\ status'[p] = IF status[p] = "approved" THEN "expired" ELSE status[p]
    BY <1>1, <2>1 DEF Outside, TypeOK
  <2>3. Owed(p)' = Owed(p)
    BY <2>1, <2>2 DEF Owed
  <2>4. trail[p] \in Seq(EventTypes) /\ Tells(trail[p], Owed(p))
    BY <1>1 DEF TypeOK, TrailInv, TrailTellsTheStory
  <2>5. Tells(trail[p] \o <<"approval_expired">>, Owed(p)')
    BY <2>3, <2>4, TellsNotice
  <2>6. \E n \in 1 .. Len(trail[p] \o <<"approval_expired">>) :
          (trail[p] \o <<"approval_expired">>)[n] = "approval_expired"
    <3>1. /\ Len(trail[p] \o <<"approval_expired">>) = Len(trail[p]) + 1
          /\ (trail[p] \o <<"approval_expired">>)[Len(trail[p]) + 1] = "approval_expired"
          /\ Len(trail[p]) \in Nat
      BY <2>4
    <3>2. QED
      BY <3>1
  <2>7. <<"approval_expired">> \in Seq(EventTypes)
    BY EventSequences DEF EventTypes
  <2>8. QED
    BY <1>1, <2>1, <2>2, <2>5, <2>6, <2>7, OneTrailGrows
<1>8. QED
  BY <1>3, <1>4, <1>5, <1>6, <1>7 DEF RequestStep

LEMMA TrailInvStep == LoopInv /\ TrailInv /\ [Next]_vars => TrailInv'
<1> SUFFICES ASSUME LoopInv, TrailInv, [Next]_vars PROVE TrailInv'
  OBVIOUS
<1> USE DEF rows, world
<1>1. ASSUME NEW p \in Proposals, Propose(p) PROVE TrailInv'
  <2>1. /\ status' = [status EXCEPT ![p] = "pending_approval"] /\ status[p] = "absent"
        /\ Record(p, <<"proposal_created">>) /\ TypeOK
        /\ UNCHANGED <<approval, execution, verification, writes>>
    BY <1>1 DEF Propose, Set, LoopInv
  <2>2. Outside(p) /\ status'[p] = "pending_approval" /\ RowsAgree(p)
    BY <2>1 DEF Outside, TypeOK, LoopInv, StatusesAgree
  <2>3. Owed(p)' = Owed(p) \cup {"proposal_created"}
    BY <2>1, <2>2 DEF Owed, RowsAgree, EventTypes
  <2>4. \A j \in 1 .. 10 : StoryOrder[j] \notin Owed(p)
    BY <2>1, <2>2 DEF Owed, RowsAgree, StoryOrder
  <2>5. StoryOrder[1] = "proposal_created"
    BY DEF StoryOrder
  <2>6. QED
    BY <2>1, <2>2, <2>3, <2>4, <2>5, StoryGoesOn
<1>2. ASSUME NEW q \in Requests, RequestStep(q) \/ TaskStep(q) PROVE TrailInv'
  BY <1>2, RequestKeepsTrail, TaskKeepsTrail
<1>3. CASE UNCHANGED rows
  BY <1>3, TrailStays DEF Owed
<1>4. QED
  BY <1>1, <1>2, <1>3 DEF Next, Fault, Restart, TaskWriteFails, ResponseFails, Lapse, Cleanup, vars

LEMMA TrailInvHolds == Spec => []TrailInv
<1>1. Init => TrailInv
  BY DEF Init, TrailInv, TrailTellsTheStory, ExpiryIsNoticed, Tells, Owed
<1>2. QED
  BY <1>1, TrailInvStep, LoopInvHolds, PTL DEF Spec

\* Keys, trail, notices and verdicts stay true to what was decided and done,
\* whatever was retried, lost or refused in between.
THEOREM ReportsAreAlwaysTrue == Spec => []ReportsAreTrue
<1>1. KeysInv /\ TrailInv /\ IndexInv => ReportsAreTrue
  BY DEF KeysInv, TrailInv, IndexInv, ReportsAreTrue
<1>2. QED
  BY <1>1, KeysInvHolds, TrailInvHolds, IndexInvHolds, PTL

-----------------------------------------------------------------------------
(* The loop implements ActionPromise *)

\* A step that neither changes a status nor sends a statement is a stutter.
LEMMA QuietStep == status' = status /\ writes' = writes => UNCHANGED Promise!vars
BY DEF Promise!vars

\* A step that only changes the status of one proposal is a move of the promise.
LEMMA MoveStep ==
    ASSUME TypeOK, NEW p \in Proposals, NEW from, NEW to,
           status[p] = from, status' = [status EXCEPT ![p] = to], writes' = writes
    PROVE  Promise!Move(p, from, to)
BY DEF Promise!Move

\* What requests do.
LEMMA RequestStepPromised ==
    ASSUME LoopInv, NEW q \in Requests, RequestStep(q)
    PROVE  [Promise!Next]_(Promise!vars)
<1> USE DEF rows, world, Set, LoopInv
<1>1. ASSUME NEW cmd \in Command, Submit(q, cmd) PROVE UNCHANGED Promise!vars
  BY <1>1, QuietStep DEF Submit
<1>2. CASE ReadRequest(q) \/ DecideLost(q) \/ ConfirmLost(q) \/ Schedule(q)
  BY <1>2, QuietStep DEF ReadRequest, DecideLost, ConfirmLost, Schedule
<1>3. ASSUME request[q].pc \in {"deciding", "confirming", "expiring"}
      PROVE  Target(q) \in Proposals
  BY <1>3 DEF TypeOK, Target, Command
<1>4. CASE DecideCommit(q)
  <2>1. PICK p \in Proposals, to \in {"approved", "rejected"} :
          /\ status[p] = "pending_approval" /\ writes' = writes
          /\ status' = [status EXCEPT ![p] = to]
    BY <1>3, <1>4 DEF DecideCommit, MayDecide
  <2>2. QED
    BY <2>1, MoveStep DEF Promise!Next, Promise!Decide
<1>5. CASE ConfirmCommit(q)
  <2>1. PICK p \in Proposals :
          /\ status[p] = "approved" /\ writes' = writes
          /\ status' = [status EXCEPT ![p] = "executing"]
    BY <1>3, <1>5 DEF ConfirmCommit, MayConfirm
  <2>2. QED
    BY <2>1, MoveStep DEF Promise!Next, Promise!Decide
<1>6. CASE ExpireCommit(q)
  <2>1. PICK p \in Proposals :
          /\ writes' = writes
          /\ status' = IF status[p] = "approved" THEN [status EXCEPT ![p] = "expired"] ELSE status
    BY <1>3, <1>6 DEF ExpireCommit, MayExpire
  <2>2. CASE status[p] = "approved"
    BY <2>1, <2>2, MoveStep DEF Promise!Next, Promise!Decide
  <2>3. QED
    BY <2>1, <2>2, QuietStep
<1>7. QED
  BY <1>1, <1>2, <1>4, <1>5, <1>6 DEF RequestStep

\* What tasks do.
LEMMA TaskStepPromised ==
    ASSUME LoopInv, NEW q \in Requests, TaskStep(q)
    PROVE  [Promise!Next]_(Promise!vars)
<1> USE DEF rows, world, Set, At
<1>1. task[q] # "none"
  BY DEF TaskStep, ClaimRead, ClaimCommit, Inspect, Send, WriteEnds, RecordSuccess,
         StartVerification, Verify, FinishVerified, FinishRefuted, FinishBlocked,
         FinishFailed, Finish
<1>2. PICK p \in Proposals : p = Target(q) /\ TaskFits(q)
  BY <1>1, TaskIsAlone DEF LoopInv
<1>3. CASE ClaimRead(q) \/ ClaimCommit(q) \/ Inspect(q) \/ WriteEnds(q) \/ RecordSuccess(q) \/ Verify(q)
  BY <1>3, QuietStep DEF ClaimRead, ClaimCommit, Inspect, WriteEnds, RecordSuccess, Verify
<1>4. CASE Send(q)
  <2>1. status[p] = "executing" /\ writes[p] = 0 /\ status' = status
    BY <1>2, <1>4 DEF Send, TaskFits
  <2>2. CASE writes' = writes
    BY <2>1, <2>2, QuietStep
  <2>3. CASE writes' = [writes EXCEPT ![p] = @ + 1]
    <3>1. writes' \in [Proposals -> Nat] /\ writes'[p] > 0 /\ ~(writes[p] > 0)
      BY <2>1, <2>3 DEF LoopInv, TypeOK
    <3>2. \A r \in Proposals \ {p} : writes'[r] = writes[r]
      BY <2>3 DEF LoopInv, TypeOK
    <3>3. \A r \in Proposals :
            (writes'[r] > 0) = [[t \in Proposals |-> writes[t] > 0] EXCEPT ![p] = TRUE][r]
      BY <3>1, <3>2, Zenon
    <3>4. [r \in Proposals |-> writes'[r] > 0] = [[t \in Proposals |-> writes[t] > 0] EXCEPT ![p] = TRUE]
      BY <3>3, Zenon
    <3>5. Promise!Write(p)
      BY <2>1, <3>1, <3>4, Zenon DEF Promise!Write
    <3>6. QED
      BY <3>5 DEF Promise!Next
  <2>4. QED
    BY <1>2, <1>4, <2>2, <2>3 DEF Send
<1>5. CASE StartVerification(q)
  <2>1. /\ status[p] = "executing" /\ writes[p] = 1 /\ writes' = writes
        /\ status' = [status EXCEPT ![p] = "verifying"]
    BY <1>2, <1>5 DEF StartVerification, TaskFits
  <2>2. writes[p] > 0
    BY <2>1
  <2>3. Promise!Move(p, "executing", "verifying")
    BY <2>1, MoveStep DEF LoopInv
  <2>4. Promise!Finish(p)
    BY <2>2, <2>3, Zenon DEF Promise!Finish
  <2>5. QED
    BY <2>4 DEF Promise!Next
<1>6. CASE FinishVerified(q) \/ FinishRefuted(q)
  <2>1. PICK to \in {"verified", "failed"} :
          /\ status[p] = "verifying" /\ writes' = writes
          /\ status' = [status EXCEPT ![p] = to]
    BY <1>2, <1>6 DEF FinishVerified, FinishRefuted, TaskFits
  <2>2. QED
    BY <2>1, MoveStep DEF LoopInv, Promise!Next, Promise!Finish
<1>7. CASE FinishBlocked(q)
  <2>1. /\ status[p] = "executing" /\ writes[p] = 0 /\ writes' = writes
        /\ status' = [status EXCEPT ![p] = "blocked"]
    BY <1>2, <1>7 DEF FinishBlocked, Finish, TaskFits
  <2>2. ~(writes[p] > 0)
    BY <2>1
  <2>3. Promise!Move(p, "executing", "blocked")
    BY <2>1, MoveStep DEF LoopInv
  <2>4. Promise!Finish(p)
    BY <2>2, <2>3, Zenon DEF Promise!Finish
  <2>5. QED
    BY <2>4 DEF Promise!Next
<1>8. CASE FinishFailed(q)
  <2>1. /\ status[p] = "executing" /\ writes' = writes
        /\ status' = [status EXCEPT ![p] = "failed"]
    BY <1>2, <1>8 DEF FinishFailed, Finish, TaskFits
  <2>2. QED
    BY <2>1, MoveStep DEF LoopInv, Promise!Next, Promise!Finish
<1>9. QED
  BY <1>3, <1>4, <1>5, <1>6, <1>7, <1>8 DEF TaskStep

\* Whatever the constants, the loop implements ActionPromise: statuses move as
\* promised, and the target is written only between the confirmation and the end.
THEOREM LoopKeepsThePromise == Spec => KeepsThePromise
<1>1. Init => Promise!Init
  <2> SUFFICES ASSUME Init PROVE Promise!Init
    OBVIOUS
  <2>1. writes = [p \in Proposals |-> 0] /\ ~(0 > 0)
    BY DEF Init
  <2>2. ASSUME NEW p \in Proposals PROVE (writes[p] > 0) = FALSE
    <3>1. writes[p] = 0
      BY <2>1
    <3>2. ~(writes[p] > 0)
      BY <3>1
    <3>3. QED
      BY <3>1, <3>2
  <2>3. [p \in Proposals |-> writes[p] > 0] = [p \in Proposals |-> FALSE]
    BY <2>2, Zenon
  <2>4. QED
    BY <2>3, Zenon DEF Init, Promise!Init
<1>2. LoopInv /\ [Next]_vars => [Promise!Next]_(Promise!vars)
  <2> SUFFICES ASSUME LoopInv, [Next]_vars PROVE [Promise!Next]_(Promise!vars)
    OBVIOUS
  <2>1. ASSUME NEW p \in Proposals, Propose(p) PROVE [Promise!Next]_(Promise!vars)
    <3>1. /\ status[p] = "absent" /\ writes' = writes
          /\ status' = [status EXCEPT ![p] = "pending_approval"]
      BY <2>1 DEF Propose, Set, world
    <3>2. QED
      BY <3>1, MoveStep DEF LoopInv, Promise!Next, Promise!Decide
  <2>2. ASSUME NEW q \in Requests, RequestStep(q) \/ TaskStep(q)
        PROVE  [Promise!Next]_(Promise!vars)
    BY <2>2, RequestStepPromised, TaskStepPromised
  <2>3. ASSUME NEW p \in Proposals, Lapse(p) PROVE UNCHANGED Promise!vars
    BY <2>3, QuietStep DEF Lapse, rows
  <2>4. CASE Fault \/ Cleanup \/ UNCHANGED vars
    BY <2>4, QuietStep DEF Fault, Restart, TaskWriteFails, ResponseFails, Cleanup, vars, rows, world
  <2>5. QED
    BY <2>1, <2>2, <2>3, <2>4 DEF Next
<1>3. QED
  BY <1>1, <1>2, LoopInvHolds, PTL DEF Spec, KeepsThePromise, Promise!Spec
=============================================================================

------------------------- MODULE RunLifecycleProofs -------------------------
(***************************************************************************)
(* RunLifecycle for any number of Runs, requests, cancels, keys, events    *)
(* and faults.                                                             *)
(***************************************************************************)
EXTENDS RunLifecycle, TLAPS

-----------------------------------------------------------------------------
(* Types *)

\* Every step keeps TypeOK: the rows, the counters and the program counters
\* of requests, cancels and tasks stay in their ranges.
LEMMA TypeStep == TypeOK /\ [Next]_vars => TypeOK'
<1> USE DEF TypeOK
<1> SUFFICES ASSUME TypeOK, [Next]_vars PROVE TypeOK'
  OBVIOUS
<1>1. ASSUME NEW q \in Requests, AcceptStep(q) PROVE TypeOK'
  <2> USE DEF Answer, Proceed, dbVars, RequestPcs, Answers
  <2>1. ASSUME NEW cmd \in Command, Submit(q, cmd) PROVE TypeOK'
    BY <2>1 DEF Submit
  <2>2. CASE AcceptRead(q)
    <3>1. request[q].cmd \in Command /\ UNCHANGED <<dbVars, cancel, task, faults>>
      BY <2>2 DEF AcceptRead
    <3>2. PICK pc \in RequestPcs, r \in Runs \cup {NoRun}, answer \in Answers :
            request' = [request EXCEPT ![q] =
                          [pc |-> pc, cmd |-> request[q].cmd, run |-> r, answer |-> answer]]
      <4>1. CASE \E row \in idem : AnswerFromKey(q, row)
        BY <4>1 DEF AnswerFromKey
      <4>2. CASE Answer(q, "not_terminal", NoRun) \/ Proceed(q, "inserting", NoRun, "none")
        BY <4>2
      <4>3. QED
        BY <2>2, <4>1, <4>2 DEF AcceptRead
    <3>3. QED
      BY <3>1, <3>2
  <2>3. ASSUME NEW r \in Runs, AcceptCommit(q, r) PROVE TypeOK'
    <3>1. request[q].cmd \in Command
      BY <2>3 DEF AcceptCommit
    <3>2. QED
      BY <2>3, <3>1 DEF AcceptCommit, AppendEvent, EventTypes, Status, Live
  <2>4. CASE AcceptConflict(q)
    BY <2>4 DEF AcceptConflict
  <2>5. CASE AcceptReread(q)
    <3>1. PICK row \in idem : AnswerFromKey(q, row)
      BY <2>5 DEF AcceptReread
    <3>2. request[q].cmd \in Command
      BY <2>5 DEF AcceptReread
    <3>3. QED
      BY <2>5, <3>1, <3>2 DEF AcceptReread, AnswerFromKey
  <2>6. CASE Schedule(q)
    BY <2>6 DEF Schedule, Goto, TaskPcs
  <2>7. QED
    BY <1>1, <2>1, <2>2, <2>3, <2>4, <2>5, <2>6 DEF AcceptStep
<1>2. ASSUME NEW r \in Runs, ExecuteStep(r) PROVE TypeOK'
  <2> USE DEF dbVars, Goto, TaskPcs, MoveTo, AppendEvent, EventTypes, TerminalEvents,
              Status, Live, Terminal
  <2>1. CASE ClaimRead(r) \/ ClaimLost(r) \/ TypedStop(r) \/ Raise(r)
    BY <2>1 DEF ClaimRead, ClaimLost, TypedStop, Raise
  <2>2. CASE LegacyCheck(r) \/ SuccessRead(r) \/ SuccessLost(r)
    BY <2>2 DEF LegacyCheck, SuccessRead, SuccessLost
  <2>3. CASE FailureRead(r) \/ FailureLost(r)
    BY <2>3 DEF FailureRead, FailureLost
  <2>4. CASE ClaimCommit(r)
    BY <2>4 DEF ClaimCommit
  <2>5. CASE LegacyAppend(r)
    BY <2>5 DEF LegacyAppend
  <2>6. CASE TypedAppend(r)
    BY <2>6 DEF TypedAppend
  <2>7. CASE SuccessCommit(r)
    BY <2>7 DEF SuccessCommit
  <2>8. CASE FailureCommit(r)
    BY <2>8 DEF FailureCommit
  <2>9. QED
    BY <1>2, <2>1, <2>2, <2>3, <2>4, <2>5, <2>6, <2>7, <2>8 DEF ExecuteStep
<1>3. ASSUME NEW k \in Cancels, CancelStep(k) PROVE TypeOK'
  <2> USE DEF AnswerCancel, CancelPcs, CancelAnswers
  <2>1. ASSUME NEW r \in Runs, CancelRead(k, r) PROVE TypeOK'
    <3>1. PICK answer \in CancelAnswers, pc \in CancelPcs :
            cancel' = [cancel EXCEPT ![k] = [pc |-> pc, run |-> r, answer |-> answer]]
      BY <2>1 DEF CancelRead
    <3>2. UNCHANGED <<status, nextSeq, events, replies, idem, request, task, faults>>
      BY <2>1 DEF CancelRead, dbVars
    <3>3. QED
      BY <3>1, <3>2
  <2>2. CASE CancelCommit(k)
    <3>1. cancel[k].run \in Runs
      BY <2>2 DEF CancelCommit
    <3>2. QED
      BY <2>2, <3>1 DEF CancelCommit, MoveTo, AppendEvent, EventTypes, TerminalEvents,
                        Status, Terminal
  <2>3. CASE CancelLost(k)
    <3>1. cancel[k].run \in Runs
      BY <2>3 DEF CancelLost
    <3>2. QED
      BY <2>3, <3>1 DEF CancelLost, dbVars
  <2>4. QED
    BY <1>3, <2>1, <2>2, <2>3 DEF CancelStep
<1>4. CASE Restart
  BY <1>4 DEF Restart, dbVars, TaskPcs, RequestPcs, Answers, CancelPcs, CancelAnswers
<1>5. ASSUME NEW q \in Requests, ResponseFails(q) PROVE TypeOK'
  BY <1>5 DEF ResponseFails, Answer, Proceed, dbVars, RequestPcs, Answers
<1>6. ASSUME NEW r \in Runs, FailureWriteFails(r) PROVE TypeOK'
  BY <1>6 DEF FailureWriteFails, Goto, dbVars, TaskPcs
<1>7. CASE UNCHANGED vars
  BY <1>7 DEF vars
<1>8. QED
  BY <1>1, <1>2, <1>3, <1>4, <1>5, <1>6, <1>7 DEF Next, Fault

\* Whatever the constants, every reachable state has the types TypeOK lists.
THEOREM TypeCorrect == Spec => []TypeOK
<1>1. Init => TypeOK
  BY DEF Init, TypeOK, Status, RequestPcs, Answers, CancelPcs, CancelAnswers, TaskPcs
<1>2. QED
  BY <1>1, TypeStep, PTL DEF Spec

-----------------------------------------------------------------------------
(* What one step may do to the rows of a Run *)

rows == <<status, nextSeq, events, replies>>

\* Only a diagnosis task is ever past the cancellation check.
TaskFitsKind == \A r \in Runs : task[r] = "checked" => r \in DiagnosisRuns

\* The changes of the rows of Run r, each one transaction.
RowChange(r) ==
    \/ status[r] = "absent" /\ MoveTo(r, "queued", "run_queued") /\ UNCHANGED replies
    \/ status[r] = "queued" /\ MoveTo(r, "running", "run_started") /\ UNCHANGED replies
    \/ /\ status[r] = "running" \/ LegacyAppend(r)
       /\ AppendEvent(r, "process") /\ UNCHANGED <<status, replies>>
    \/ /\ status[r] = "running"
       /\ MoveTo(r, "succeeded", "run_succeeded")
       /\ replies' = [replies EXCEPT ![r] = @ + 1]
    \/ status[r] \in Live /\ MoveTo(r, "failed", "run_failed") /\ UNCHANGED replies
    \/ status[r] \in Live /\ MoveTo(r, "cancelled", "run_cancelled") /\ UNCHANGED replies

\* Every step of the specification leaves all rows alone or makes one change
\* of RowChange to one Run.
LEMMA RowStep ==
    TypeOK /\ TaskFitsKind /\ [Next]_vars =>
        UNCHANGED rows \/ \E r \in Runs : RowChange(r)
<1> SUFFICES ASSUME TypeOK, TaskFitsKind, [Next]_vars
             PROVE  UNCHANGED rows \/ \E r \in Runs : RowChange(r)
  OBVIOUS
<1> USE DEF rows, dbVars
<1>1. ASSUME NEW q \in Requests, AcceptStep(q)
      PROVE  UNCHANGED rows \/ \E r \in Runs : RowChange(r)
  <2>1. ASSUME NEW r \in Runs, AcceptCommit(q, r) PROVE RowChange(r)
    BY <2>1 DEF AcceptCommit, RowChange, MoveTo
  <2>2. ASSUME NEW cmd \in Command, Submit(q, cmd) PROVE UNCHANGED rows
    BY <2>2 DEF Submit
  <2>3. AcceptRead(q) \/ AcceptConflict(q) \/ AcceptReread(q) \/ Schedule(q) => UNCHANGED rows
    BY DEF AcceptRead, AcceptConflict, AcceptReread, Schedule
  <2>4. QED
    BY <1>1, <2>1, <2>2, <2>3 DEF AcceptStep
<1>2. ASSUME NEW r \in Runs, ExecuteStep(r) PROVE UNCHANGED rows \/ RowChange(r)
  <2>1. ClaimRead(r) \/ ClaimLost(r) \/ LegacyCheck(r) \/ TypedStop(r) => UNCHANGED rows
    BY DEF ClaimRead, ClaimLost, LegacyCheck, TypedStop
  <2>2. SuccessRead(r) \/ SuccessLost(r) \/ Raise(r) => UNCHANGED rows
    BY DEF SuccessRead, SuccessLost, Raise
  <2>3. FailureRead(r) \/ FailureLost(r) => UNCHANGED rows
    BY DEF FailureRead, FailureLost
  <2>4. CASE ClaimCommit(r)
    BY <2>4 DEF ClaimCommit, MayClaim, RowChange
  <2>5. CASE LegacyAppend(r)
    <3>1. AppendEvent(r, "process") /\ UNCHANGED <<status, replies>>
      BY <2>5 DEF LegacyAppend
    <3>2. QED
      BY <2>5, <3>1 DEF RowChange
  <2>6. CASE TypedAppend(r)
    BY <2>6 DEF TypedAppend, MayReserve, RowChange
  <2>7. CASE SuccessCommit(r)
    BY <2>7 DEF SuccessCommit, MaySucceed, RowChange
  <2>8. CASE FailureCommit(r)
    BY <2>8 DEF FailureCommit, MayFail, RowChange
  <2>9. QED
    BY <1>2, <2>1, <2>2, <2>3, <2>4, <2>5, <2>6, <2>7, <2>8 DEF ExecuteStep
<1>3. ASSUME NEW k \in Cancels, CancelStep(k)
      PROVE  UNCHANGED rows \/ \E r \in Runs : RowChange(r)
  <2>1. ASSUME NEW r \in Runs, CancelRead(k, r) PROVE UNCHANGED rows
    BY <2>1 DEF CancelRead
  <2>2. CancelLost(k) => UNCHANGED rows
    BY DEF CancelLost
  <2>3. CASE CancelCommit(k)
    <3>1. cancel[k].run \in Runs
      BY <2>3 DEF CancelCommit, TypeOK
    <3>2. RowChange(cancel[k].run)
      BY <2>3 DEF CancelCommit, MayCancel, RowChange
    <3>3. QED
      BY <3>1, <3>2
  <2>4. QED
    BY <1>3, <2>1, <2>2, <2>3 DEF CancelStep
<1>4. Fault => UNCHANGED rows
  BY DEF Fault, Restart, ResponseFails, FailureWriteFails
<1>5. UNCHANGED vars => UNCHANGED rows
  BY DEF vars
<1>6. QED
  BY <1>1, <1>2, <1>3, <1>4, <1>5 DEF Next

LEMMA TaskFitsKindStep == TypeOK /\ TaskFitsKind /\ [Next]_vars => TaskFitsKind'
<1> SUFFICES ASSUME TypeOK, TaskFitsKind, [Next]_vars PROVE TaskFitsKind'
  OBVIOUS
<1> USE DEF TypeOK, TaskFitsKind, Goto
<1>1. ASSUME NEW q \in Requests, AcceptStep(q) PROVE TaskFitsKind'
  BY <1>1 DEF AcceptStep, Submit, AcceptRead, AcceptCommit, AcceptConflict, AcceptReread, Schedule
<1>2. ASSUME NEW r \in Runs, ExecuteStep(r) PROVE TaskFitsKind'
  <2>1. CASE LegacyCheck(r)
    BY <2>1 DEF LegacyCheck
  <2>2. ~LegacyCheck(r) => UNCHANGED task \/ \E pc \in TaskPcs \ {"checked"} : Goto(r, pc)
    BY <1>2 DEF ExecuteStep, ClaimRead, ClaimCommit, ClaimLost, LegacyAppend, TypedAppend,
                TypedStop, SuccessRead, SuccessCommit, SuccessLost, Raise, FailureRead,
                FailureCommit, FailureLost, TaskPcs
  <2>3. QED
    BY <2>1, <2>2
<1>3. ASSUME NEW k \in Cancels, CancelStep(k) PROVE TaskFitsKind'
  BY <1>3 DEF CancelStep, CancelRead, CancelCommit, CancelLost
<1>4. CASE Fault
  BY <1>4 DEF Fault, Restart, ResponseFails, FailureWriteFails
<1>5. CASE UNCHANGED vars
  BY <1>5 DEF vars
<1>6. QED
  BY <1>1, <1>2, <1>3, <1>4, <1>5 DEF Next

-----------------------------------------------------------------------------
(* The inductive invariant of the rows *)

RowInv ==
    /\ TypeOK
    /\ TaskFitsKind
    /\ LogIsNumbered
    /\ EndIsAnnouncedOnce
    /\ ReplyIffSucceeded
    /\ MainLogEndsWithTheEnd

\* Appending at the counter keeps every log numbered.
LEMMA AppendNumbered ==
    ASSUME TypeOK, LogIsNumbered, NEW r \in Runs, NEW type, AppendEvent(r, type)
    PROVE  LogIsNumbered'
<1> DEFINE new == [seq |-> nextSeq[r], type |-> type]
<1>1. \A s \in Runs : s # r => events'[s] = events[s] /\ nextSeq'[s] = nextSeq[s]
  BY DEF TypeOK, AppendEvent
<1>2. events'[r] = events[r] \cup {new} /\ nextSeq'[r] = nextSeq[r] + 1
  BY DEF TypeOK, AppendEvent
<1>3. nextSeq[r] \in Nat \ {0}
  BY DEF TypeOK
<1>4. \A e \in events'[r] : e.seq \in 1 .. (nextSeq'[r] - 1)
  BY <1>2, <1>3 DEF LogIsNumbered
<1>5. ASSUME NEW n \in 1 .. (nextSeq'[r] - 1) PROVE \E e \in events'[r] : e.seq = n
  <2>1. CASE n = nextSeq[r]
    <3>1. new \in events'[r] /\ new.seq = n
      BY <1>2, <2>1
    <3>2. QED
      BY <3>1
  <2>2. CASE n # nextSeq[r]
    <3>1. n \in 1 .. (nextSeq[r] - 1)
      BY <1>2, <1>3, <2>2
    <3>2. QED
      BY <1>2, <3>1 DEF LogIsNumbered
  <2>3. QED
    BY <2>1, <2>2
<1>6. \A e, f \in events'[r] : e.seq = f.seq => e = f
  BY <1>2, <1>3 DEF LogIsNumbered
<1>7. QED
  BY <1>1, <1>4, <1>5, <1>6 DEF LogIsNumbered

LEMMA NumberedStep ==
    ASSUME TypeOK, LogIsNumbered, NEW r \in Runs, RowChange(r)
    PROVE  LogIsNumbered'
<1>1. \E type \in EventTypes : AppendEvent(r, type)
  BY DEF RowChange, MoveTo, EventTypes, TerminalEvents
<1>2. QED
  BY <1>1, AppendNumbered

\* The events that end the Run are those it had, and the appended one if it is
\* a terminal event.
LEMMA EndsAfterAppend ==
    ASSUME TypeOK, NEW r \in Runs, NEW type, AppendEvent(r, type)
    PROVE  /\ \A s \in Runs : s # r => EndsIn(s)' = EndsIn(s)
           /\ EndsIn(r)' = IF type \in TerminalEvents
                             THEN EndsIn(r) \cup {[seq |-> nextSeq[r], type |-> type]}
                             ELSE EndsIn(r)
BY DEF TypeOK, AppendEvent, EndsIn

\* A live Run has announced no end, so the one announced with its terminal
\* status is the only one.
LEMMA AnnouncedStep ==
    ASSUME TypeOK, EndIsAnnouncedOnce, NEW r \in Runs, RowChange(r)
    PROVE  EndIsAnnouncedOnce'
<1> DEFINE EndIsRight(s) ==
             /\ \A e, f \in EndsIn(s) : e = f
             /\ \A e \in EndsIn(s) : status[s] \in Terminal /\ e.type = TerminalEventOf(status[s])
             /\ status[s] \in Terminal => EndsIn(s) # {}
<1>1. \A s \in Runs : EndIsRight(s)
  BY DEF EndIsAnnouncedOnce
<1>2. \A s \in Runs : s # r => EndsIn(s)' = EndsIn(s) /\ status'[s] = status[s]
  <2>1. \E type \in EventTypes : AppendEvent(r, type)
    BY DEF RowChange, MoveTo, EventTypes, TerminalEvents
  <2>2. \A s \in Runs : s # r => status'[s] = status[s]
    BY DEF RowChange, MoveTo, TypeOK
  <2>3. QED
    BY <2>1, <2>2, EndsAfterAppend
<1>3. ASSUME NEW new \in Terminal, status[r] \in Live, MoveTo(r, new, TerminalEventOf(new))
      PROVE  EndIsRight(r)'
  <2>1. EndsIn(r) = {}
    BY <1>1, <1>3 DEF Live, Terminal
  <2>2. TerminalEventOf(new) \in TerminalEvents
    BY DEF Terminal, TerminalEventOf, TerminalEvents
  <2>3. EndsIn(r)' = {[seq |-> nextSeq[r], type |-> TerminalEventOf(new)]}
    BY <1>3, <2>1, <2>2, EndsAfterAppend DEF MoveTo
  <2>4. status'[r] = new
    BY <1>3 DEF MoveTo, TypeOK
  <2>5. QED
    BY <2>3, <2>4
<1>4. ASSUME NEW new \in Live, NEW type \in EventTypes \ TerminalEvents,
             status[r] \notin Terminal, MoveTo(r, new, type)
      PROVE  EndIsRight(r)'
  <2>1. EndsIn(r)' = {}
    BY <1>1, <1>4, EndsAfterAppend DEF MoveTo
  <2>2. status'[r] \notin Terminal
    BY <1>4 DEF MoveTo, TypeOK, Live, Terminal
  <2>3. QED
    BY <2>1, <2>2
<1>5. ASSUME AppendEvent(r, "process"), UNCHANGED status
      PROVE  EndIsRight(r)'
  <2>1. EndsIn(r)' = EndsIn(r)
    BY <1>5, EndsAfterAppend DEF TerminalEvents
  <2>2. QED
    BY <1>1, <1>5, <2>1
<1>6. EndIsRight(r)'
  <2>1. TerminalEventOf("succeeded") = "run_succeeded" /\ TerminalEventOf("failed") = "run_failed"
        /\ TerminalEventOf("cancelled") = "run_cancelled"
    BY DEF TerminalEventOf
  <2>2. CASE \E new \in Terminal : status[r] \in Live /\ MoveTo(r, new, TerminalEventOf(new))
    BY <2>2, <1>3
  <2>3. CASE status[r] \in {"absent", "queued"} /\ \E new \in Live, type \in EventTypes \ TerminalEvents :
                MoveTo(r, new, type)
    BY <2>3, <1>4 DEF Terminal
  <2>4. CASE AppendEvent(r, "process") /\ UNCHANGED status
    BY <2>4, <1>5
  <2>5. QED
    BY <2>1, <2>2, <2>3, <2>4 DEF RowChange, Live, Terminal, EventTypes, TerminalEvents
<1>7. QED
  BY <1>1, <1>2, <1>6 DEF EndIsAnnouncedOnce

\* A reply is written by the one step that makes a running Run succeeded.
LEMMA ReplyStep ==
    ASSUME TypeOK, ReplyIffSucceeded, NEW r \in Runs, RowChange(r)
    PROVE  ReplyIffSucceeded'
BY DEF TypeOK, ReplyIffSucceeded, RowChange, MoveTo, Live

\* A main_agent Run appends only while it is live, and what it appends lies
\* above everything in its log.
LEMMA MainLogStep ==
    ASSUME RowInv, NEW r \in Runs, RowChange(r)
    PROVE  MainLogEndsWithTheEnd'
<1> SUFFICES ASSUME NEW m \in MainRuns PROVE Late(m)' = {}
  BY DEF MainLogEndsWithTheEnd
<1> USE DEF RowInv
<1>1. PICK type \in EventTypes : AppendEvent(r, type)
  BY DEF RowChange, MoveTo, EventTypes, TerminalEvents
<1>2. m \in Runs /\ Late(m) = {}
  BY DEF Runs, MainLogEndsWithTheEnd
<1>3. CASE m # r
  <2>1. EndsIn(m)' = EndsIn(m) /\ events'[m] = events[m]
    BY <1>1, <1>2, <1>3, EndsAfterAppend DEF TypeOK, AppendEvent
  <2>2. QED
    BY <1>2, <2>1 DEF Late
<1>4. CASE m = r
  <2>1. status[r] \notin Terminal
    <3>1. ~LegacyAppend(r)
      BY <1>4, RunsAssumption DEF LegacyAppend, TaskFitsKind
    <3>2. QED
      BY <3>1 DEF RowChange, Live, Terminal
  <2>2. EndsIn(r) = {}
    BY <2>1 DEF EndIsAnnouncedOnce
  <2>3. \A f \in EndsIn(r)' : f.seq = nextSeq[r]
    BY <1>1, <2>2, EndsAfterAppend
  <2>4. \A e \in events'[r] : e.seq \in Nat /\ e.seq <= nextSeq[r]
    BY <1>1 DEF AppendEvent, TypeOK, LogIsNumbered
  <2>5. nextSeq[r] \in Nat
    BY DEF TypeOK
  <2>6. QED
    BY <1>4, <2>3, <2>4, <2>5 DEF Late
<1>5. QED
  BY <1>3, <1>4

LEMMA RowInvStep == RowInv /\ [Next]_vars => RowInv'
<1> SUFFICES ASSUME RowInv, [Next]_vars PROVE RowInv'
  OBVIOUS
<1> USE DEF RowInv
<1>1. TypeOK' /\ TaskFitsKind'
  BY TypeStep, TaskFitsKindStep
<1>2. CASE UNCHANGED rows
  BY <1>1, <1>2 DEF rows, LogIsNumbered, EndIsAnnouncedOnce, ReplyIffSucceeded,
                    MainLogEndsWithTheEnd, EndsIn, Late
<1>3. ASSUME NEW r \in Runs, RowChange(r) PROVE RowInv'
  BY <1>1, <1>3, NumberedStep, AnnouncedStep, ReplyStep, MainLogStep
<1>4. QED
  BY <1>2, <1>3, RowStep

LEMMA RowInvInit == Init => RowInv
<1> SUFFICES ASSUME Init PROVE RowInv
  OBVIOUS
<1>1. TypeOK
  BY DEF Init, TypeOK, Status, RequestPcs, Answers, CancelPcs, CancelAnswers, TaskPcs
<1>2. \A r \in Runs : events[r] = {} /\ nextSeq[r] = 1 /\ status[r] = "absent" /\ replies[r] = 0
  BY DEF Init
<1>3. TaskFitsKind
  BY DEF Init, TaskFitsKind
<1>4. LogIsNumbered
  BY <1>2 DEF LogIsNumbered
<1>5. EndIsAnnouncedOnce /\ ReplyIffSucceeded
  BY <1>2 DEF EndIsAnnouncedOnce, ReplyIffSucceeded, EndsIn, Terminal
<1>6. MainLogEndsWithTheEnd
  BY <1>2 DEF MainLogEndsWithTheEnd, Late, Runs
<1>7. QED
  BY <1>1, <1>3, <1>4, <1>5, <1>6 DEF RowInv

LEMMA RowsCorrect == Spec => []RowInv
BY RowInvInit, RowInvStep, PTL DEF Spec

\* However many tasks, cancels and restarts append to it, the event log of a
\* Run is numbered without a gap or a repeat.
THEOREM LogAlwaysNumbered == Spec => []LogIsNumbered
<1>1. RowInv => LogIsNumbered
  BY DEF RowInv
<1>2. QED
  BY <1>1, RowsCorrect, PTL

\* A Run announces one end, exactly when it has ended, and the right one.
THEOREM EndAlwaysAnnouncedOnce == Spec => []EndIsAnnouncedOnce
<1>1. RowInv => EndIsAnnouncedOnce
  BY DEF RowInv
<1>2. QED
  BY <1>1, RowsCorrect, PTL

\* A succeeded Run has one reply and no other Run has any.
THEOREM RepliesCorrect == Spec => []ReplyIffSucceeded
<1>1. RowInv => ReplyIffSucceeded
  BY DEF RowInv
<1>2. QED
  BY <1>1, RowsCorrect, PTL

\* Nothing follows the end in the log of a main_agent Run.
THEOREM MainLogsEndWithTheEnd == Spec => []MainLogEndsWithTheEnd
<1>1. RowInv => MainLogEndsWithTheEnd
  BY DEF RowInv
<1>2. QED
  BY <1>1, RowsCorrect, PTL

\* No step changes the status of an ended Run or requeues a running one.
THEOREM EndsAreFinal == Spec => EndIsFinal
<1>1. RowInv /\ [Next]_vars => [EndStays]_vars
  <2> SUFFICES ASSUME RowInv, [Next]_vars PROVE EndStays
    OBVIOUS
  <2>1. CASE UNCHANGED rows
    BY <2>1 DEF rows, EndStays
  <2>2. ASSUME NEW r \in Runs, RowChange(r) PROVE EndStays
    BY <2>2 DEF RowInv, TypeOK, RowChange, MoveTo, Live, Terminal, EndStays
  <2>3. QED
    BY <2>1, <2>2, RowStep DEF RowInv
<1>2. QED
  BY <1>1, RowsCorrect, PTL DEF Spec, EndIsFinal

-----------------------------------------------------------------------------
(* The Run keeps its promise *)

announcedBar == [r \in Runs |-> Announced(r)]

\* The ends announced after an append are those announced before it and the
\* one the appended event stands for.
LEMMA AnnouncedAfterAppend ==
    ASSUME TypeOK, NEW r \in Runs, NEW type \in EventTypes, AppendEvent(r, type)
    PROVE  announcedBar' = [announcedBar EXCEPT ![r] =
                              @ \cup {s \in Terminal : type = TerminalEventOf(s)}]
<1>1. \A s \in Runs : s # r => events'[s] = events[s]
  BY DEF TypeOK, AppendEvent
<1>2. events'[r] = events[r] \cup {[seq |-> nextSeq[r], type |-> type]}
  BY DEF TypeOK, AppendEvent
<1>3. \A s \in Runs : s # r => Announced(s)' = Announced(s)
  BY <1>1 DEF Announced
<1>4. Announced(r)' = Announced(r) \cup {s \in Terminal : type = TerminalEventOf(s)}
  <2>1. ASSUME NEW s \in Terminal
        PROVE  (\E e \in events'[r] : e.type = TerminalEventOf(s))
                 <=> (\E e \in events[r] : e.type = TerminalEventOf(s)) \/ type = TerminalEventOf(s)
    <3> DEFINE new == [seq |-> nextSeq[r], type |-> type]
    <3>1. new.type = type
      OBVIOUS
    <3> HIDE DEF new
    <3>2. events'[r] = events[r] \cup {new}
      BY <1>2 DEF new
    <3>3. QED
      BY <3>1, <3>2
  <2>2. QED
    BY <2>1 DEF Announced
<1>5. QED
  BY <1>3, <1>4 DEF announcedBar

\* An event that is no end announces none.
LEMMA NoEndNoAnnouncement ==
    ASSUME TypeOK, NEW r \in Runs, NEW type \in EventTypes \ TerminalEvents, AppendEvent(r, type)
    PROVE  announcedBar' = announcedBar
<1>1. {s \in Terminal : type = TerminalEventOf(s)} = {}
  BY DEF Terminal, TerminalEventOf, TerminalEvents
<1>2. announcedBar' = [announcedBar EXCEPT ![r] = @ \cup {}]
  BY <1>1, AnnouncedAfterAppend
<1>3. QED
  BY <1>2 DEF announcedBar

\* RunLifecycle implements RunPromise: each change of the rows is one of its
\* steps, every other step a stutter.
THEOREM RunKeepsThePromise == Spec => KeepsThePromise
<1>1. Init => Promise!Init
  <2>1. Init => \A r \in Runs : Announced(r) = {}
    BY DEF Init, Announced
  <2>2. QED
    BY <2>1 DEF Init, Promise!Init
<1>2. RowInv /\ [Next]_vars => [Promise!Next]_(Promise!vars)
  <2> SUFFICES ASSUME RowInv, [Next]_vars PROVE [Promise!Next]_(Promise!vars)
    OBVIOUS
  <2> USE DEF RowInv
  <2>1. CASE UNCHANGED rows
    <3>1. \A r \in Runs : Announced(r)' = Announced(r)
      BY <2>1 DEF rows, Announced
    <3>2. QED
      BY <2>1, <3>1 DEF rows, Promise!vars
  <2>2. ASSUME NEW r \in Runs, RowChange(r) PROVE [Promise!Next]_(Promise!vars)
    <3>1. CASE status[r] = "absent" /\ MoveTo(r, "queued", "run_queued") /\ UNCHANGED replies
      <4>1. announcedBar' = announcedBar
        BY <3>1, NoEndNoAnnouncement DEF MoveTo, EventTypes, TerminalEvents
      <4>2. Promise!Accept(r)
        BY <3>1, <4>1 DEF MoveTo, Promise!Accept, announcedBar
      <4>3. QED
        BY <4>2 DEF Promise!Next
    <3>2. CASE status[r] = "queued" /\ MoveTo(r, "running", "run_started") /\ UNCHANGED replies
      <4>1. announcedBar' = announcedBar
        BY <3>2, NoEndNoAnnouncement DEF MoveTo, EventTypes, TerminalEvents
      <4>2. Promise!Start(r)
        BY <3>2, <4>1 DEF MoveTo, Promise!Start, announcedBar
      <4>3. QED
        BY <4>2 DEF Promise!Next
    <3>3. CASE AppendEvent(r, "process") /\ UNCHANGED <<status, replies>>
      <4>1. announcedBar' = announcedBar
        BY <3>3, NoEndNoAnnouncement DEF EventTypes, TerminalEvents
      <4>2. QED
        BY <3>3, <4>1 DEF Promise!vars, announcedBar
    <3>4. ASSUME NEW end \in Terminal,
                 status[r] \in IF end = "succeeded" THEN {"running"} ELSE {"queued", "running"},
                 MoveTo(r, end, TerminalEventOf(end)),
                 replies' = [replies EXCEPT ![r] = IF end = "succeeded" THEN @ + 1 ELSE @]
          PROVE  [Promise!Next]_(Promise!vars)
      <4>1. {s \in Terminal : TerminalEventOf(end) = TerminalEventOf(s)} = {end}
        BY DEF Terminal, TerminalEventOf
      <4>2. TerminalEventOf(end) \in EventTypes
        BY DEF Terminal, TerminalEventOf, EventTypes, TerminalEvents
      <4>3. announcedBar' = [announcedBar EXCEPT ![r] = @ \cup {end}]
        BY <3>4, <4>1, <4>2, AnnouncedAfterAppend DEF MoveTo
      <4>4. Promise!End(r, end)
        BY <3>4, <4>3 DEF MoveTo, Promise!End, announcedBar
      <4>5. QED
        BY <4>4 DEF Promise!Next, Promise!Ends, Terminal
    <3>5. replies = [replies EXCEPT ![r] = @]
      BY DEF TypeOK
    <3>6. CASE \/ /\ status[r] = "running" /\ MoveTo(r, "succeeded", "run_succeeded")
                  /\ replies' = [replies EXCEPT ![r] = @ + 1]
               \/ status[r] \in Live /\ MoveTo(r, "failed", "run_failed") /\ UNCHANGED replies
               \/ status[r] \in Live /\ MoveTo(r, "cancelled", "run_cancelled") /\ UNCHANGED replies
      BY <3>4, <3>5, <3>6 DEF Live, Terminal, TerminalEventOf
    <3>7. QED
      BY <2>2, <3>1, <3>2, <3>3, <3>6 DEF RowChange
  <2>3. QED
    BY <2>1, <2>2, RowStep
<1>3. QED
  BY <1>1, <1>2, RowsCorrect, PTL DEF Spec, KeepsThePromise, Promise!Spec
-----------------------------------------------------------------------------
(* The one event that may follow the end of a diagnosis *)

\* A diagnosis task that consumes its stream has a Run that was not ended by
\* the task itself, and once an event came late it never passes the check again.
LateInv ==
    \A d \in DiagnosisRuns :
        /\ task[d] \in {"streaming", "checked"} => status[d] \in {"running", "cancelled"}
        /\ Late(d) # {} => task[d] # "checked"
        /\ \A e, f \in Late(d) : e = f

\* Only the task itself ends its Run otherwise than by a cancel, and it has
\* left its stream before it does.
LEMMA StreamingStep ==
    ASSUME RowInv, LateInv, [Next]_vars, NEW d \in DiagnosisRuns,
           task'[d] \in {"streaming", "checked"}
    PROVE  status'[d] \in {"running", "cancelled"}
<1> USE DEF RowInv, TypeOK, LateInv, Goto, MoveTo, dbVars, Runs
<1>1. ASSUME NEW q \in Requests, AcceptStep(q) PROVE status'[d] \in {"running", "cancelled"}
  <2>1. ASSUME NEW r \in Runs, AcceptCommit(q, r) PROVE status'[d] \in {"running", "cancelled"}
    BY <2>1 DEF AcceptCommit
  <2>2. CASE Schedule(q)
    BY <2>2 DEF Schedule
  <2>3. QED
    BY <1>1, <2>1, <2>2 DEF AcceptStep, Submit, AcceptRead, AcceptConflict, AcceptReread
<1>2. ASSUME NEW r \in Runs, ExecuteStep(r) PROVE status'[d] \in {"running", "cancelled"}
  <2>1. CASE ClaimRead(r) \/ ClaimLost(r) \/ LegacyCheck(r) \/ TypedStop(r) \/ Raise(r)
    BY <2>1 DEF ClaimRead, ClaimLost, LegacyCheck, TypedStop, Raise
  <2>2. CASE SuccessRead(r) \/ SuccessLost(r) \/ FailureRead(r) \/ FailureLost(r)
    BY <2>2 DEF SuccessRead, SuccessLost, FailureRead, FailureLost
  <2>3. CASE ClaimCommit(r)
    BY <2>3 DEF ClaimCommit
  <2>4. CASE SuccessCommit(r) \/ FailureCommit(r)
    BY <2>4 DEF SuccessCommit, FailureCommit
  <2>5. CASE LegacyAppend(r) \/ TypedAppend(r)
    BY <2>5 DEF LegacyAppend, TypedAppend
  <2>6. QED
    BY <1>2, <2>1, <2>2, <2>3, <2>4, <2>5 DEF ExecuteStep
<1>3. ASSUME NEW k \in Cancels, CancelStep(k) PROVE status'[d] \in {"running", "cancelled"}
  BY <1>3 DEF CancelStep, CancelRead, CancelCommit, CancelLost
<1>4. CASE Fault
  BY <1>4 DEF Fault, Restart, ResponseFails, FailureWriteFails
<1>5. CASE UNCHANGED vars
  BY <1>5 DEF vars
<1>6. QED
  BY <1>1, <1>2, <1>3, <1>4, <1>5 DEF Next

\* The check is passed only by a step that finds the Run not cancelled.
LEMMA CheckedStep ==
    ASSUME RowInv, [Next]_vars, NEW d \in DiagnosisRuns, task'[d] = "checked"
    PROVE  /\ ~LegacyAppend(d)
           /\ task[d] = "checked" \/ (task[d] = "streaming" /\ status[d] # "cancelled")
<1> USE DEF RowInv, TypeOK, Goto, Runs
<1>1. ~LegacyAppend(d)
  BY DEF LegacyAppend
<1>2. ASSUME NEW q \in Requests, AcceptStep(q) PROVE task[d] = "checked"
  BY <1>2 DEF AcceptStep, Submit, AcceptRead, AcceptCommit, AcceptConflict, AcceptReread, Schedule
<1>3. ASSUME NEW r \in Runs, ExecuteStep(r)
      PROVE  task[d] = "checked" \/ (task[d] = "streaming" /\ status[d] # "cancelled")
  <2>1. CASE LegacyCheck(r)
    BY <2>1 DEF LegacyCheck
  <2>2. ~LegacyCheck(r) => UNCHANGED task \/ \E pc \in TaskPcs \ {"checked"} : Goto(r, pc)
    BY <1>3 DEF ExecuteStep, ClaimRead, ClaimCommit, ClaimLost, LegacyAppend, TypedAppend,
                TypedStop, SuccessRead, SuccessCommit, SuccessLost, Raise, FailureRead,
                FailureCommit, FailureLost, TaskPcs
  <2>3. QED
    BY <2>1, <2>2
<1>4. ASSUME NEW k \in Cancels, CancelStep(k) PROVE task[d] = "checked"
  BY <1>4 DEF CancelStep, CancelRead, CancelCommit, CancelLost
<1>5. Fault => task[d] = "checked"
  BY DEF Fault, Restart, ResponseFails, FailureWriteFails
<1>6. UNCHANGED vars => task[d] = "checked"
  BY DEF vars
<1>7. QED
  BY <1>1, <1>2, <1>3, <1>4, <1>5, <1>6 DEF Next

\* What is appended to a live Run is not late, nor is anything before it.
LEMMA LiveLogIsNotLate ==
    ASSUME RowInv, NEW r \in Runs, NEW type, AppendEvent(r, type), status[r] \notin Terminal
    PROVE  Late(r)' = {}
<1> USE DEF RowInv
<1>1. EndsIn(r) = {}
  BY DEF EndIsAnnouncedOnce
<1>2. \A f \in EndsIn(r)' : f.seq = nextSeq[r]
  BY <1>1, EndsAfterAppend
<1>3. \A e \in events'[r] : e.seq \in Nat /\ e.seq <= nextSeq[r]
  BY DEF AppendEvent, TypeOK, LogIsNumbered
<1>4. nextSeq[r] \in Nat
  BY DEF TypeOK
<1>5. QED
  BY <1>2, <1>3, <1>4 DEF Late

LEMMA LateInvStep == RowInv /\ LateInv /\ [Next]_vars => LateInv'
<1> SUFFICES ASSUME RowInv, LateInv, [Next]_vars, NEW d \in DiagnosisRuns
             PROVE  /\ task'[d] \in {"streaming", "checked"} => status'[d] \in {"running", "cancelled"}
                    /\ Late(d)' # {} => task'[d] # "checked"
                    /\ \A e, f \in Late(d)' : e = f
  BY DEF LateInv
<1>1. task'[d] \in {"streaming", "checked"} => status'[d] \in {"running", "cancelled"}
  BY StreamingStep
<1>2. d \in Runs
  BY DEF Runs
<1>3. Late(d) # {} => task'[d] # "checked"
  <2> SUFFICES ASSUME task'[d] = "checked" PROVE Late(d) = {}
    OBVIOUS
  <2>1. CASE task[d] = "checked"
    BY <2>1 DEF LateInv
  <2>2. CASE task[d] = "streaming" /\ status[d] # "cancelled"
    <3>1. status[d] \notin Terminal
      BY <2>2 DEF LateInv, Terminal
    <3>2. EndsIn(d) = {}
      BY <1>2, <3>1 DEF RowInv, EndIsAnnouncedOnce
    <3>3. QED
      BY <3>2 DEF Late
  <2>3. QED
    BY <2>1, <2>2, CheckedStep
<1>4. CASE Late(d)' = Late(d)
  BY <1>1, <1>3, <1>4 DEF LateInv
<1>5. CASE UNCHANGED rows
  BY <1>4, <1>5 DEF rows, Late, EndsIn
<1>6. ASSUME NEW r \in Runs, RowChange(r), r # d
      PROVE  Late(d)' = Late(d)
  <2>1. PICK type \in EventTypes : AppendEvent(r, type)
    BY <1>6 DEF RowChange, MoveTo, EventTypes, TerminalEvents
  <2>2. EndsIn(d)' = EndsIn(d) /\ events'[d] = events[d]
    BY <1>2, <1>6, <2>1, EndsAfterAppend DEF RowInv, TypeOK, AppendEvent
  <2>3. QED
    BY <2>2 DEF Late
<1>7. CASE RowChange(d) /\ status[d] \notin Terminal
  <2>1. PICK type \in EventTypes : AppendEvent(d, type)
    BY <1>7 DEF RowChange, MoveTo, EventTypes, TerminalEvents
  <2>2. Late(d)' = {}
    BY <1>2, <1>7, <2>1, LiveLogIsNotLate
  <2>3. QED
    BY <1>1, <2>2
<1>8. CASE RowChange(d) /\ status[d] \in Terminal
  <2>1. LegacyAppend(d) /\ AppendEvent(d, "process")
    BY <1>8 DEF RowChange, Live, Terminal
  <2>2. Late(d) = {}
    BY <2>1 DEF LegacyAppend, LateInv
  <2>3. EndsIn(d)' = EndsIn(d)
    BY <1>2, <2>1, EndsAfterAppend DEF RowInv, TerminalEvents
  <2>4. events'[d] = events[d] \cup {[seq |-> nextSeq[d], type |-> "process"]}
    BY <1>2, <2>1 DEF RowInv, TypeOK, AppendEvent
  <2>5. Late(d)' \subseteq {[seq |-> nextSeq[d], type |-> "process"]}
    BY <2>2, <2>3, <2>4 DEF Late
  <2>6. task'[d] # "checked"
    BY <1>2, <2>1, CheckedStep
  <2>7. QED
    BY <1>1, <2>5, <2>6
<1>9. QED
  BY <1>4, <1>5, <1>6, <1>7, <1>8, RowStep DEF RowInv

LEMMA LatesCorrect == Spec => []LateInv
<1>1. Init => LateInv
  BY DEF Init, LateInv, Late, Runs
<1>2. QED
  BY <1>1, LateInvStep, RowsCorrect, PTL DEF Spec

\* The event log of every Run is well formed, numbered, announces its end and
\* no other, at most one event of a diagnosis comes after it, and a reply is
\* there exactly for a success.
THEOREM RowsAlwaysTellTheRun == Spec => []RowsTellTheRun
<1>1. RowInv /\ LateInv => RowsTellTheRun
  BY DEF RowInv, LateInv, RowsTellTheRun, AtMostOneLateEvent
<1>2. QED
  BY <1>1, RowsCorrect, LatesCorrect, PTL

-----------------------------------------------------------------------------
(* Idempotency keys *)

\* What is known of a request between its transactions: only an accepted or
\* answered one names a Run, one that was told it replays was not accepted, and
\* one past the reads of a rerun found its original ended.
RequestFits(q) ==
    /\ request[q].run # NoRun => request[q].pc \in {"accepted", "answered"}
    /\ request[q].pc = "accepted" => request[q].answer # "replayed"
    /\ request[q].pc \in {"inserting", "conflict"} /\ request[q].cmd.endpoint = "rerun"
         => status[request[q].cmd.content] \in Terminal

KeyInv ==
    /\ KeysAreHonest
    /\ \A q \in Requests : RequestFits(q)

\* The row of a request's Run, for the command it was answered for.
RowFor(r, cmd) ==
    \E a \in idem : a.run = r /\ SameScope(a.cmd, cmd) /\ SameFingerprint(a.cmd, cmd)

\* A transaction that leaves the tables alone and answers q from what they
\* say, or moves it on, keeps what is known of every request.
LEMMA AnswerKeeps ==
    ASSUME RowInv, KeyInv, UNCHANGED dbVars, NEW q \in Requests,
           NEW pc \in RequestPcs, NEW r \in Runs \cup {NoRun}, NEW answer \in Answers,
           NEW cmd \in Command,
           request' = [request EXCEPT ![q] = [pc |-> pc, cmd |-> cmd, run |-> r, answer |-> answer]],
           RequestFits(q)',
           r # NoRun => RowFor(r, cmd),
           \/ r = NoRun
           \/ answer = "replayed"
           \/ r = request[q].run /\ request[q].pc = "accepted"
    PROVE  KeyInv'
<1> USE DEF RowInv, TypeOK, KeyInv, KeysAreHonest, dbVars
<1>1. OneRunPerKey' /\ RerunsRepeatEndedRuns'
  BY DEF OneRunPerKey, RerunsRepeatEndedRuns
<1>2. request'[q] = [pc |-> pc, cmd |-> cmd, run |-> r, answer |-> answer]
      /\ \A p \in Requests : p # q => request'[p] = request[p]
  BY DEF TypeOK
<1>3. AnswerFitsQuestion'
  BY <1>2 DEF AnswerFitsQuestion, RowFor
<1>4. StartedByOneRequest'
  <2> SUFFICES ASSUME NEW p1 \in Requests, NEW p2 \in Requests,
                      request'[p1].run # NoRun, request'[p1].run = request'[p2].run,
                      {request'[p1].pc, request'[p2].pc} \subseteq {"accepted", "answered"},
                      "replayed" \notin {request'[p1].answer, request'[p2].answer}
               PROVE  p1 = p2
    BY DEF StartedByOneRequest
  <2>1. ASSUME NEW p \in Requests, request'[p].run # NoRun, request'[p].answer # "replayed"
        PROVE  /\ request[p].run = request'[p].run
               /\ request[p].pc \in {"accepted", "answered"}
               /\ request[p].answer # "replayed"
    <3>1. CASE p # q
      BY <1>2, <2>1, <3>1 DEF RequestFits
    <3>2. CASE p = q
      BY <1>2, <2>1, <3>2 DEF RequestFits
    <3>3. QED
      BY <3>1, <3>2
  <2>2. /\ request[p1].run # NoRun /\ request[p1].run = request[p2].run
        /\ {request[p1].pc, request[p2].pc} \subseteq {"accepted", "answered"}
        /\ "replayed" \notin {request[p1].answer, request[p2].answer}
    BY <2>1
  <2>3. QED
    BY <2>2 DEF StartedByOneRequest
<1>5. \A p \in Requests : RequestFits(p)'
  BY <1>2 DEF RequestFits
<1>6. QED
  BY <1>1, <1>3, <1>4, <1>5

\* A stored key answers with its own Run when it stands for the same question.
LEMMA FromKeyKeeps ==
    ASSUME RowInv, KeyInv, UNCHANGED dbVars, NEW q \in Requests, NEW row \in idem,
           SameScope(row.cmd, request[q].cmd), AnswerFromKey(q, row),
           request[q].cmd \in Command
    PROVE  KeyInv'
<1> USE DEF Answer, Proceed
<1>1. row.run \in Runs
  BY DEF RowInv, TypeOK
<1>2. CASE SameFingerprint(row.cmd, request[q].cmd)
  <2>1. request' = [request EXCEPT ![q] = [pc |-> "answered", cmd |-> request[q].cmd,
                                           run |-> row.run, answer |-> "replayed"]]
    BY <1>2 DEF AnswerFromKey
  <2>2. RequestFits(q)'
    BY <2>1 DEF RequestFits, RowInv, TypeOK
  <2>3. RowFor(row.run, request[q].cmd)
    BY <1>2 DEF RowFor
  <2>4. "answered" \in RequestPcs /\ "replayed" \in Answers
    BY DEF RequestPcs, Answers
  <2>5. QED
    BY <1>1, <2>1, <2>2, <2>3, <2>4, AnswerKeeps
<1>3. CASE ~SameFingerprint(row.cmd, request[q].cmd)
  <2>1. request' = [request EXCEPT ![q] = [pc |-> "answered", cmd |-> request[q].cmd,
                                           run |-> NoRun, answer |-> "key_reused"]]
    BY <1>3 DEF AnswerFromKey
  <2>2. RequestFits(q)'
    BY <2>1 DEF RequestFits, RowInv, TypeOK
  <2>3. "answered" \in RequestPcs /\ "key_reused" \in Answers
    BY DEF RequestPcs, Answers
  <2>4. QED
    BY <2>1, <2>2, <2>3, AnswerKeeps
<1>4. QED
  BY <1>2, <1>3

\* A step that only moves the Runs on, without forgetting an end.
LEMMA RunsMoveKeeps ==
    ASSUME RowInv, KeyInv, UNCHANGED <<idem, request>>,
           \A r \in Runs : /\ status'[r] = "absent" <=> status[r] = "absent"
                           /\ status[r] \in Terminal => status'[r] \in Terminal
    PROVE  KeyInv'
<1> USE DEF RowInv, TypeOK, KeyInv, KeysAreHonest
<1>1. OneRunPerKey'
  BY DEF OneRunPerKey
<1>2. AnswerFitsQuestion' /\ StartedByOneRequest'
  BY DEF AnswerFitsQuestion, StartedByOneRequest
<1>3. \A cmd \in Command : cmd.endpoint = "rerun" => cmd.content \in Runs
  BY DEF Command
<1>4. RerunsRepeatEndedRuns'
  BY <1>3 DEF RerunsRepeatEndedRuns
<1>5. \A q \in Requests : RequestFits(q)'
  BY <1>3 DEF RequestFits
<1>6. QED
  BY <1>1, <1>2, <1>4, <1>5

\* The insert of a Run: its key is new, so is its identifier, and nobody has
\* been answered with it.
LEMMA CommitKeeps ==
    ASSUME RowInv, KeyInv, NEW q \in Requests, NEW r \in Runs, AcceptCommit(q, r)
    PROVE  KeyInv'
<1> USE DEF RowInv, TypeOK, KeyInv, KeysAreHonest
<1> DEFINE new == [cmd |-> request[q].cmd, run |-> r]
<1>1. /\ request[q].pc = "inserting" /\ request[q].cmd \in Command /\ request[q].run = NoRun
      /\ status[r] = "absent" /\ status' = [status EXCEPT ![r] = "queued"]
      /\ idem' = idem \cup {new}
      /\ \A a \in idem : ~SameScope(a.cmd, request[q].cmd)
  BY DEF AcceptCommit, RequestFits
<1>2. /\ request'[q] = [pc |-> "accepted", cmd |-> request[q].cmd, run |-> r, answer |-> "none"]
      /\ \A p \in Requests : p # q => request'[p] = request[p]
  BY DEF AcceptCommit, Proceed
<1>3. \A a \in idem : a.run # r
  BY <1>1 DEF OneRunPerKey
<1>4. \A p \in Requests : request[p].run # r
  BY <1>3, RunsAssumption DEF AnswerFitsQuestion
<1>5. OneRunPerKey'
  <2>1. \A a, b \in idem' : SameScope(a.cmd, b.cmd) \/ a.run = b.run => a = b
    BY <1>1, <1>3 DEF OneRunPerKey, SameScope
  <2>2. \A s \in Runs : status'[s] # "absent" <=> \E a \in idem' : a.run = s
    <3>1. new \in idem' /\ new.run = r /\ status'[r] # "absent"
      BY <1>1
    <3>2. \A s \in Runs : s # r => status'[s] = status[s]
      BY <1>1
    <3>3. \A s \in Runs : s # r => ((\E a \in idem' : a.run = s) <=> \E a \in idem : a.run = s)
      BY <1>1
    <3>4. QED
      BY <3>1, <3>2, <3>3 DEF OneRunPerKey
  <2>3. QED
    BY <2>1, <2>2 DEF OneRunPerKey
<1>6. AnswerFitsQuestion'
  <2>1. new \in idem' /\ new.run = r /\ SameScope(new.cmd, request[q].cmd)
        /\ SameFingerprint(new.cmd, request[q].cmd)
    BY <1>1 DEF SameScope, SameFingerprint
  <2> HIDE DEF new
  <2>2. \A p \in Requests : p # q => request'[p] = request[p]
    BY <1>2
  <2>3. request'[q].run = r /\ request'[q].cmd = request[q].cmd
    BY <1>2
  <2>4. idem \subseteq idem'
    BY <1>1
  <2>5. QED
    BY <2>1, <2>2, <2>3, <2>4 DEF AnswerFitsQuestion
<1>7. StartedByOneRequest'
  BY <1>2, <1>4 DEF StartedByOneRequest
<1>8. \A s \in Runs : status[s] \in Terminal => status'[s] \in Terminal
  BY <1>1 DEF Terminal
<1>9. \A cmd \in Command : cmd.endpoint = "rerun" => cmd.content \in Runs
  BY DEF Command
<1>10. RerunsRepeatEndedRuns'
  BY <1>1, <1>8, <1>9 DEF RerunsRepeatEndedRuns, RequestFits
<1>11. \A p \in Requests : RequestFits(p)'
  BY <1>2, <1>8, <1>9 DEF RequestFits
<1>12. QED
  BY <1>5, <1>6, <1>7, <1>10, <1>11

LEMMA AcceptKeeps ==
    ASSUME RowInv, KeyInv, NEW q \in Requests, AcceptStep(q)
    PROVE  KeyInv'
<1> USE DEF Answer, Proceed
<1>1. request[q].pc # "idle" => request[q].cmd \in Command
  BY DEF RowInv, TypeOK
<1>2. {"reading", "inserting", "conflict", "answered"} \subseteq RequestPcs
      /\ {"none", "not_terminal", "created"} \subseteq Answers
  BY DEF RequestPcs, Answers
<1>3. ASSUME NEW cmd \in Command, Submit(q, cmd) PROVE KeyInv'
  <2>1. request' = [request EXCEPT ![q] = [pc |-> "reading", cmd |-> cmd, run |-> NoRun,
                                           answer |-> "none"]] /\ UNCHANGED dbVars
    BY <1>3 DEF Submit
  <2>2. RequestFits(q)'
    BY <2>1 DEF RequestFits, RowInv, TypeOK
  <2>3. QED
    BY <1>2, <2>1, <2>2, AnswerKeeps
<1>4. ASSUME UNCHANGED dbVars, request[q].cmd \in Command,
             NEW pc \in {"inserting", "conflict", "answered"}, NEW answer \in {"none", "not_terminal"},
             request' = [request EXCEPT ![q] = [pc |-> pc, cmd |-> request[q].cmd, run |-> NoRun,
                                                answer |-> answer]],
             pc \in {"inserting", "conflict"} /\ request[q].cmd.endpoint = "rerun"
               => status[request[q].cmd.content] \in Terminal
      PROVE  KeyInv'
  <2>1. RequestFits(q)'
    BY <1>4 DEF RequestFits, RowInv, TypeOK, dbVars
  <2>2. QED
    BY <1>2, <1>4, <2>1, AnswerKeeps
<1>5. CASE AcceptRead(q)
  <2>1. request[q].cmd \in Command /\ UNCHANGED dbVars
    BY <1>1, <1>5 DEF AcceptRead
  <2>2. ASSUME NEW row \in idem, SameScope(row.cmd, request[q].cmd), AnswerFromKey(q, row)
        PROVE  KeyInv'
    BY <2>1, <2>2, FromKeyKeeps
  <2>3. CASE Answer(q, "not_terminal", NoRun)
    BY <1>4, <2>1, <2>3
  <2>4. CASE /\ ~(request[q].cmd.endpoint = "rerun" /\ status[request[q].cmd.content] \notin Terminal)
             /\ Proceed(q, "inserting", NoRun, "none")
    BY <1>4, <2>1, <2>4
  <2>5. QED
    BY <1>5, <2>2, <2>3, <2>4 DEF AcceptRead
<1>6. ASSUME NEW r \in Runs, AcceptCommit(q, r) PROVE KeyInv'
  BY <1>6, CommitKeeps
<1>7. CASE AcceptConflict(q)
  <2>1. request[q].cmd \in Command /\ UNCHANGED dbVars
    BY <1>1, <1>7 DEF AcceptConflict
  <2>2. request[q].cmd.endpoint = "rerun" => status[request[q].cmd.content] \in Terminal
    BY <1>7 DEF AcceptConflict, KeyInv, RequestFits
  <2>3. QED
    BY <1>4, <1>7, <2>1, <2>2 DEF AcceptConflict
<1>8. CASE AcceptReread(q)
  <2>1. request[q].cmd \in Command /\ UNCHANGED dbVars
    BY <1>1, <1>8 DEF AcceptReread
  <2>2. QED
    BY <1>8, <2>1, FromKeyKeeps DEF AcceptReread
<1>9. CASE Schedule(q)
  <2> DEFINE r == request[q].run
  <2>1. request[q].cmd \in Command /\ UNCHANGED dbVars /\ r \in Runs \cup {NoRun}
    BY <1>1, <1>9 DEF Schedule, RowInv, TypeOK
  <2>2. request' = [request EXCEPT ![q] = [pc |-> "answered", cmd |-> request[q].cmd, run |-> r,
                                           answer |-> "created"]]
    BY <1>9 DEF Schedule
  <2>3. RequestFits(q)'
    BY <2>2 DEF RequestFits, RowInv, TypeOK
  <2>4. r # NoRun => RowFor(r, request[q].cmd)
    BY DEF KeyInv, KeysAreHonest, AnswerFitsQuestion, RowFor
  <2>5. request[q].pc = "accepted"
    BY <1>9 DEF Schedule
  <2>6. QED
    BY <1>2, <2>1, <2>2, <2>3, <2>4, <2>5, AnswerKeeps
<1>10. QED
  BY <1>3, <1>5, <1>6, <1>7, <1>8, <1>9 DEF AcceptStep

\* A restart or a failing response answers what it interrupts with nothing,
\* and the Run an accepted request had stays its own.
LEMMA FaultKeeps ==
    ASSUME RowInv, KeyInv, Fault
    PROVE  KeyInv'
<1> USE DEF RowInv, TypeOK, KeyInv, KeysAreHonest, dbVars
<1>1. UNCHANGED <<status, idem>>
  BY DEF Fault, Restart, ResponseFails, FailureWriteFails
<1>2. OneRunPerKey' /\ RerunsRepeatEndedRuns'
  BY <1>1 DEF OneRunPerKey, RerunsRepeatEndedRuns
<1>3. \A q \in Requests :
        /\ request'[q].run = request[q].run /\ request'[q].cmd = request[q].cmd
        /\ \/ request'[q].pc = request[q].pc /\ request'[q].answer = request[q].answer
           \/ /\ request[q].pc \notin {"idle", "answered"}
              /\ request'[q].pc = "answered" /\ request'[q].answer = "lost"
  <2>1. CASE Restart
    BY <2>1 DEF Restart
  <2>2. ASSUME NEW q \in Requests, ResponseFails(q)
        PROVE  /\ request[q].pc = "accepted"
               /\ request' = [request EXCEPT ![q] = [pc |-> "answered", cmd |-> request[q].cmd,
                                                    run |-> request[q].run, answer |-> "lost"]]
    BY <2>2 DEF ResponseFails, Answer, Proceed
  <2>3. ASSUME NEW r \in Runs, FailureWriteFails(r) PROVE UNCHANGED request
    BY <2>3 DEF FailureWriteFails
  <2>4. QED
    BY <2>1, <2>2, <2>3 DEF Fault
<1>4. AnswerFitsQuestion'
  BY <1>1, <1>3 DEF AnswerFitsQuestion
<1>5. StartedByOneRequest'
  <2>1. ASSUME NEW p \in Requests, request'[p].run # NoRun, request'[p].answer # "replayed"
        PROVE  /\ request[p].run = request'[p].run
               /\ request[p].pc \in {"accepted", "answered"}
               /\ request[p].answer # "replayed"
    BY <1>3, <2>1 DEF RequestFits
  <2>2. QED
    BY <2>1 DEF StartedByOneRequest
<1>6. \A q \in Requests : RequestFits(q)'
  BY <1>1, <1>3 DEF RequestFits
<1>7. QED
  BY <1>2, <1>4, <1>5, <1>6

LEMMA KeyInvStep == RowInv /\ KeyInv /\ [Next]_vars => KeyInv'
<1> SUFFICES ASSUME RowInv, KeyInv, [Next]_vars PROVE KeyInv'
  OBVIOUS
<1>1. ASSUME NEW q \in Requests, AcceptStep(q) PROVE KeyInv'
  BY <1>1, AcceptKeeps
<1>2. ASSUME NEW r \in Runs, ExecuteStep(r) PROVE KeyInv'
  <2>1. UNCHANGED <<idem, request>>
    BY <1>2 DEF ExecuteStep, ClaimRead, ClaimCommit, ClaimLost, LegacyCheck, LegacyAppend,
                TypedAppend, TypedStop, SuccessRead, SuccessCommit, SuccessLost, Raise, FailureRead,
                FailureCommit, FailureLost, dbVars
  <2>2. \/ UNCHANGED status
        \/ status[r] \in Live /\ \E new \in {"running"} \cup Terminal :
               status' = [status EXCEPT ![r] = new]
    BY <1>2 DEF ExecuteStep, ClaimRead, ClaimCommit, ClaimLost, LegacyCheck, LegacyAppend,
                TypedAppend, TypedStop, SuccessRead, SuccessCommit, SuccessLost, Raise, FailureRead,
                FailureCommit, FailureLost, dbVars, MoveTo, MayClaim, MaySucceed, MayFail, Live, Terminal
  <2>3. \A s \in Runs : /\ status'[s] = "absent" <=> status[s] = "absent"
                        /\ status[s] \in Terminal => status'[s] \in Terminal
    BY <2>2 DEF Live, Terminal, RowInv, TypeOK
  <2>4. QED
    BY <2>1, <2>3, RunsMoveKeeps
<1>3. ASSUME NEW k \in Cancels, CancelStep(k) PROVE KeyInv'
  <2>1. UNCHANGED <<idem, request>>
    BY <1>3 DEF CancelStep, CancelRead, CancelCommit, CancelLost, dbVars
  <2>2. \/ UNCHANGED status
        \/ /\ status[cancel[k].run] \in Live
           /\ status' = [status EXCEPT ![cancel[k].run] = "cancelled"]
    BY <1>3 DEF CancelStep, CancelRead, CancelCommit, CancelLost, dbVars, MoveTo, MayCancel
  <2>3. \A s \in Runs : /\ status'[s] = "absent" <=> status[s] = "absent"
                        /\ status[s] \in Terminal => status'[s] \in Terminal
    BY <2>2 DEF Live, Terminal, RowInv, TypeOK
  <2>4. QED
    BY <2>1, <2>3, RunsMoveKeeps
<1>4. CASE Fault
  BY <1>4, FaultKeeps
<1>5. CASE UNCHANGED vars
  BY <1>5, RunsMoveKeeps DEF vars
<1>6. QED
  BY <1>1, <1>2, <1>3, <1>4, <1>5 DEF Next

LEMMA KeyInvInit == Init => KeyInv
<1> SUFFICES ASSUME Init PROVE KeyInv
  OBVIOUS
<1>1. \A q \in Requests : request[q].pc = "idle" /\ request[q].run = NoRun
  BY DEF Init
<1>2. idem = {} /\ \A r \in Runs : status[r] = "absent"
  BY DEF Init
<1>3. QED
  BY <1>1, <1>2 DEF KeyInv, KeysAreHonest, RequestFits, OneRunPerKey, AnswerFitsQuestion,
                    StartedByOneRequest, RerunsRepeatEndedRuns

\* One key admits one Run, answers with the Run it was asked for, has it
\* executed by one request, and repeats only what had ended, for any number of
\* requests, keys and Runs.
THEOREM KeysAlwaysHonest == Spec => []KeysAreHonest
<1>1. KeyInv => KeysAreHonest
  BY DEF KeyInv
<1>2. QED
  BY <1>1, KeyInvInit, KeyInvStep, RowsCorrect, PTL DEF Spec
=============================================================================

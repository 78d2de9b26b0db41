--------------------------- MODULE HistoryExports ---------------------------
(***************************************************************************)
(* The two exports: the audit stream as a file (audit_service.py, the      *)
(* export route, audit_export_renderer.py and the export of AuditPage.tsx) *)
(* and one session as a document (session_export.py).                      *)
(*                                                                         *)
(* Both are put together from several statements, each of which sees what  *)
(* is committed when it runs, while Runs and proposals go on.              *)
(***************************************************************************)
EXTENDS AuditTrail

CONSTANTS
    AuditIds,      \* keys of audited rows: even ones are Runs, odd ones events
    ExportMax,     \* EXPORT_MAX_ITEMS
    Exports,       \* audit exports asked for by the page
    Turns,         \* turns of a session in the order of their times: the odd ones are
                   \* diagnosis Runs, the even ones main_agent Runs
    MessageCap,    \* MESSAGE_EXPORT_CAP
    RunCap         \* RUN_EXPORT_CAP

ASSUME ExportsAssumption ==
    /\ AuditIds \subseteq Nat \ {0} /\ IsFiniteSet(AuditIds)
    /\ Turns \subseteq Nat \ {0} /\ IsFiniteSet(Turns)
    /\ {ExportMax, MessageCap, RunCap} \subseteq Nat \ {0}

VARIABLES
    audited,     \* the audited rows
    export,      \* export[e]: an audit export
    view,        \* the page: [state, filter]
    files,       \* the files that were downloaded
    turn,        \* turn[t]: a turn of the session
    document     \* the session's export

exportVars == <<audited, export, view, files, turn, document>>

-----------------------------------------------------------------------------
(* Values *)

ExportStates == {"idle", "exporting", "done", "empty", "limit", "error"}
ExportFilters == {NoFilter, [NoFilter EXCEPT !.outcome = "failed"]}

ExportAt(pc, filter, runs, steady) ==
    [pc |-> pc, filter |-> filter, runs |-> runs, steady |-> steady]

\* a document as far as it is read; there are the messages that were there when it was asked
NoDocument ==
    [step |-> "none", there |-> {}, messages |-> <<>>, runs |-> <<>>,
     cut |-> [messages |-> FALSE, runs |-> FALSE]]

AuditedRow(id) ==
    IF id % 2 = 0 THEN [kind |-> "run", id |-> id, at |-> id, tag |-> "running", service |-> "s1"]
    ELSE [kind |-> "action", id |-> id, at |-> id, service |-> "s1",
          tag |-> <<"action_failed", "failed">>]

ExportsInit ==
    /\ \E before \in SUBSET AuditIds : audited = {AuditedRow(id) : id \in before}
    /\ export = [e \in Exports |-> ExportAt("none", NoFilter, <<>>, {})]
    /\ view = [state |-> "idle", filter |-> NoFilter]
    /\ files = {}
    /\ turn = [t \in Turns |-> "absent"]
    /\ document = NoDocument

-----------------------------------------------------------------------------
(* The audit export *)

Matching(filter) == {r.id : r \in {q \in audited : Matches(q, filter)}}

\* trigger_export of the page: not while one is known to be underway
TriggerExport(e) ==
    /\ export[e].pc = "none" /\ view.state # "exporting"
    /\ view' = [view EXCEPT !.state = "exporting"]
    /\ export' = [export EXCEPT ![e] = ExportAt("runs", view.filter, <<>>, {})]
    /\ UNCHANGED <<audited, files, turn, document>>

\* list_all_activities reads the Runs
ExportReadsRuns(e) ==
    /\ export[e].pc = "runs"
    /\ export' = [export EXCEPT ![e] = ExportAt("events", @.filter,
          RunSide(audited, ExportMax, NoCursor, @.filter), Matching(@.filter))]
    /\ UNCHANGED <<audited, view, files, turn, document>>

\* render_audit_export: the count in the head is that of the rows
Rendered(items) == [count |-> Len(items), rows |-> items]

\* the events, then the file or the refusal; only an answer sets the state of the page
ExportAnswers(e) ==
    /\ export[e].pc = "events"
    /\ LET outcome == ExportOf(export[e].runs,
                               ActionSide(audited, ExportMax, NoCursor, export[e].filter), ExportMax)
           file == Rendered(outcome.items)
       IN /\ export' = [export EXCEPT ![e].pc = "done"]
          /\ view' = [view EXCEPT !.state =
               IF outcome.refused THEN "limit" ELSE IF file.count = 0 THEN "empty" ELSE "done"]
          /\ files' = IF outcome.refused THEN files
                      ELSE files \cup {[of |-> e, filter |-> export[e].filter,
                                        steady |-> export[e].steady, file |-> file]}
    /\ UNCHANGED <<audited, turn, document>>

\* Mutant: the page is not told of a failure.
ExportFailsSilently(e) ==
    /\ export[e].pc \in {"runs", "events"}
    /\ export' = [export EXCEPT ![e].pc = "done"]
    /\ UNCHANGED <<audited, view, files, turn, document>>
\* a request fails, at the server or on its way
ExportFails(e) ==
    /\ export[e].pc \in {"runs", "events"}
    /\ export' = [export EXCEPT ![e].pc = "done"]
    /\ view' = [view EXCEPT !.state = "error"]
    /\ UNCHANGED <<audited, files, turn, document>>

\* the filters may be changed during an export; reset_filters also forgets the export
SetFilter(filter) ==
    /\ view' = [view EXCEPT !.filter = filter]
    /\ UNCHANGED <<audited, export, files, turn, document>>

ResetFilters ==
    /\ view' = [state |-> "idle", filter |-> NoFilter]
    /\ UNCHANGED <<audited, export, files, turn, document>>

\* a row is committed; a Run fails or an approval is not given in time
Steady(ids) == [e \in Exports |-> [export[e] EXCEPT !.steady = @ \ ids]]

RowWritten(id) ==
    /\ id \notin {r.id : r \in audited}
    /\ audited' = audited \cup {AuditedRow(id)}
    /\ UNCHANGED <<export, view, files, turn, document>>

AuditedRunFails(id) ==
    /\ \E r \in audited :
         /\ r.id = id /\ r.kind = "run" /\ r.tag = "running"
         /\ audited' = (audited \ {r}) \cup {[r EXCEPT !.tag = "failed"]}
    /\ export' = Steady({id})
    /\ UNCHANGED <<view, files, turn, document>>
-----------------------------------------------------------------------------
(* The session's document *)

\* The messages of a turn: its question at twice its number, and its answer after it
QuestionAt(t) == 2 * t
AnswerAt(t) == 2 * t + 1
Messages ==
    {QuestionAt(t) : t \in {u \in Turns : turn[u] # "absent"}}
      \cup {AnswerAt(t) : t \in {u \in Turns : turn[u] = "succeeded"}}
SessionRuns == {t \in Turns : turn[t] # "absent"}

\* list_latest_by_session: the last ones, oldest first, the deleted messages with them
Latest(S, n) ==
    LET behind(m) == Cardinality({k \in S : k > m})
        size == IF Cardinality(S) < n THEN Cardinality(S) ELSE n
    IN [i \in 1 .. size |-> CHOOSE m \in S : behind(m) = size - i]

\* Mutant: the first of what was read are kept.
KeptOfHead(read, cap) == SubSeq(read, 1, IF Len(read) < cap THEN Len(read) ELSE cap)
\* one more than the cap is read, and the last of them kept
Kept(read, cap) == SubSeq(read, IF Len(read) > cap THEN Len(read) - cap + 1 ELSE 1, Len(read))

DocumentAsked ==
    /\ document.step \in {"none", "done", "failed"}
    /\ document' = [NoDocument EXCEPT !.step = "messages", !.there = Messages]
    /\ UNCHANGED <<audited, export, view, files, turn>>

DocumentReadsMessages ==
    /\ document.step = "messages"
    /\ LET read == Latest(Messages, MessageCap + 1)
       IN document' = [document EXCEPT !.step = "runs", !.messages = Kept(read, MessageCap),
                                       !.cut.messages = Len(read) > MessageCap]
    /\ UNCHANGED <<audited, export, view, files, turn>>

RunRead(t) == [run |-> t, status |-> turn[t], result |-> "unread"]

DocumentReadsRuns ==
    /\ document.step = "runs"
    /\ LET read == Latest(SessionRuns, RunCap + 1)
           kept == Kept(read, RunCap)
       IN document' = [document EXCEPT !.step = "results",
              !.runs = [i \in DOMAIN kept |-> RunRead(kept[i])],
              !.cut.runs = Len(read) > RunCap]
    /\ UNCHANGED <<audited, export, view, files, turn>>

\* a diagnosis Run that succeeded has a result, a main_agent Run has none of this kind
ResultOf(t) == IF turn[t] = "succeeded" /\ t % 2 = 1 THEN "read" ELSE "absent"

Unread == {i \in DOMAIN document.runs : document.runs[i].result = "unread"}

DocumentReadsResult ==
    /\ document.step = "results" /\ Unread # {}
    /\ LET i == CHOOSE k \in Unread : \A j \in Unread : k <= j
       IN document' = [document EXCEPT !.runs[i].result = ResultOf(document.runs[i].run)]
    /\ UNCHANGED <<audited, export, view, files, turn>>

\* build_session_export_markdown and the answer
DocumentDone ==
    /\ document.step = "results" /\ Unread = {}
    /\ document' = [document EXCEPT !.step = "done"]
    /\ UNCHANGED <<audited, export, view, files, turn>>

\* a statement fails: nothing of the document is handed out
DocumentFails ==
    /\ document.step \in {"messages", "runs", "results"}
    /\ document' = [NoDocument EXCEPT !.step = "failed"]
    /\ UNCHANGED <<audited, export, view, files, turn>>

\* the session goes on: a question with its Run, the Run's way, and its end with the answer
Asks(t) ==
    /\ turn[t] = "absent" /\ \A u \in Turns : u < t => turn[u] # "absent"
    /\ turn' = [turn EXCEPT ![t] = "running"]
    /\ UNCHANGED <<audited, export, view, files, document>>

Ends(t, status) ==
    /\ turn[t] = "running"
    /\ turn' = [turn EXCEPT ![t] = status]
    /\ UNCHANGED <<audited, export, view, files, document>>

ExportsNext ==
    \/ \E e \in Exports : TriggerExport(e) \/ ExportReadsRuns(e) \/ ExportAnswers(e) \/ ExportFails(e)
    \/ \E filter \in ExportFilters : SetFilter(filter)
    \/ ResetFilters
    \/ \E id \in AuditIds : RowWritten(id) \/ AuditedRunFails(id)

DocumentNext ==
    \/ DocumentAsked \/ DocumentReadsMessages \/ DocumentReadsRuns \/ DocumentReadsResult
    \/ DocumentDone \/ DocumentFails
    \/ \E t \in Turns : Asks(t) \/ \E status \in {"succeeded", "failed", "cancelled"} : Ends(t, status)

ExportsSpec == ExportsInit /\ [][ExportsNext \/ DocumentNext]_exportVars

-----------------------------------------------------------------------------
(* What is handed out *)

RowsOf(f) == f.file.rows
RowIds(rows) == {rows[i].id : i \in DOMAIN rows}

\* A file has its rows in the order of the stream, each once, every row that was there
\* and stayed as it was while it was read, and no more than the limit; a page that says it
\* is exporting has an export underway.
FilesAreWhole ==
    /\ \A f \in files :
         /\ \A i, j \in DOMAIN RowsOf(f) : i < j => Newer(RowsOf(f)[i], RowsOf(f)[j])
         /\ f.steady \subseteq RowIds(RowsOf(f))
         /\ f.file.count = Cardinality(RowIds(RowsOf(f))) /\ f.file.count <= ExportMax
    /\ view.state = "exporting" => \E e \in Exports : export[e].pc \in {"runs", "events"}

Said(m) == \E i \in DOMAIN document.messages : document.messages[i] = m
Told(t) == {i \in DOMAIN document.runs : document.runs[i].run = t}

\* A document has the last messages that were there when it was asked for; a question or
\* an answer among them has its Run in the summary, with the status the message implies,
\* if the summary is not cut; and a Run shown as succeeded has its result.
DocumentsAreTrue ==
    document.step = "done" =>
        /\ \A m \in document.there : Said(m) \/ (document.cut.messages
               /\ \A i \in DOMAIN document.messages : document.messages[i] > m)
        /\ \A t \in Turns : ~document.cut.runs =>
             /\ Said(QuestionAt(t)) => Told(t) # {}
             /\ Said(AnswerAt(t)) => \E i \in Told(t) : document.runs[i].status = "succeeded"
        /\ \A i \in DOMAIN document.runs :
             /\ Cardinality(Told(document.runs[i].run)) = 1
             /\ document.runs[i].status = "succeeded" =>
                  (document.runs[i].result = "read" <=> document.runs[i].run % 2 = 1)
             /\ document.runs[i].status \in {"failed", "cancelled"} =>
                  document.runs[i].result = "absent"

(* What leaves the system as a file is a whole of what was there: nothing  *)
(* is cut without saying so, and what one statement read is not denied by  *)
(* what a later one read.                                                  *)
ExportsAreTrue == FilesAreWhole /\ DocumentsAreTrue
=============================================================================

----------------------------- MODULE AuditTrail -----------------------------
(***************************************************************************)
(* The audit stream: domain/audit.py, the queries of                       *)
(* infrastructure/persistence/audit_repositories.py and the page rule of   *)
(* infrastructure/persistence/repositories.py.                             *)
(*                                                                         *)
(* A stored row is [kind, id, at, tag, service]: a Run tagged with its     *)
(* status, or an event of a proposal tagged with its type and the status   *)
(* its data carries.  The two tables are read by two statements and merged *)
(* into one stream, newest first.                                          *)
(***************************************************************************)
EXTENDS Integers, Sequences, FiniteSets, SequencesExt

None == "none"

RunStatuses == {"queued", "running", "succeeded", "failed", "cancelled"}

RunTypes == {"run_created", "run_running", "run_completed", "run_failed", "run_cancelled"}
ActionTypes == {"proposal_created", "approval_recorded", "execution_completed",
                "verification_completed", "action_blocked", "action_failed"}
Outcomes == {"running", "succeeded", "failed", "cancelled", "pending_approval", "approved",
             "rejected", "expired", "blocked", "verified"}

\* the milestones application/action_services.py records, as <<type, status of the data>>;
\* the events between them, like execution_started, are no part of the stream
Milestones == {<<"proposal_created", "pending_approval">>, <<"approval_recorded", "approved">>,
               <<"approval_recorded", "rejected">>, <<"execution_completed", "succeeded">>,
               <<"verification_completed", "verified">>, <<"action_blocked", "blocked">>,
               <<"action_failed", "expired">>, <<"action_failed", "failed">>}
Passing == {<<"execution_requested", "approved">>, <<"execution_started", "executing">>}

-----------------------------------------------------------------------------
(* What a row is called in the stream *)

\* _RUN_TYPE_BY_STATUS, read both ways by audit_run_type and run_status_for_type
RunTypeByStatus ==
    [queued |-> "run_created", running |-> "run_running", succeeded |-> "run_completed",
     failed |-> "run_failed", cancelled |-> "run_cancelled"]

RunOutcomeByType ==
    [run_created |-> "running", run_running |-> "running", run_completed |-> "succeeded",
     run_failed |-> "failed", run_cancelled |-> "cancelled"]

ActionOutcomeByType ==
    [proposal_created |-> "pending_approval", execution_completed |-> "succeeded",
     verification_completed |-> "verified", action_blocked |-> "blocked"]

ActionOutcome(type, status) ==
    CASE type = "approval_recorded" -> IF status = "approved" THEN "approved" ELSE "rejected"
      [] type = "action_failed" -> IF status = "expired" THEN "expired" ELSE "failed"
      [] OTHER -> ActionOutcomeByType[type]

\* The Run statuses an outcome may have; outcomes of proposals have none.
RunStatusesByOutcome(outcome) ==
    {s \in RunStatuses :
        \/ outcome = "running" /\ s \in {"queued", "running"}
        \/ outcome \in {"succeeded", "failed", "cancelled"} /\ s = outcome}

\* Mutant: an expired approval is looked for among the recorded approvals.
ActionFilterExpiredApproval(outcome) ==
    CASE outcome = "succeeded" -> <<"execution_completed", None>>
      [] outcome = "failed" -> <<"action_failed", "failed">>
      [] outcome = "pending_approval" -> <<"proposal_created", None>>
      [] outcome = "approved" -> <<"approval_recorded", "approved">>
      [] outcome = "rejected" -> <<"approval_recorded", "rejected">>
      [] outcome = "expired" -> <<"approval_recorded", "expired">>
      [] outcome = "blocked" -> <<"action_blocked", None>>
      [] outcome = "verified" -> <<"verification_completed", None>>
      [] OTHER -> <<None, None>>
\* The event type and the status its data needs; <<None, None>> hits no event.
ActionFilterByOutcome(outcome) ==
    CASE outcome = "succeeded" -> <<"execution_completed", None>>
      [] outcome = "failed" -> <<"action_failed", "failed">>
      [] outcome = "pending_approval" -> <<"proposal_created", None>>
      [] outcome = "approved" -> <<"approval_recorded", "approved">>
      [] outcome = "rejected" -> <<"approval_recorded", "rejected">>
      [] outcome = "expired" -> <<"action_failed", "expired">>
      [] outcome = "blocked" -> <<"action_blocked", None>>
      [] outcome = "verified" -> <<"verification_completed", None>>
      [] OTHER -> <<None, None>>

\* _run_activity, _action_activity: the row with the type and the outcome it is shown with
RunActivity(r) ==
    [id |-> r.id, at |-> r.at, kind |-> "run", type |-> RunTypeByStatus[r.tag],
     outcome |-> RunOutcomeByType[RunTypeByStatus[r.tag]], service |-> r.service]

ActionActivity(r) ==
    [id |-> r.id, at |-> r.at, kind |-> "action", type |-> r.tag[1],
     outcome |-> ActionOutcome(r.tag[1], r.tag[2]), service |-> r.service]

-----------------------------------------------------------------------------
(* Pages *)

NoCursor == [at |-> 0 - 1, id |-> 0]
Cursor(item) == [at |-> item.at, id |-> item.id]

Newer(a, b) == a.at > b.at \/ (a.at = b.at /\ a.id > b.id)

\* order_by(...).limit(n): the first n rows in an order
Newest(S, n) ==
    LET place(r) == Cardinality({q \in S : Newer(q, r)}) + 1
        all == Cardinality(S)
    IN [i \in 1 .. (IF all < n THEN all ELSE n) |-> CHOOSE r \in S : place(r) = i]
Oldest(S, n) ==
    LET place(r) == Cardinality({q \in S : Newer(r, q)}) + 1
        all == Cardinality(S)
    IN [i \in 1 .. (IF all < n THEN all ELSE n) |-> CHOOSE r \in S : place(r) = i]

\* Mutant: a tie of the times is taken for the row already shown.
PastTimes(cursor, r) == cursor = NoCursor \/ r.at < cursor.at
\* Mutant: the row of the cursor is read again.
PastOrAt(cursor, r) == cursor = NoCursor \/ ~Newer(r, cursor)
\* the keyset filter of the descending lists
Past(cursor, r) == cursor = NoCursor \/ Newer(cursor, r)

Page(items, next) == [items |-> items, next |-> next, more |-> next # NoCursor]

\* Mutant: the cursor is taken from the row that only tells there are more.
PageOfNext(records, limit) ==
    Page(SubSeq(records, 1, IF Len(records) < limit THEN Len(records) ELSE limit),
         IF Len(records) > limit THEN Cursor(records[limit + 1]) ELSE NoCursor)
\* _page: one row more than the page is read, to know whether there are more
PageOf(records, limit) ==
    Page(SubSeq(records, 1, IF Len(records) < limit THEN Len(records) ELSE limit),
         IF Len(records) > limit THEN Cursor(records[limit]) ELSE NoCursor)

-----------------------------------------------------------------------------
(* The two sides and their merge *)

NoTime == 0 - 1
NoFilter == [from |-> NoTime, to |-> NoTime, service |-> None, type |-> None, outcome |-> None]

InWindow(r, flt) ==
    /\ flt.from = NoTime \/ r.at >= flt.from
    /\ flt.to = NoTime \/ r.at <= flt.to
    /\ flt.service = None \/ r.service = flt.service

\* _list_run_items
RunSide(rows, limit, cursor, flt) ==
    LET hits == {r \in rows :
            /\ r.kind = "run"
            /\ InWindow(r, flt)
            /\ flt.type = None \/ RunTypeByStatus[r.tag] = flt.type
            /\ flt.outcome = None \/ r.tag \in RunStatusesByOutcome(flt.outcome)
            /\ Past(cursor, r)}
        items == Newest(hits, limit + 1)
    IN [i \in 1 .. Len(items) |-> RunActivity(items[i])]

\* _list_action_items
ActionSide(rows, limit, cursor, flt) ==
    LET wanted == IF flt.outcome = None THEN <<flt.type, None>>
                  ELSE ActionFilterByOutcome(flt.outcome)
        hits == {r \in rows :
            /\ r.kind = "action"
            /\ flt.outcome # None => wanted[1] # None /\ flt.type \in {None, wanted[1]}
            /\ r.tag[1] \in ActionTypes
            /\ InWindow(r, flt)
            /\ wanted[1] = None \/ r.tag[1] = wanted[1]
            /\ wanted[2] = None \/ r.tag[2] = wanted[2]
            /\ Past(cursor, r)}
        items == Newest(hits, limit + 1)
    IN [i \in 1 .. Len(items) |-> ActionActivity(items[i])]

\* sorted(runs + actions, reverse=True), which leaves equals in their order
Merged(runItems, actionItems) ==
    LET all == runItems \o actionItems
        ahead(j, i) == Newer(all[j], all[i]) \/ (j < i /\ ~Newer(all[i], all[j]))
        place(i) == Cardinality({j \in DOMAIN all : ahead(j, i)}) + 1
    IN [k \in DOMAIN all |-> all[CHOOSE i \in DOMAIN all : place(i) = k]]

\* Mutant: the page is full when one side has more.
AuditPageBySide(runItems, actionItems, limit) ==
    LET merged == Merged(runItems, actionItems)
    IN Page(PageOf(merged, limit).items,
            IF Len(runItems) > limit \/ Len(actionItems) > limit
              THEN Cursor(merged[limit]) ELSE NoCursor)
\* list_activities
AuditPage(runItems, actionItems, limit) == PageOf(Merged(runItems, actionItems), limit)

\* Mutant: an export cut at the limit is handed out as whole.
ExportOfCut(runItems, actionItems, max) ==
    [refused |-> FALSE, items |-> PageOf(Merged(runItems, actionItems), max).items]
\* list_all_activities and export_activities: everything, or the refusal
ExportOf(runItems, actionItems, max) ==
    LET merged == Merged(runItems, actionItems)
    IN IF Len(merged) > max THEN [refused |-> TRUE, items |-> <<>>]
       ELSE [refused |-> FALSE, items |-> merged]

-----------------------------------------------------------------------------
(* What the filters mean *)

\* the row as the stream shows it; None when it is no part of the stream
Activity(r) ==
    IF r.kind = "run" THEN RunActivity(r)
    ELSE IF r.tag[1] \in ActionTypes THEN ActionActivity(r)
    ELSE [outcome |-> None]

Matches(r, flt) ==
    LET shown == Activity(r)
    IN /\ shown.outcome # None
       /\ InWindow(r, flt)
       /\ flt.type \in {None, shown.type}
       /\ flt.outcome \in {None, shown.outcome}

\* a row of every kind there is
OneOfEach ==
    {[kind |-> "run", id |-> 1, at |-> 1, tag |-> status, service |-> "s1"] : status \in RunStatuses}
      \cup {[kind |-> "action", id |-> 1, at |-> 1, tag |-> event, service |-> "s1"] :
               event \in Milestones \cup Passing}

\* A filter finds a row when the row is shown with its type and its outcome, and else not.
FiltersFindWhatIsShown ==
    \A r \in OneOfEach, type \in {None} \cup RunTypes \cup ActionTypes, outcome \in {None} \cup Outcomes :
        LET flt == [NoFilter EXCEPT !.type = type, !.outcome = outcome]
            found == ExportOf(RunSide({r}, 1, NoCursor, flt), ActionSide({r}, 1, NoCursor, flt), 1)
        IN found.items = IF Matches(r, flt) THEN <<Activity(r)>> ELSE <<>>
=============================================================================

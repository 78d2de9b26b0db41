---------------------------- MODULE EventStream -----------------------------
(***************************************************************************)
(* How the committed events of one Run reach the view that shows it: the   *)
(* transactions that number and commit events, the SSE generator of        *)
(* api/v1/sse.py, the EventSource of use-run-event-stream.ts with its      *)
(* reconnects, and the polled event list of WorkbenchPage.tsx.             *)
(*                                                                         *)
(* Which events a Run has, and who may end it, is in RunLifecycle; here an *)
(* event is its number, and one of them is the end.  A Run has fewer than  *)
(* the 100 events of a page, so a page is all there is after the cursor.   *)
(***************************************************************************)
EXTENDS Naturals

CONSTANTS
    Writers,     \* transactions of the task and of cancelling requests
    MaxEvents,   \* bound: events of the Run
    MaxFaults    \* bound: connections dropped or refused, fetches failed, views left

ASSUME BoundsAssumption == MaxEvents \in Nat /\ MaxFaults \in Nat

VARIABLES
    next,        \* the next_event_sequence of the Run, as its writer sees it
    log,         \* the numbers of the committed events
    endAt,       \* the number of the committed end, 0 while the Run is live
    tx,          \* tx[w]: an open transaction and the number it reserved
    server,      \* the generator behind the open connection
    wire,        \* events sent on the connection and not received
    source,      \* the readyState of the EventSource
    last,        \* its Last-Event-ID
    events,      \* the events the view shows
    rest,        \* an event list on its way to the view
    shown,       \* the status of the Run as the view knows it
    refresh,     \* TRUE while the Runs of the session are fetched again
    faults

dbVars == <<next, log, endAt, tx>>
streamVars == <<server, wire, source, last>>
viewVars == <<events, rest, shown, refresh>>
vars == <<dbVars, streamVars, viewVars, faults>>

-----------------------------------------------------------------------------
(* Values *)

Tx == [open : BOOLEAN, seq : Nat, end : BOOLEAN]
NoTx == [open |-> FALSE, seq |-> 0, end |-> FALSE]

\* seen: the status was terminal when the generator read it.
ServerPcs == {"none", "polling", "listing", "sending", "closed"}
Server == [pc : ServerPcs, cursor : Nat, seen : BOOLEAN, page : SUBSET Nat]
At(pc, cursor, seen, page) ==
    [pc |-> pc, cursor |-> cursor, seen |-> seen, page |-> page]
NoServer == At("none", 0, FALSE, {})

\* An event list on its way, if one is.
List == [sent : BOOLEAN, items : SUBSET Nat]
NoList == [sent |-> FALSE, items |-> {}]

\* Only committed events are listed, sent and shown.
TypeOK ==
    /\ next \in Nat
    /\ log \subseteq Nat
    /\ endAt \in log \cup {0}
    /\ tx \in [Writers -> Tx]
    /\ server \in Server
    /\ server.page \cup wire \cup rest.items \cup events \subseteq log
    /\ source \in {"connecting", "open", "closed", "refused"}
    /\ last \in Nat
    /\ rest \in List
    /\ shown \in {"live", "ended"}
    /\ refresh \in BOOLEAN
    /\ faults \in Nat

Least(s, set) == s \in set /\ \A t \in set : s <= t

\* The Run is queued, its first event committed, its view opened.
Init ==
    /\ next = 2
    /\ log = {1}
    /\ endAt = 0
    /\ tx = [w \in Writers |-> NoTx]
    /\ server = NoServer
    /\ wire = {}
    /\ source = "connecting"
    /\ last = 0
    /\ events = {}
    /\ rest = NoList
    /\ shown = "live"
    /\ refresh = FALSE
    /\ faults = 0

Fault == faults < MaxFaults /\ faults' = faults + 1

-----------------------------------------------------------------------------
(* The writers *)

\* Mutant: the number is drawn outside of the transaction that commits it.
MayReserveAny(w) == ~tx[w].open

\* The UPDATE that reserves a number holds the row until the commit.
MayReserve(w) == \A v \in Writers : ~tx[v].open

\* An end is reserved after the conditional UPDATE of a live Run; a diagnosis
\* task past its check may append one event to an ended Run.
Reserve(w, end) ==
    /\ MayReserve(w)
    /\ next <= MaxEvents
    /\ endAt = 0 \/ (~end /\ next = endAt + 1)
    /\ tx' = [tx EXCEPT ![w] = [open |-> TRUE, seq |-> next, end |-> end]]
    /\ next' = next + 1
    /\ UNCHANGED <<log, endAt, streamVars, viewVars, faults>>

\* The event, and with the end the status of the Run.
Commit(w) ==
    /\ tx[w].open
    /\ log' = log \cup {tx[w].seq}
    /\ endAt' = IF tx[w].end THEN tx[w].seq ELSE endAt
    /\ tx' = [tx EXCEPT ![w] = NoTx]
    /\ UNCHANGED <<next, streamVars, viewVars, faults>>

Rollback(w) ==
    /\ tx[w].open
    /\ next' = tx[w].seq
    /\ tx' = [tx EXCEPT ![w] = NoTx]
    /\ UNCHANGED <<log, endAt, streamVars, viewVars, faults>>

-----------------------------------------------------------------------------
(* replay_run_events *)

\* The status is read first, by a statement of its own.
PollStatus ==
    /\ server.pc = "polling"
    /\ server' = At("listing", server.cursor, endAt # 0, {})
    /\ UNCHANGED <<dbVars, wire, source, last, viewVars, faults>>

\* Mutant: what a transaction has inserted is listed before it commits.
PageUncommitted(cursor) ==
    {s \in log \cup {tx[w].seq : w \in {v \in Writers : tx[v].open}} : s > cursor}

\* list_by_run: the committed events after the cursor.
PageAfter(cursor) == {s \in log : s > cursor}

ListPage ==
    /\ server.pc = "listing"
    /\ server' = At("sending", server.cursor, server.seen, PageAfter(server.cursor))
    /\ UNCHANGED <<dbVars, wire, source, last, viewVars, faults>>

\* The stream closes with the end.
Send ==
    /\ server.pc = "sending"
    /\ \E s \in server.page :
         /\ Least(s, server.page)
         /\ wire' = wire \cup {s}
         /\ server' = IF s = endAt THEN At("closed", s, FALSE, {})
                      ELSE At("sending", s, server.seen, server.page \ {s})
    /\ UNCHANGED <<dbVars, source, last, viewVars, faults>>

\* Mutant: the status is read after the page.
EndPageReadingStatus ==
    /\ server.pc = "sending" /\ server.page = {}
    /\ server' = At(IF endAt # 0 THEN "closed" ELSE "polling", server.cursor, FALSE, {})
    /\ UNCHANGED <<dbVars, wire, source, last, viewVars, faults>>

\* The whole page is sent: close a terminal Run, otherwise sleep and poll.
EndPage ==
    /\ server.pc = "sending" /\ server.page = {}
    /\ server' = At(IF server.seen THEN "closed" ELSE "polling", server.cursor, FALSE, {})
    /\ UNCHANGED <<dbVars, wire, source, last, viewVars, faults>>

-----------------------------------------------------------------------------
(* use_run_event_stream *)

\* The first connection starts at 0, a reconnect at the Last-Event-ID.
Connect ==
    /\ source = "connecting"
    /\ source' = "open"
    /\ server' = At("polling", last, FALSE, {})
    /\ wire' = {}
    /\ UNCHANGED <<dbVars, last, viewVars, faults>>

\* An answer that is not a stream: the EventSource never connects again.
Refuse ==
    /\ source = "connecting"
    /\ Fault
    /\ source' = "refused"
    /\ UNCHANGED <<dbVars, server, wire, last, viewVars>>

\* on_message: the end closes the source and has the Runs fetched again.
Receive ==
    /\ source = "open"
    /\ \E s \in wire :
         /\ Least(s, wire)
         /\ last' = s
         /\ events' = events \cup {s}
         /\ IF s = endAt
              THEN /\ source' = "closed" /\ server' = NoServer /\ wire' = {}
                   /\ refresh' = TRUE
              ELSE wire' = wire \ {s} /\ UNCHANGED <<source, server, refresh>>
    /\ UNCHANGED <<dbVars, rest, shown, faults>>

\* The connection breaks, and what was on its way is lost; the EventSource connects
\* again.  It would after a close by the server too, but a server that closes
\* has sent the end, at which the source closes: ClosesAfterTheEnd.
Drop ==
    /\ source = "open"
    /\ Fault
    /\ source' = "connecting"
    /\ server' = NoServer
    /\ wire' = {}
    /\ UNCHANGED <<dbVars, last, viewVars>>

-----------------------------------------------------------------------------
(* InvestigationProcess *)

\* Mutant: the list is only polled while the stream is open.
MayPollOpen == shown = "live" /\ source = "open"

\* The list is polled, and fetched by on_recover, while the Run looks live.
MayPoll == shown = "live"

ReadList ==
    /\ MayPoll
    /\ ~rest.sent
    /\ rest' = [sent |-> TRUE, items |-> log]
    /\ UNCHANGED <<dbVars, streamVars, events, shown, refresh, faults>>

\* Mutant: the list replaces what the stream has brought meanwhile.
MergeReplaces ==
    /\ rest.sent
    /\ events' = rest.items
    /\ rest' = NoList
    /\ UNCHANGED <<dbVars, streamVars, shown, refresh, faults>>

\* merge_persisted_run_events: events are added and kept.
Merge ==
    /\ rest.sent
    /\ events' = events \cup rest.items
    /\ rest' = NoList
    /\ UNCHANGED <<dbVars, streamVars, shown, refresh, faults>>

\* The Runs of the session are fetched again for another reason: a cancel from
\* this view, another message, another Run.
Invalidate ==
    /\ ~refresh
    /\ refresh' = TRUE
    /\ UNCHANGED <<dbVars, streamVars, events, rest, shown, faults>>

\* Their status arrives; for an ended Run the effect's cleanup closes the source.
Refetch ==
    /\ refresh
    /\ refresh' = FALSE
    /\ IF endAt = 0 THEN UNCHANGED <<shown, streamVars>>
       ELSE shown' = "ended" /\ server' = NoServer /\ wire' = {} /\ source' = "closed"
              /\ UNCHANGED last
    /\ UNCHANGED <<dbVars, events, rest, faults>>

\* The fetch fails, and queries are not retried.
RefetchFails ==
    /\ refresh
    /\ Fault
    /\ refresh' = FALSE
    /\ UNCHANGED <<dbVars, streamVars, events, rest, shown>>

\* The user leaves the session and comes back: a new view, a new EventSource.
Remount ==
    /\ shown = "live"
    /\ Fault
    /\ events' = {} /\ rest' = NoList
    /\ source' = "connecting" /\ last' = 0
    /\ server' = NoServer /\ wire' = {}
    /\ UNCHANGED <<dbVars, shown, refresh>>

-----------------------------------------------------------------------------
Write == \E w \in Writers :
            (\E end \in BOOLEAN : Reserve(w, end)) \/ Commit(w) \/ Rollback(w)

Replay == PollStatus \/ ListPage \/ Send \/ EndPage

Source == Connect \/ Refuse \/ Receive \/ Drop

View == ReadList \/ Merge \/ Invalidate \/ Refetch \/ RefetchFails \/ Remount

Next == Write \/ Replay \/ Source \/ View

Spec == Init /\ [][Next]_vars

\* The generator, the browser and its timers go on.  Nobody is obliged to write
\* an event, to break a connection or to fetch the Runs again for other reasons.
FairSpec ==
    /\ Spec
    /\ WF_vars(Replay) /\ WF_vars(Connect) /\ WF_vars(Receive)
    /\ WF_vars(ReadList) /\ WF_vars(Merge) /\ WF_vars(Refetch)

-----------------------------------------------------------------------------
(* Properties *)

\* The view shows the events 1 to n of the Run for some n, through reconnects,
\* resumed streams and merged lists: no event is skipped and brought later.
NoGaps == \A s \in events : 1 .. s \subseteq events

\* The stream stays open until the end was sent (sse.py replay_run_events): a
\* generator that has read a live Run never closes for the end that follows.
ClosesAfterTheEnd == server.pc = "closed" => endAt # 0 /\ endAt <= server.cursor

\* What is shown is the log as far as it goes, over a stream that stays open as
\* long as there is something to come.
ViewFollowsTheLog ==
    /\ TypeOK
    /\ NoGaps
    /\ ClosesAfterTheEnd

\* What is shown stays shown until the view is left.
ShownStays == [][events \subseteq events' \/ Remount]_vars

\* The view notices that the Run has ended.  Where the EventSource was refused
\* for good, or the fetch that on_message started has failed, it only lists the
\* end: nothing else refreshes the status.
EndIsNoticed ==
    endAt # 0 ~> \/ shown = "ended"
                 \/ source \in {"refused", "closed"} /\ ~refresh /\ endAt \in events
=============================================================================

----------------------------- MODULE PagedLists -----------------------------
(***************************************************************************)
(* Reading a long list page by page while it is written: the list queries  *)
(* of the repositories, the list endpoints of api/v1/routes.py, and the    *)
(* pages of the frontend that read them.                                   *)
(*                                                                         *)
(* A behaviour is about one of the lists.  Its table is written by         *)
(* transactions that take their time (created_at, updated_at) when they    *)
(* begin and commit later, so a row may appear behind a reader.  A reader  *)
(* keeps the pages it has; TanStack Query, modelled from how the pages use *)
(* it, appends a page or rebuilds as many pages as there are, and an       *)
(* answer that is replaced by a later question is dropped.                 *)
(***************************************************************************)
EXTENDS AuditTrail

CONSTANTS
    Ids,          \* keys of rows, naturals: they break the ties of the times
    Limit,        \* rows of a page
    MaxWrites,    \* bound: transactions
    MaxReloads,   \* bound: reloads of what a page shows
    MaxFailures,  \* bound: requests that fail
    MaxSpent      \* bound: all of these together

ASSUME ListsAssumption ==
    /\ Ids \subseteq Nat \ {0} /\ IsFiniteSet(Ids)
    /\ Limit \in Nat \ {0} /\ {MaxWrites, MaxReloads, MaxFailures, MaxSpent} \subseteq Nat

VARIABLES
    list,      \* which list
    parent,    \* whether what the list belongs to is there: its session, Run, proposal,
               \* service or knowledge directory
    want,      \* the filter of its page: a tag, None, or a filter of the audit stream
    table,     \* the rows, as [kind, id, at, tag, service]
    taken,     \* transactions that have taken their time, as [id, at, what]
    clock,     \* the last time taken
    cache,     \* the pages shown
    asking,    \* the question underway
    sweep,     \* fetch_all_pages underway
    slipped,   \* history: sessions that moved back in the list
    spent      \* writes, reloads and faults so far

listVars == <<list, parent, want, table, taken, clock, cache, asking, sweep, slipped, spent>>

\* lists whose rows carry the time their transaction took
Timed == {"sessions", "messages", "session_runs", "runs", "proposals", "activities", "audit"}
\* lists numbered under the lock of their parent
Numbered == {"run_events", "action_events"}
Lists == Timed \cup Numbered \cup {"documents"}
\* lists shown newest first
Descending == Timed \ {"messages"}
\* lists whose page loads more; of the others a page shows the beginning
LoadsMore == Lists \ ({"activities"} \cup Numbered)

\* lists under a path that names what they belong to
Owned == {"messages", "session_runs", "activities", "run_events", "action_events", "documents"}

\* the statuses the rows of a list move through, in order
Moves ==
    [sessions |-> <<"active", "archived">>, messages |-> <<"kept", "archived">>,
     session_runs |-> <<"queued", "running">>, runs |-> <<"queued", "running">>,
     proposals |-> <<"pending_approval", "approved">>, activities |-> <<"queued", "running">>,
     run_events |-> <<"kept">>, action_events |-> <<"kept">>, documents |-> <<"kept">>,
     audit |-> <<"queued", "running", "failed">>]

Row(id, at, tag) == [kind |-> "row", id |-> id, at |-> at, tag |-> tag, service |-> None]
\* in the audit stream even keys are Runs and odd ones are events of proposals
AuditRow(id, at) ==
    IF id % 2 = 0 THEN [kind |-> "run", id |-> id, at |-> at, tag |-> "queued", service |-> "s1"]
    ELSE [kind |-> "action", id |-> id, at |-> at, service |-> "s1",
          tag |-> <<"action_failed", IF id = 1 THEN "failed" ELSE "expired">>]
NewRow(id, at) == IF list = "audit" THEN AuditRow(id, at) ELSE Row(id, at, Moves[list][1])

Filters(l) ==
    CASE l = "sessions" -> {"active", "archived"}
      [] l = "runs" -> {None, "queued", "running"}
      [] l = "proposals" -> {None, "pending_approval", "approved"}
      [] l = "audit" -> {NoFilter, [NoFilter EXCEPT !.outcome = "failed"],
                         [NoFilter EXCEPT !.outcome = "expired"],
                         [NoFilter EXCEPT !.type = "run_created"]}
      [] OTHER -> {None}

Present == {r.id : r \in table}

\* what has been read: pages, and the rows that were there from the first of them on
Pages(pages, since) == [on |-> TRUE, pages |-> pages, since |-> since]
Blank == [on |-> FALSE, pages |-> <<>>, since |-> {}]

\* a question: its pages so far, how many it asks for, and the rows that were there from
\* its first page on; side holds the Runs of an audit page whose events are not read yet
Question(how, base, goal, since) ==
    [how |-> how, pages |-> base, goal |-> goal, since |-> since, half |-> FALSE, side |-> <<>>]
Quiet == Question("none", <<>>, 0, {})

ListsInit ==
    /\ list \in Lists
    /\ want \in Filters(list)
    /\ parent \in (IF list \in Owned THEN BOOLEAN ELSE {TRUE})
    /\ \E before \in SUBSET (IF parent THEN Ids ELSE {}) : table = {NewRow(id, id) : id \in before}
    /\ clock = Cardinality(Ids)
    /\ taken = {} /\ slipped = {}
    /\ cache = Blank /\ asking = Quiet /\ sweep = Blank
    /\ spent = [writes |-> 0, reloads |-> 0, faults |-> 0]

-----------------------------------------------------------------------------
(* The list queries of the repositories *)

Of(rows, cursor) == {r \in rows : Past(cursor, r)}
\* the keyset filter of the ascending lists
After(rows, cursor) == {r \in rows : cursor = NoCursor \/ Newer(r, cursor)}
Tagged == {r \in table : want \in {None, r.tag}}

\* SqlAlchemySessionRepository.list_page; the keyword filters like the status does
SessionsPage(cursor) == PageOf(Newest(Of(Tagged, cursor), Limit + 1), Limit)

\* SqlAlchemyMessageRepository.list_by_session: deleted messages are not listed
MessagesPage(cursor) ==
    PageOf(Oldest(After({r \in table : r.tag # "archived"}, cursor), Limit + 1), Limit)

\* SqlAlchemyDiagnosisRunRepository.list_by_session
SessionRunsPage(cursor) == PageOf(Newest(Of(table, cursor), Limit + 1), Limit)

\* SqlAlchemyDiagnosisRunRepository.list_page
GlobalRunsPage(cursor) == PageOf(Newest(Of(Tagged, cursor), Limit + 1), Limit)

\* SqlAlchemyActionProposalRepository.list_page
ProposalsPage(cursor) == PageOf(Newest(Of(Tagged, cursor), Limit + 1), Limit)

\* SqlAlchemyServiceActivityRepository.list_by_service_id: each Run joins at most one
\* result, proposal, execution and verification
ActivitiesPage(cursor) == PageOf(Newest(Of(table, cursor), Limit + 1), Limit)

\* SqlAlchemyRunEventRepository.list_by_run
RunEventsPage(cursor) == PageOf(Oldest(After(table, cursor), Limit + 1), Limit)

\* SqlAlchemyActionEventRepository.list_by_proposal
ActionEventsPage(cursor) == PageOf(Oldest(After(table, cursor), Limit + 1), Limit)

\* Mutant: a cursor is given only when another document follows, and it is that document.
DocumentsPageAhead(cursor) == PageOfNext(Oldest(After(table, cursor), Limit + 1), Limit)
\* list_documents_page: a full page has a cursor whether or not anything follows; no link
\* leads to a document here, so the names are distinct (links are in KnowledgeReadings)
DocumentsPage(cursor) ==
    LET items == Oldest(After(table, cursor), Limit)
    IN Page(items, IF Len(items) >= Limit THEN Cursor(items[Len(items)]) ELSE NoCursor)

-----------------------------------------------------------------------------
(* The endpoints: the parent is looked up first, in a transaction of its own *)

Refused == [items |-> <<>>, next |-> NoCursor, more |-> FALSE, ok |-> FALSE]
Served(page) == [items |-> page.items, next |-> page.next, more |-> page.more, ok |-> TRUE]
UnderParent(page) == IF parent THEN Served(page) ELSE Refused

ListSessions(cursor) == Served(SessionsPage(cursor))
ListMessages(cursor) == UnderParent(MessagesPage(cursor))
ListSessionRuns(cursor) == UnderParent(SessionRunsPage(cursor))
ListRuns(cursor) == Served(GlobalRunsPage(cursor))
ListActionProposals(cursor) == Served(ProposalsPage(cursor))
ListServiceActivities(cursor) == UnderParent(ActivitiesPage(cursor))
ListRunEvents(cursor) == UnderParent(RunEventsPage(cursor))
ListActionEvents(cursor) == UnderParent(ActionEventsPage(cursor))
\* a directory that is not there is an answer: not_configured, with nothing to show
ListKnowledgeDocuments(cursor) ==
    Served(IF parent THEN DocumentsPage(cursor) ELSE Page(<<>>, NoCursor))

Answered(cursor) ==
    CASE list = "sessions" -> ListSessions(cursor)
      [] list = "messages" -> ListMessages(cursor)
      [] list = "session_runs" -> ListSessionRuns(cursor)
      [] list = "runs" -> ListRuns(cursor)
      [] list = "proposals" -> ListActionProposals(cursor)
      [] list = "activities" -> ListServiceActivities(cursor)
      [] list = "run_events" -> ListRunEvents(cursor)
      [] list = "action_events" -> ListActionEvents(cursor)
      [] list = "documents" -> ListKnowledgeDocuments(cursor)

\* what a question for the whole list would be answered with now
Listed == {r \in table :
    CASE list = "audit" -> Matches(r, want)
      [] list = "messages" -> r.tag # "archived"
      [] OTHER -> want \in {None, r.tag}}

-----------------------------------------------------------------------------
(* The readers *)

CanSpend(what, most) ==
    spent[what] < most /\ spent.writes + spent.reloads + spent.faults < MaxSpent

NextCursor(pages) == IF pages = <<>> THEN NoCursor ELSE pages[Len(pages)].next

\* the page of a list is opened, or tried again after a failure
Open ==
    /\ ~cache.on /\ asking = Quiet
    /\ asking' = Question("first", <<>>, 1, {})
    /\ UNCHANGED <<list, parent, want, table, taken, clock, cache, sweep, slipped, spent>>

\* fetchNextPage: goes on from the pages shown, and replaces a reload underway
LoadMore ==
    /\ list \in LoadsMore /\ cache.on
    /\ NextCursor(cache.pages) # NoCursor
    /\ asking = Quiet \/ asking.how = "reload"
    /\ asking' = Question("more", cache.pages, Len(cache.pages) + 1, cache.since)
    /\ UNCHANGED <<list, parent, want, table, taken, clock, cache, sweep, slipped, spent>>

\* refetch after a mutation, on focus or by hand: as many pages as are shown, from the first
Reload ==
    /\ cache.on /\ CanSpend("reloads", MaxReloads)
    /\ asking' = Question("reload", <<>>, Len(cache.pages), {})
    /\ spent' = [spent EXCEPT !.reloads = @ + 1]
    /\ UNCHANGED <<list, parent, want, table, taken, clock, cache, sweep, slipped>>

Since(q) == IF q.pages = <<>> /\ ~q.half THEN {r.id : r \in Listed} ELSE q.since

\* Mutant: a reload keeps the cursors of the pages it replaces.
ReloadCursorKept(q) ==
    IF q.how = "reload" /\ q.pages # <<>> /\ cache.on
      THEN cache.pages[Len(q.pages)].next ELSE NextCursor(q.pages)
\* getNextPageParam: a reload takes its cursors from the new pages
AskCursor(q) == NextCursor(q.pages)

\* a page arrives: it is shown when it was the last one asked for
PageArrives(q, page) ==
    LET pages == Append(q.pages, [items |-> page.items, next |-> page.next])
        since == Since(q)
    IN IF Len(pages) >= q.goal \/ page.next = NoCursor
         THEN /\ cache' = Pages(pages, since)
              /\ asking' = Quiet
         ELSE /\ asking' = [q EXCEPT !.pages = pages, !.since = since, !.half = FALSE, !.side = <<>>]
              /\ UNCHANGED cache

Answer ==
    /\ asking # Quiet /\ list # "audit"
    /\ LET page == Answered(AskCursor(asking))
       IN IF page.ok THEN PageArrives(asking, page) ELSE asking' = Quiet /\ UNCHANGED cache
    /\ UNCHANGED <<list, parent, want, table, taken, clock, sweep, slipped, spent>>

\* list_activities reads the Runs, then the events, each as they are at that moment
AuditRuns ==
    /\ list = "audit" /\ asking # Quiet /\ ~asking.half
    /\ asking' = [asking EXCEPT !.since = Since(asking),
          !.half = TRUE,
          !.side = RunSide(table, Limit, AskCursor(asking), want)]
    /\ UNCHANGED <<list, parent, want, table, taken, clock, cache, sweep, slipped, spent>>

AuditEvents ==
    /\ list = "audit" /\ asking.half
    /\ LET page == AuditPage(asking.side,
                             ActionSide(table, Limit, AskCursor(asking), want), Limit)
       IN PageArrives(asking, page)
    /\ UNCHANGED <<list, parent, want, table, taken, clock, sweep, slipped, spent>>

\* a request fails: what is shown stays
AskFails ==
    /\ asking # Quiet /\ CanSpend("faults", MaxFailures)
    /\ asking' = Quiet
    /\ spent' = [spent EXCEPT !.faults = @ + 1]
    /\ UNCHANGED <<list, parent, want, table, taken, clock, cache, sweep, slipped>>

\* fetch_all_pages goes on while the cursor is one it has not had; setQueryData then shows
\* what it found, and a question underway knows nothing of it
SweepArrives(pages, since, page) ==
    IF page.next = NoCursor \/ \E i \in 1 .. (Len(pages) - 1) : pages[i].next = page.next
      THEN cache' = Pages(pages, since) /\ sweep' = Blank
      ELSE sweep' = Pages(pages, since) /\ UNCHANGED cache

\* reconcile_outcome: everything there is of the session's Runs and messages
SweepStarts ==
    /\ list \in {"session_runs", "messages"} /\ ~sweep.on
    /\ CanSpend("reloads", MaxReloads)
    /\ sweep' = Pages(<<>>, {})
    /\ spent' = [spent EXCEPT !.reloads = @ + 1]
    /\ UNCHANGED <<list, parent, want, table, taken, clock, cache, asking, slipped>>

SweepAnswer ==
    /\ sweep.on
    /\ LET page == Answered(NextCursor(sweep.pages))
       IN IF page.ok
            THEN SweepArrives(Append(sweep.pages, [items |-> page.items, next |-> page.next]),
                              IF sweep.pages = <<>> THEN {r.id : r \in Listed} ELSE sweep.since, page)
            ELSE sweep' = Blank /\ UNCHANGED cache
    /\ UNCHANGED <<list, parent, want, table, taken, clock, asking, slipped, spent>>

SweepFails ==
    /\ sweep.on /\ CanSpend("faults", MaxFailures)
    /\ sweep' = Blank
    /\ spent' = [spent EXCEPT !.faults = @ + 1]
    /\ UNCHANGED <<list, parent, want, table, taken, clock, cache, asking, slipped>>

-----------------------------------------------------------------------------
(* The writers *)

Spend == CanSpend("writes", MaxWrites) /\ spent' = [spent EXCEPT !.writes = @ + 1]

\* a row that moves, changes its status or goes is no longer one that was there throughout
Forget(ids) ==
    LET without(q) == [q EXCEPT !.since = @ \ ids]
    IN /\ cache' = without(cache)
       /\ asking' = without(asking)
       /\ sweep' = without(sweep)

Put(row) == table' = {r \in table : r.id # row.id} \cup {row}

\* a transaction takes its time, and commits when it commits
Take ==
    /\ list \in Timed /\ parent
    /\ Spend
    /\ \E id \in Ids, tick \in 0 .. 1 :
          \E what \in (IF id \notin Present THEN {"insert"}
                      ELSE IF list = "sessions" THEN {"save", "touch", "restore"} ELSE {}) :
            /\ clock' = clock + tick
            /\ taken' = taken \cup {[id |-> id, at |-> clock', what |-> what]}
            /\ \A t \in taken : t.id = id => t.what # "insert"
    /\ UNCHANGED <<list, parent, want, table, cache, asking, sweep, slipped>>

\* add of a session, a message, a Run, a proposal or an audited row
CommitInsert ==
    \E t \in taken :
        /\ t.what = "insert"
        /\ table' = table \cup {NewRow(t.id, t.at)}
        /\ taken' = taken \ {t}
        /\ UNCHANGED <<list, parent, want, clock, cache, asking, sweep, slipped, spent>>

\* what a transaction leaves of a session: save writes the time it took over whatever is
\* there, touch_updated_at and restore only over an earlier one
SessionAfter(r, t, tag) ==
    [r EXCEPT !.at = IF t.what = "save" \/ r.at < t.at THEN t.at ELSE r.at,
              !.tag = CASE t.what = "save" -> tag
                        [] t.what = "restore" -> "active"
                        [] OTHER -> r.tag]

CommitSession ==
    \E t \in taken, r \in table, tag \in {"active", "archived"} :
        /\ t.what # "insert" /\ r.id = t.id
        /\ LET after == SessionAfter(r, t, tag)
           IN /\ Put(after)
              /\ IF after = r THEN UNCHANGED <<cache, asking, sweep>> ELSE Forget({r.id})
              /\ slipped' = IF after.at < r.at THEN slipped \cup {r.id} ELSE slipped
        /\ taken' = taken \ {t}
        /\ UNCHANGED <<list, parent, want, clock, spent>>

\* the next number of a Run's or a proposal's events, taken under the lock of its row
AppendEvent ==
    /\ list \in Numbered /\ parent
    /\ Spend
    /\ \E id \in Ids \ Present :
          /\ clock' = clock + 1
          /\ table' = table \cup {Row(id, clock', "kept")}
    /\ UNCHANGED <<list, parent, want, taken, cache, asking, sweep, slipped>>

\* a status moves on; an action event never changes
Advance ==
    /\ list \notin {"sessions"} /\ Spend
    /\ \E r \in table :
          /\ r.kind # "action"
          /\ \E i \in 1 .. (Len(Moves[list]) - 1) :
               /\ r.tag = Moves[list][i]
               /\ Put([r EXCEPT !.tag = Moves[list][i + 1]])
          /\ Forget({r.id})
    /\ UNCHANGED <<list, parent, want, taken, clock, slipped>>

\* files come and go in the order of their paths
DocumentWritten ==
    /\ list = "documents" /\ parent /\ Spend
    /\ \E id \in Ids :
         IF id \in Present
           THEN table' = {r \in table : r.id # id} /\ Forget({id})
           ELSE table' = table \cup {Row(id, id, "kept")} /\ UNCHANGED <<cache, asking, sweep>>
    /\ UNCHANGED <<list, parent, want, taken, clock, slipped>>

\* the knowledge directory goes with all it holds, or a service is removed or back
ParentChanges ==
    /\ list \in {"documents", "activities"} /\ Spend
    /\ parent' = ~parent
    /\ IF list = "documents" THEN table' = {} /\ Forget(Present)
       ELSE UNCHANGED <<table, cache, asking, sweep>>
    /\ UNCHANGED <<list, want, taken, clock, slipped>>

ListReaders == Open \/ LoadMore \/ Reload \/ Answer \/ AuditRuns \/ AuditEvents \/ AskFails
             \/ SweepStarts \/ SweepAnswer \/ SweepFails
ListWriters == Take \/ CommitInsert \/ CommitSession \/ AppendEvent \/ Advance
             \/ DocumentWritten \/ ParentChanges
ListsNext == ListReaders \/ ListWriters

ListsSpec == ListsInit /\ [][ListsNext]_listVars

-----------------------------------------------------------------------------
(* What is shown *)

InListOrder(a, b) == IF list \in Descending THEN Newer(a, b) ELSE Newer(b, a)

\* the places of what is shown, page by page, and what is at a place
Places == UNION {{<<p, i>> : i \in DOMAIN cache.pages[p].items} : p \in DOMAIN cache.pages}
Shown(at) == cache.pages[at[1]].items[at[2]]
Above(a, b) == a[1] < b[1] \/ (a[1] = b[1] /\ a[2] < b[2])

\* the rows a reader has come past
Passed(r) ==
    LET last == NextCursor(cache.pages)
    IN last = NoCursor \/ r.id = last.id
         \/ InListOrder(r, [id |-> last.id, at |-> last.at])

(* Whatever pages are shown, loaded one by one, reloaded together, swept   *)
(* or replaced by an answer that comes late, while rows are written around *)
(* the reader with times taken before they are committed:                  *)
(*   - they are in the order of the list;                                  *)
(*   - no row is shown twice, but a session whose updated_at was written   *)
(*     over by an older save;                                              *)
(*   - a row that was there from the first page on, neither moved nor      *)
(*     removed, is shown as soon as the reader has come past its place;    *)
(*   - a filter of the audit stream means what the rows are shown with.    *)
ListsReadWell ==
    /\ FiltersFindWhatIsShown
    /\ cache.on =>
           /\ \A a, b \in Places : Above(a, b) =>
                /\ InListOrder(Shown(a), Shown(b))
                /\ Shown(a).id = Shown(b).id => Shown(a).id \in slipped
           /\ \A r \in table :
                r.id \in cache.since /\ Passed(r) => \E a \in Places : Shown(a).id = r.id
=============================================================================

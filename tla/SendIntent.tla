----------------------------- MODULE SendIntent -----------------------------
(***************************************************************************)
(* How the workbench of the frontend sends a question.  A question to      *)
(* investigate becomes a send intent in sessionStorage, one Run with an    *)
(* idempotency key of its own for each service of the session             *)
(* (features/workbench/send-intent.ts), which the page submits, marks as   *)
(* accepted, finds again on the server and clears (WorkbenchPage.tsx).     *)
(* Any other text is a plain message, which has no key; one written on the *)
(* welcome page waits in sessionStorage for the session page               *)
(* (plain-message-intent.ts).                                              *)
(*                                                                         *)
(* The module has one session and the browser tab that shows it.  A        *)
(* question is one of four kinds: "plain", "query", the fixed "health"     *)
(* question, and "hidden", which message-intent.ts takes for plain and     *)
(* application/message_routing.py does not: their lists of words differ.   *)
(* An effect of React runs after the render that enables it and before the *)
(* next click, with the values of that render.                             *)
(***************************************************************************)
EXTENDS Naturals, FiniteSetsExt

CONSTANTS
    Targets,     \* the session has the services 1 .. Targets
    MaxAsks,     \* bound: questions a person asks
    MaxIntents,  \* bound: send intents that are created
    MaxFaults    \* bound: lost requests, reloads, archives, restores, deletions

ASSUME BoundsAssumption ==
    /\ Targets \in Nat \ {0} /\ MaxAsks \in Nat /\ MaxIntents \in Nat /\ MaxFaults \in Nat

VARIABLES
    store,   \* sessionStorage: the send intent and the pending plain message
    page,    \* SessionWorkspace, its state and refs
    loops,   \* the calls of submit_unaccepted_session_runs that are under way
    plain,   \* the plain message that is being sent
    wire,    \* POST .../runs requests the server has not handled
    server,  \* the session, its Runs and deleted input messages
    count    \* what the bounds bound, and what was asked on the welcome page

vars == <<store, page, loops, plain, wire, server, count>>

-----------------------------------------------------------------------------
(* Values *)

Services == 1 .. Targets
Questions == {"plain", "hidden", "query", "health"}
Intents == [id : 1 .. MaxIntents, ask : 1 .. MaxAsks, query : Questions, accepted : SUBSET Services]
NoIntent == [id |-> 0, ask |-> 0, query |-> "none", accepted |-> {}]
AnyIntent == Intents \cup {NoIntent}

Loops == {1, 2}
\* own: it was started by the page that is open now.
NoLoop == [pc |-> "idle", intent |-> NoIntent, at |-> 0, own |-> FALSE]
NoPlain == [pc |-> "idle", query |-> "none", ask |-> 0, intent |-> NoIntent]
NoPage == [up |-> FALSE, fixed |-> FALSE, seen |-> "unknown", first |-> "unknown",
           intent |-> NoIntent, initial |-> 0, auto |-> FALSE, tried |-> FALSE,
           reconciled |-> {}, reading |-> NoIntent, latest |-> 0, clicked |-> FALSE]

TypeOK ==
    /\ store \in [intent : AnyIntent, pending : {"none", "plain", "hidden"}]
    /\ page \in [up : BOOLEAN, fixed : BOOLEAN, seen : {"unknown", "active", "archived"},
                 first : {"unknown", "active", "archived"}, intent : AnyIntent,
                 initial : 0 .. MaxIntents, auto : BOOLEAN, tried : BOOLEAN,
                 reconciled : SUBSET (1 .. MaxIntents), reading : AnyIntent,
                 latest : Loops \cup {0}, clicked : BOOLEAN]
    /\ loops \in [Loops -> [pc : {"idle", "waiting", "ok", "failed"}, intent : AnyIntent,
                            at : 0 .. Targets, own : BOOLEAN]]
    /\ plain \in [pc : {"idle", "sent", "saved", "required", "failed"},
                  query : Questions \cup {"none"}, ask : 0 .. MaxAsks, intent : AnyIntent]
    /\ wire \subseteq [id : 1 .. MaxIntents, ask : 1 .. MaxAsks, service : Services,
                       by : Loops \cup {0}]
    /\ server \in [status : {"active", "archived"},
                   runs : SUBSET [id : 1 .. MaxIntents, ask : 1 .. MaxAsks, service : Services],
                   deleted : SUBSET [id : 1 .. MaxIntents, ask : 1 .. MaxAsks, service : Services]]
    /\ count \in [asks : 0 .. MaxAsks, intents : 0 .. MaxIntents, faults : 0 .. MaxFaults,
                  home : {"none", "plain", "hidden", "query"}]

\* message-intent.ts is_investigation_message, and the server's
\* requires_database_context.
Investigates(query) == query \in {"query", "health"}
Requires(query) == query # "plain"

Init ==
    /\ store = [intent |-> NoIntent, pending |-> "none"]
    /\ page = NoPage
    /\ loops = [l \in Loops |-> NoLoop]
    /\ plain = NoPlain
    /\ wire = {}
    /\ server = [status |-> "active", runs |-> {}, deleted |-> {}]
    /\ count = [asks |-> 0, intents |-> 0, faults |-> 0, home |-> "none"]

-----------------------------------------------------------------------------
(* Submitting: submit_investigation and submit_unaccepted_session_runs *)

\* create_run.isPending follows the last request the page sent.
Busy == page.latest # 0 /\ loops[page.latest].own /\ loops[page.latest].pc # "idle"

FreeLoops == {l \in Loops : loops[l].pc = "idle"}

\* Mutant: the loop counts past the last service.
UnacceptedPast(intent, n) == (n + 1 .. Targets + 1) \ intent.accepted

\* The services of an intent that the loop still has to submit after the n-th.
Unaccepted(intent, n) == (n + 1 .. Targets) \ intent.accepted

\* The loop l posts for the next service, or ends; nobody awaits what it posted
\* when its page is gone.
GoOn(l, intent, n, own) ==
    LET left == Unaccepted(intent, n)
        post == [id |-> intent.id, ask |-> intent.ask, service |-> Min(left), by |-> l]
    IN IF left = {}
       THEN loops' = [loops EXCEPT ![l] = NoLoop] /\ UNCHANGED wire
       ELSE /\ loops' = [loops EXCEPT ![l] =
                           [pc |-> "waiting", intent |-> intent, at |-> Min(left), own |-> own]]
            /\ wire' = wire \cup {post}

NewIntent(query, ask) ==
    [id |-> count.intents + 1, ask |-> ask, query |-> query, accepted |-> {}]

\* Mutant: a retry makes an intent of its own.
IntentForAnew(query, ask, known) == NewIntent(query, ask)

\* The intent that is submitted: the one the page had when it decided to.
IntentFor(query, ask, known) == IF known = NoIntent THEN NewIntent(query, ask) ELSE known

\* submit_investigation, as the last thing a step of the page does: shown is the
\* page so far.  While another question is being recovered nothing happens.
Submit(query, ask, known, shown) ==
    LET intent == IntentFor(query, ask, known)
        created == intent.id > count.intents
    IN IF intent.query # query
       THEN page' = shown /\ UNCHANGED <<store, loops, wire, count>>
       ELSE /\ intent.id <= MaxIntents /\ FreeLoops # {}
            /\ LET l == Min(FreeLoops)
               IN /\ GoOn(l, intent, 0, TRUE)
                  /\ page' = [shown EXCEPT !.intent = intent,
                                !.latest = IF Unaccepted(intent, 0) = {} THEN @ ELSE l]
            /\ store' = [store EXCEPT !.intent = intent]
            /\ count' = IF created
                        THEN [count EXCEPT !.intents = @ + 1, !.asks = IF ask > @ THEN ask ELSE @]
                        ELSE count

\* The plain message leaves with the send intent of this render in its closure.
Sending(query, ask) == [pc |-> "sent", query |-> query, ask |-> ask, intent |-> page.intent]

-----------------------------------------------------------------------------
(* Opening and leaving the page *)

Opened(intent, fixed) ==
    [NoPage EXCEPT !.up = TRUE, !.fixed = fixed, !.intent = intent, !.initial = intent.id]

\* ConversationHome: the session is created, the question stored, the page opened.
AskAtHome(query) ==
    /\ ~page.up /\ count.asks = 0 /\ MaxAsks > 0 /\ MaxIntents > 0
    /\ query \in {"plain", "hidden", "query"}
    /\ IF Investigates(query)
         THEN /\ store' = [store EXCEPT !.intent = NewIntent(query, 1)]
              /\ count' = [count EXCEPT !.asks = 1, !.intents = 1, !.home = query]
         ELSE /\ store' = [store EXCEPT !.pending = query]
              /\ count' = [count EXCEPT !.asks = 1, !.home = query]
    /\ page' = Opened(store'.intent, FALSE)
    /\ UNCHANGED <<loops, plain, wire, server>>

\* The page of an existing session, from the sidebar, by a reload or from the
\* service centre with the fixed question.
Open(fixed) ==
    /\ ~page.up
    /\ page' = Opened(store.intent, fixed)
    /\ UNCHANGED <<store, loops, plain, wire, server, count>>

Fault == count.faults < MaxFaults /\ count' = [count EXCEPT !.faults = @ + 1]

\* Another page of the application is shown: the submissions go on without this
\* one, the callbacks of the plain message do not.
Leave ==
    /\ page.up /\ Fault
    /\ page' = NoPage
    /\ plain' = NoPlain
    /\ loops' = [l \in Loops |-> [loops[l] EXCEPT !.own = FALSE]]
    /\ UNCHANGED <<store, wire, server>>

\* The tab is reloaded: only sessionStorage and what is on its way remain.
Reload ==
    /\ page.up /\ Fault
    /\ page' = NoPage
    /\ plain' = NoPlain
    /\ loops' = [l \in Loops |-> NoLoop]
    /\ wire' = {[post EXCEPT !.by = 0] : post \in wire}
    /\ UNCHANGED <<store, server>>

\* Mutant: every fresh status decides anew on automatic submission.
SeeAnew ==
    /\ page.up /\ page.seen # server.status
    /\ page' = [page EXCEPT !.seen = server.status, !.first = server.status]
    /\ UNCHANGED <<store, loops, plain, wire, server, count>>

\* A fresh session is read.  The first status decides for as long as the page is
\* open whether anything is sent automatically.
See ==
    /\ page.up /\ page.seen # server.status
    /\ page' = [page EXCEPT !.seen = server.status,
                            !.first = IF @ = "unknown" THEN server.status ELSE @]
    /\ UNCHANGED <<store, loops, plain, wire, server, count>>

-----------------------------------------------------------------------------
(* The effects of a render in which the session is active *)

Active == page.up /\ page.seen = "active"

\* The intent that was there before the page was opened is submitted once.
SubmitsIntent ==
    /\ Active /\ page.first = "active" /\ ~Busy /\ ~page.auto
    /\ page.intent # NoIntent /\ Unaccepted(page.intent, 0) # {}
    /\ page.intent.id = page.initial

\* The plain message of the welcome page is sent once.
SendsPending ==
    /\ Active /\ page.first = "active" /\ ~Busy /\ plain.pc = "idle"
    /\ store.pending # "none" /\ ~page.tried

\* Mutant: once for a page, whatever intent.
ReconcilesOnce ==
    /\ Active /\ ~Busy /\ page.reading = NoIntent
    /\ page.intent # NoIntent /\ Unaccepted(page.intent, 0) = {}
    /\ page.reconciled = {}

\* An intent with all its Runs accepted is looked for on the server, once.
\* Bound: one such reading at a time.
Reconciles ==
    /\ Active /\ ~Busy /\ page.reading = NoIntent
    /\ page.intent # NoIntent /\ Unaccepted(page.intent, 0) = {}
    /\ page.intent.id \notin page.reconciled

Settled == ~SubmitsIntent /\ ~SendsPending /\ ~Reconciles

\* All the effects one render enables, each with the values of that render.
Effects ==
    LET shown == [page EXCEPT
                    !.auto = @ \/ SubmitsIntent,
                    !.tried = @ \/ SendsPending,
                    !.reading = IF Reconciles THEN page.intent ELSE @,
                    !.reconciled = IF Reconciles THEN @ \cup {page.intent.id} ELSE @]
    IN /\ ~Settled
       /\ plain' = IF SendsPending THEN Sending(store.pending, 1) ELSE plain
       /\ IF SubmitsIntent
            THEN Submit(page.intent.query, page.intent.ask, page.intent, shown)
            ELSE page' = shown /\ UNCHANGED <<store, loops, wire, count>>
       /\ UNCHANGED server

-----------------------------------------------------------------------------
(* What a person does on the page *)

\* The question of the intent is a retry, any other question a new one.
AskOf(query) ==
    IF page.intent.query = query THEN page.intent.ask ELSE count.asks + 1

\* submit_text.
Send(query) ==
    /\ Active /\ Settled /\ ~page.fixed /\ ~Busy /\ plain.pc = "idle"
    /\ query # "health" /\ AskOf(query) <= MaxAsks
    /\ IF Investigates(query)
         THEN /\ Submit(query, AskOf(query), page.intent, [page EXCEPT !.clicked = TRUE])
              /\ UNCHANGED plain
         ELSE /\ plain' = Sending(query, AskOf(query))
              /\ page' = [page EXCEPT !.clicked = TRUE]
              /\ count' = [count EXCEPT !.asks = IF AskOf(query) > @ THEN AskOf(query) ELSE @]
              /\ UNCHANGED <<store, loops, wire>>
    /\ UNCHANGED server

\* The button of the fixed health question, unless another intent is there.
SendHealth ==
    /\ Active /\ Settled /\ page.fixed /\ ~Busy
    /\ AskOf("health") <= MaxAsks
    /\ \/ page.intent = NoIntent
       \/ page.intent.query = "health" /\ Unaccepted(page.intent, 0) # {}
    /\ Submit("health", AskOf("health"), page.intent, [page EXCEPT !.clicked = TRUE])
    /\ UNCHANGED <<plain, server>>

\* discard_send_intent, offered when the intent is in the way of that button.
Discard ==
    /\ Active /\ Settled /\ page.fixed
    /\ page.intent # NoIntent /\ page.intent.query # "health"
    /\ store' = [store EXCEPT !.intent = NoIntent]
    /\ page' = [page EXCEPT !.intent = NoIntent, !.clicked = TRUE]
    /\ UNCHANGED <<loops, plain, wire, server, count>>

-----------------------------------------------------------------------------
(* Requests and answers *)

RunOf(post) == [id |-> post.id, ask |-> post.ask, service |-> post.service]

\* What the page that awaits the post sees of it.
Answer(post, pc) ==
    IF post.by = 0 THEN loops ELSE [loops EXCEPT ![post.by].pc = pc]

\* The server refuses in an archived session, and replays a key it knows.
Accept(post) ==
    /\ post \in wire
    /\ wire' = wire \ {post}
    /\ IF server.status = "active"
         THEN /\ server' = [server EXCEPT !.runs = @ \cup {RunOf(post)}]
              /\ loops' = Answer(post, "ok")
         ELSE loops' = Answer(post, "failed") /\ UNCHANGED server
    /\ UNCHANGED <<store, page, plain, count>>

\* A request or its answer is lost, or comes after the client gave up.
Lose(post) ==
    /\ post \in wire /\ post.by # 0 /\ Fault
    /\ \/ wire' = wire \ {post}
       \/ wire' = (wire \ {post}) \cup {[post EXCEPT !.by = 0]}
    /\ loops' = Answer(post, "failed")
    /\ UNCHANGED <<store, page, plain, server>>

\* Mutant: the mark is made on the intent of the loop.
MarkedOwn(intent, service) == [intent EXCEPT !.accepted = @ \cup {service}]

\* mark_session_run_send_intent_accepted, on the intent as stored now; none, or
\* another one, is left alone.
Marked(intent, service) ==
    IF store.intent.id # intent.id THEN store.intent
    ELSE [store.intent EXCEPT !.accepted = @ \cup {service}]

\* onSuccess, and the loop goes on.
Accepted(l) ==
    LET loop == loops[l]
        intent == Marked(loop.intent, loop.at)
        posts == Unaccepted(loop.intent, loop.at) # {}
    IN /\ loop.pc = "ok"
       /\ store' = [store EXCEPT !.intent = intent]
       /\ page' = [page EXCEPT
                     !.intent = IF loop.own /\ intent.id = loop.intent.id THEN intent ELSE @,
                     !.latest = IF loop.own /\ posts THEN l ELSE @]
       /\ GoOn(l, loop.intent, loop.at, loop.own)
       /\ UNCHANGED <<plain, server, count>>

\* Mutant: the mark is made when the request is settled.
RefusedMarks(l) ==
    LET loop == loops[l]
        intent == Marked(loop.intent, loop.at)
    IN /\ loop.pc = "failed"
       /\ store' = [store EXCEPT !.intent = intent]
       /\ page' = IF loop.own THEN [page EXCEPT !.intent = intent] ELSE page
       /\ GoOn(l, loop.intent, loop.at, loop.own)
       /\ UNCHANGED <<plain, server, count>>

\* onError: the run stays unaccepted and the loop goes on.
Refused(l) ==
    LET loop == loops[l]
        posts == Unaccepted(loop.intent, loop.at) # {}
    IN /\ loop.pc = "failed"
       /\ page' = [page EXCEPT !.latest = IF loop.own /\ posts THEN l ELSE @]
       /\ GoOn(l, loop.intent, loop.at, loop.own)
       /\ UNCHANGED <<store, plain, server, count>>

\* Mutant: the Runs are enough.
FoundRuns(intent) ==
    \A s \in Services :
        [id |-> intent.id, ask |-> intent.ask, service |-> s] \in server.runs

\* Every Run of the intent and its input message are on the server.
Found(intent) ==
    \A s \in Services :
        [id |-> intent.id, ask |-> intent.ask, service |-> s] \in server.runs \ server.deleted

\* reconcile_accepted_intent ends: the intent is cleared, or an error shown.
ReadEnds ==
    /\ page.up /\ page.reading # NoIntent
    /\ IF Found(page.reading)
         THEN /\ store' = [store EXCEPT !.intent = NoIntent]
              /\ page' = [page EXCEPT !.intent = NoIntent, !.reading = NoIntent, !.fixed = FALSE]
         ELSE page' = [page EXCEPT !.reading = NoIntent] /\ UNCHANGED store
    /\ UNCHANGED <<loops, plain, wire, server, count>>

\* One of its pages cannot be read.
ReadFails ==
    /\ page.up /\ page.reading # NoIntent /\ Fault
    /\ page' = [page EXCEPT !.reading = NoIntent]
    /\ UNCHANGED <<store, loops, plain, wire, server>>

\* send_plain_message on the server: what it would investigate is refused before
\* the status of the session is looked at.
HandlePlain ==
    /\ plain.pc = "sent"
    /\ plain' = [plain EXCEPT !.pc = IF Requires(plain.query) THEN "required"
                                     ELSE IF server.status = "active" THEN "saved" ELSE "failed"]
    /\ UNCHANGED <<store, page, loops, wire, server, count>>

LosePlain ==
    /\ plain.pc \in {"sent", "saved", "required"} /\ Fault
    /\ plain' = [plain EXCEPT !.pc = "failed"]
    /\ UNCHANGED <<store, page, loops, wire, server>>

\* A saved message takes the pending one out of the storage, a refused question
\* is investigated, and any other error is shown.
PlainEnds ==
    /\ page.up
    /\ \/ /\ plain.pc = "saved"
          /\ store' = [store EXCEPT !.pending = "none"]
          /\ UNCHANGED <<page, loops, wire, count>>
       \/ /\ plain.pc = "required"
          /\ Submit(plain.query, plain.ask, plain.intent, page)
       \/ /\ plain.pc = "failed"
          /\ UNCHANGED <<store, page, loops, wire, count>>
    /\ plain' = NoPlain
    /\ UNCHANGED server

\* The session is archived or restored, or the message of a Run deleted.
Archive ==
    /\ Fault
    /\ server' = [server EXCEPT !.status = IF @ = "active" THEN "archived" ELSE "active"]
    /\ UNCHANGED <<store, page, loops, plain, wire>>

DeleteMessage(run) ==
    /\ run \in server.runs \ server.deleted /\ Fault
    /\ server' = [server EXCEPT !.deleted = @ \cup {run}]
    /\ UNCHANGED <<store, page, loops, plain, wire>>

-----------------------------------------------------------------------------
PageStep == See \/ Effects \/ PlainEnds
Network == (\E post \in wire : Accept(post)) \/ HandlePlain
Loop(l) == Accepted(l) \/ Refused(l)

Person ==
    \/ \E query \in Questions : AskAtHome(query) \/ Send(query)
    \/ \E fixed \in BOOLEAN : Open(fixed)
    \/ Leave \/ Reload \/ SendHealth \/ Discard

Trouble ==
    \/ \E post \in wire : Lose(post)
    \/ LosePlain \/ ReadFails \/ Archive
    \/ \E run \in server.runs : DeleteMessage(run)

Next == PageStep \/ ReadEnds \/ Network \/ (\E l \in Loops : Loop(l)) \/ Person \/ Trouble

Spec == Init /\ [][Next]_vars

\* The browser renders, runs effects and callbacks, and the server answers.
Fairness ==
    /\ WF_vars(PageStep) /\ WF_vars(ReadEnds) /\ WF_vars(Network)
    /\ \A l \in Loops : WF_vars(Loop(l))

FairSpec == Spec /\ Fairness
-----------------------------------------------------------------------------
(* Properties *)

\* However a question is retried, reloaded and answered late, it is investigated
\* once for each service.  Left out is the question of the welcome page that was
\* taken for a plain message: PendingIsSentOnce.
AskedOnceRunsOnce ==
    \A a, b \in server.runs :
        a.ask = b.ask /\ a.service = b.service /\ ~(count.home = "hidden" /\ a.ask = 1) => a = b

\* What is marked as accepted was accepted under the key of that run.
MarksAreTrue ==
    \A intent \in {store.intent, page.intent} :
        \A s \in intent.accepted :
            [id |-> intent.id, ask |-> intent.ask, service |-> s] \in server.runs

\* An intent leaves the storage when all its Runs and messages are on the server,
\* or by a person who prefers the fixed question.
IntentsGoWhenSaved ==
    [][store'.intent.id # store.intent.id =>
         store.intent = NoIntent \/ page.fixed \/ Found(store.intent)]_vars

\* The answer to a submission never brings back an intent that was cleared or
\* discarded while the request was on its way.
AnswersResurrectNothing ==
    [][(\E l \in Loops : loops[l].pc = "ok" /\ loops'[l].pc # "ok")
         => store'.intent.id = store.intent.id]_vars

\* An intent leaves the storage for a reason, and for good.
IntentsLeaveOnce == IntentsGoWhenSaved /\ AnswersResurrectNothing

\* A page that first saw its session archived starts nothing on its own when the
\* session is restored.
ArchivedStaysQuiet ==
    page.first = "archived" /\ ~page.clicked =>
        plain.pc = "idle" /\ \A l \in Loops : loops[l].pc # "idle" => ~loops[l].own

\* However a question is retried, reloaded, restored and answered late, it is
\* investigated once for each service, by somebody who asks for it, and the marks in
\* the storage say which investigations have begun.
QuestionsRunOnce ==
    /\ TypeOK
    /\ AskedOnceRunsOnce
    /\ MarksAreTrue
    /\ ArchivedStaysQuiet

\* An intent is submitted, recovered and cleared in the end, unless a fault came
\* in between.  A hidden question can get stuck: sent again while its intent is
\* being cleared, it puts the intent of its closure back, which the page has
\* tried to recover before.
IntentsAreResolved ==
    store.intent.query \in {"query", "health"} ~> (store.intent = NoIntent \/ count.faults > 0)

\* plain-message-intent.ts: the pending message is cleared when it was sent or
\* definitely failed, so that a page opened later does not ask again.  Refuted:
\* the question that is refused as a plain message and investigated stays, and
\* every page that is opened investigates it again.
PendingIsSentOnce ==
    \A a, b \in server.runs : a.ask = b.ask /\ a.service = b.service => a = b
=============================================================================

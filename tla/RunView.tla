------------------------------ MODULE RunView ------------------------------
(***************************************************************************)
(* What a client is shown of a Run while it is carried out: the rows that  *)
(* RunApplicationService writes of a main agent's signals                  *)
(* (application/services.py), the reads that GET /runs/{id}, GET /runs and *)
(* the list of a session make of them (api/v1/routes.py), the projection   *)
(* of the capabilities (api/v1/resources.py), the validation of the        *)
(* resource (api/v1/schemas.py), and the projection the browser makes of   *)
(* the same events (main-delivery-readers.ts).                             *)
(*                                                                         *)
(* A read is several SELECTs of one session, each with a snapshot of its   *)
(* own (READ COMMITTED, or SQLite outside a transaction): the row of the   *)
(* Run, then its result or delivery, then its events.                      *)
(***************************************************************************)
EXTENDS MainAgentKernel, FiniteSets, SequencesExt

CONSTANT MaxDamage   \* bound: stored deliveries that become unreadable

\* A Run decides at least once: MainAgentBudget takes no time that is not positive.
ASSUME ViewAssumption == MaxDamage \in Nat /\ MaxDecisions > 0 /\ Deadline > 0

VARIABLES
    run,      \* the row of the Run and the rows that belong to it
    trail,    \* its route_decided and agent_done events
    reader,   \* a read under way
    damage    \* counter of the bound

viewVars == <<kernelVars, run, trail, reader, damage>>
rowVars == <<run, trail, reader, damage>>

RunKinds == {"main_agent", "diagnosis"}
RunStatuses == {"queued", "running", "succeeded", "failed", "cancelled"}
TerminalStatuses == {"succeeded", "failed", "cancelled"}

\* A delivery names the skill its answer is grounded in, or the capability it was called for.
Delivery == [kind : Deliveries \cup {"unreadable"}, cap : Knowledge \cup Execution \cup {"none"}]
NoDelivery == [kind |-> "none", cap |-> "none"]
Unreadable == [kind |-> "unreadable", cap |-> "none"]

Run == [kind : RunKinds, status : RunStatuses, result : BOOLEAN,
        delivery : Delivery \cup {NoDelivery}]

RouteDecisions == {"answer", "needs_input", "load_skill", "invoke_capability",
                   "budget_exhausted", "failed"}
DoneOutcomes == {"answer", "answer_with_knowledge", "needs_input", "comparison", "failed",
                 "budget_exhausted", "canceled"}

\* What is kept of an event: of agent_done the outcome and the steps.
StoredEvent == [type : {"route_decided", "agent_done"}, decision : RouteDecisions \cup DoneOutcomes,
                step : 0 .. MaxDecisions,
                cap : Knowledge \cup Execution \cup {"none"}, status : {"ok", "unavailable", "none"}]

Pages == {"detail", "summary"}
NoRead == [pc |-> "none", page |-> "none", status |-> "none", result |-> FALSE,
           delivery |-> NoDelivery, events |-> <<>>]

-----------------------------------------------------------------------------
(* Writing: one event of the executor after the other *)

Claimed == run.status # "queued"
HasEnded == run.status \in TerminalStatuses

LoadLabels == {"load_skill", "load_skill_unavailable"}
CallLabels == {"invoke_capability", "invoke_capability_unavailable"}

\* The capability a route signal names: that of the decision it is about.
Named(label) ==
    IF label \in {"answer", "needs_input"} \/ kernel.decision.kind \notin {"load_skill", "invoke_capability"}
    THEN "none" ELSE kernel.decision.id

DecisionOf(label) ==
    IF label \in LoadLabels THEN "load_skill"
    ELSE IF label \in CallLabels THEN "invoke_capability" ELSE label

RouteStatus(label) ==
    IF label \in {"answer", "needs_input", "load_skill", "invoke_capability"} THEN "ok"
    ELSE "unavailable"

\* Mutant: capabilities are stored by the name the model gave them.
KnownAny(cap) == cap
\* Only a registered capability is stored, and a step within the limit.
Known(cap) == IF cap \in Knowledge \cup Execution THEN cap ELSE "none"
SafeStep(step) == IF step \in 1 .. MaxDecisions THEN step ELSE 0

SafeEvent(item) ==
    [type |-> item.type, step |-> SafeStep(item.step),
     decision |-> IF item.type = "route_decided" THEN DecisionOf(item.label) ELSE item.label,
     cap |-> IF item.type = "route_decided" THEN Known(Named(item.label)) ELSE "none",
     status |-> IF item.type = "route_decided" THEN RouteStatus(item.label) ELSE "none"]

Projected == {"route_decided", "agent_done"}
StreamEnds == {"delivery", "failure", "raise", "eof"}
Stop == [kernel EXCEPT !.pc = "over"]

\* Mutant: an event is stored whatever became of the Run.
MayAppendAlways == TRUE
\* A sequence number is only given out while the Run is running.
MayAppend == run.status = "running"

StoreEvent ==
    /\ out # <<>> /\ Head(out).type \notin StreamEnds
    /\ IF MayAppend
       THEN /\ trail' = IF Head(out).type \in Projected THEN Append(trail, SafeEvent(Head(out)))
                        ELSE trail
            /\ out' = Tail(out) /\ kernel' = kernel
       ELSE out' = <<>> /\ kernel' = Stop /\ trail' = trail
    /\ UNCHANGED <<material, now, cancel, run, reader, damage>>

\* The skill that was loaded last, or the capability that was called.
Grounding == IF kernel.delivery = "answer_with_knowledge" THEN kernel.loaded[Len(kernel.loaded)]
             ELSE IF kernel.delivery = "comparison" THEN kernel.decision.id ELSE "none"

\* The end of the stream.  A delivery that is not accepted fails the Run, and a
\* Run that has had its end keeps it.
StoreEnd ==
    /\ out # <<>> /\ Head(out).type \in StreamEnds
    /\ \/ /\ Head(out).type = "delivery" /\ run.status = "running"
          /\ run' = [run EXCEPT !.status = "succeeded",
                                !.delivery = [kind |-> kernel.delivery, cap |-> Grounding]]
       \/ run.status = "running" /\ run' = [run EXCEPT !.status = "failed"]
       \/ HasEnded /\ run' = run
    /\ out' = <<>>
    /\ UNCHANGED <<kernel, material, now, cancel, trail, reader, damage>>

\* The Run is claimed; a Run of the diagnosis has an executor of its own.
Claim ==
    /\ run.status = "queued"
    /\ run' = [run EXCEPT !.status = "running"]
    /\ IF run.kind = "main_agent" THEN StartAgent ELSE UNCHANGED kernelVars
    /\ UNCHANGED <<trail, reader, damage>>

ClaimFails ==
    /\ run.status = "queued" /\ run.kind = "main_agent"
    /\ RefuseInput
    /\ run' = [run EXCEPT !.status = "running"]
    /\ UNCHANGED <<trail, reader, damage>>

FinishDiagnosis ==
    /\ run.kind = "diagnosis" /\ run.status = "running"
    /\ \/ run' = [run EXCEPT !.status = "succeeded", !.result = TRUE]
       \/ run' = [run EXCEPT !.status = "failed"]
    /\ UNCHANGED <<kernelVars, trail, reader, damage>>

CancelRun ==
    /\ run.status \in {"queued", "running"}
    /\ run' = [run EXCEPT !.status = "cancelled"]
    /\ cancel' = [at |-> kernel.pc, begun |-> Begun]
    /\ UNCHANGED <<kernel, material, now, out, trail, reader, damage>>

\* The executor goes on: the kernel waits for its signals to be stored.
Work ==
    /\ run.kind = "main_agent" /\ Claimed
    /\ KernelStep \/ Tick
    /\ UNCHANGED rowVars

\* A stored delivery has an unknown version, or no longer validates.
Damage ==
    /\ damage < MaxDamage /\ run.delivery # NoDelivery
    /\ damage' = damage + 1
    /\ run' = [run EXCEPT !.delivery = Unreadable]
    /\ UNCHANGED <<kernelVars, trail, reader>>

-----------------------------------------------------------------------------
(* Projecting the events *)

Routes(events) == {e \in Range(events) : e.type = "route_decided"}
Dones(events) == {e \in Range(events) : e.type = "agent_done"}

Readable(events) ==
    /\ \A e \in Routes(events) :
         /\ e.decision \in RouteDecisions /\ e.step \in 1 .. MaxDecisions
         /\ e.cap # "none" =>
              e.status # "none" /\ (e.status = "ok" => e.decision \in {"load_skill", "invoke_capability"})
    /\ \A e \in Dones(events) : e.decision \in DoneOutcomes /\ e.step \in 1 .. MaxDecisions

\* Mutant: the status of a use is that of its decision alone.
ItemStatusOfDecision(e) == IF e.decision = "load_skill" THEN "loaded" ELSE "ok"
\* The uses of capabilities that events of a status tell, and what they name.
ItemStatus(e) ==
    IF e.status # "ok" THEN "unavailable"
    ELSE IF e.decision = "load_skill" THEN "loaded" ELSE "ok"
Uses(events, status) ==
    {[cap |-> e.cap, status |-> ItemStatus(e)] : e \in {r \in Routes(events) : r.cap # "none" /\ r.status = status}}
Caps(uses) == {u.cap : u \in uses}
Besides(uses, others) == {u \in uses : u.cap \notin Caps(others)}

Highest(steps) == CHOOSE s \in steps : \A q \in steps : q <= s
MaxStep(events) == Highest({e.step : e \in Routes(events)} \cup {0})

Projection(status, used, degraded, steps) ==
    [status |-> status, used |-> used, degraded |-> degraded, steps |-> steps]
NoProjection == Projection("none", {}, {}, 0)

\* Mutant: what failed once stays degraded.
DegradedBesides(degraded, used) == degraded
\* A capability that was used is not shown as degraded.
Degraded(degraded, used) == Besides(degraded, used)

\* What the delivery proves: the comparison was called, the skill loaded.
Proved(delivery) ==
    {[cap |-> c, status |-> IF delivery.kind = "comparison" THEN "ok" ELSE "loaded"] :
        c \in {delivery.cap} \ {"none"}}

\* main_capability_projection: what the delivery proves counts as used.
ShownCapabilities(delivery, events) ==
    LET used == Besides(Uses(events, "ok"), Proved(delivery)) \cup Proved(delivery)
        degraded == Degraded(Uses(events, "unavailable"), used)
        steps == IF Dones(events) # {} THEN (CHOOSE e \in Dones(events) : TRUE).step
                 ELSE MaxStep(events)
    IN IF ~Readable(events) THEN Projection("unavailable", {}, {}, 0)
       ELSE IF used \cup degraded = {} THEN Projection("absent", {}, {}, 0)
       ELSE Projection("available", used, degraded, steps)

\* Mutant: the highest step is shown, also after the end has told the steps taken.
LiveStepsHighest(events) == Highest({e.step : e \in Range(events)} \cup {0})

\* read_live_main_capabilities, of the events as they arrive: an end replaces the steps
\* of the events before it.
Replaced(events, i) == \E j \in DOMAIN events : j > i /\ events[j].type = "agent_done"
LiveSteps(events) ==
    Highest({events[i].step : i \in {i \in DOMAIN events : ~Replaced(events, i)}} \cup {0})

LiveCapabilities(events) ==
    LET used == Uses(events, "ok")
        degraded == Besides(Uses(events, "unavailable"), used)
    IN IF ~Readable(events) THEN Projection("unavailable", {}, {}, 0)
       ELSE IF used \cup degraded = {} THEN Projection("absent", {}, {}, 0)
       ELSE Projection("available", used, degraded, LiveSteps(events))

-----------------------------------------------------------------------------
(* Reading *)

\* The row of the Run.  A page of the list of a session reads like the detail.
OpenRead ==
    /\ reader.pc \in {"none", "done"}
    /\ \E page \in Pages :
         reader' = [NoRead EXCEPT !.page = page, !.status = run.status,
             !.pc = IF page = "detail" THEN "delivery"
                    ELSE IF run.kind = "main_agent" THEN "events" ELSE "done"]
    /\ UNCHANGED <<kernelVars, run, trail, damage>>

\* The result of a diagnosis, or the delivery of a main agent.
ReadDelivery ==
    /\ reader.pc = "delivery"
    /\ reader' = [reader EXCEPT !.result = run.result, !.delivery = run.delivery,
                                !.pc = IF run.kind = "main_agent" THEN "events" ELSE "done"]
    /\ UNCHANGED <<kernelVars, run, trail, damage>>

\* Only the events of a Run that was over when its row was read are shown.
ReadEvents ==
    /\ reader.pc = "events"
    /\ reader' = [reader EXCEPT !.pc = "done",
                                !.events = IF reader.status \in TerminalStatuses THEN trail ELSE <<>>]
    /\ UNCHANGED <<kernelVars, run, trail, damage>>

ReadClosed ==
    /\ reader.pc = "done"
    /\ reader' = NoRead
    /\ UNCHANGED <<kernelVars, run, trail, damage>>

\* Mutant: a delivery that does not parse is taken for one that is missing.
DeliveryStatusPlain(status, delivery) ==
    IF delivery \in {NoDelivery, Unreadable} THEN "absent"
    ELSE "available"

\* _main_projection: a Run that succeeded must have a delivery that can be read.
DeliveryStatus(status, delivery) ==
    IF delivery.kind = "unreadable" THEN "unavailable"
    ELSE IF delivery # NoDelivery THEN "available"
    ELSE IF status = "succeeded" THEN "unavailable" ELSE "absent"

Shown(delivery) == IF delivery.kind = "unreadable" THEN NoDelivery ELSE delivery

\* _knowledge_resource: only an answer has one, and the delivery alone tells it.
GroundedIn(delivery) == IF delivery.kind = "answer_with_knowledge" THEN delivery.cap ELSE "none"

\* run_resource, of what was read.
Resource ==
    LET main == run.kind = "main_agent"
        delivery == IF main THEN Shown(reader.delivery) ELSE NoDelivery
        caps == IF main /\ reader.status \in TerminalStatuses
                THEN ShownCapabilities(delivery, reader.events) ELSE NoProjection
    IN [status |-> reader.status, result |-> reader.result, delivery |-> delivery,
        deliveryStatus |-> IF main THEN DeliveryStatus(reader.status, reader.delivery) ELSE "none",
        caps |-> caps,
        knowledge |-> IF reader.status \in TerminalStatuses THEN GroundedIn(delivery) ELSE "none"]

\* validate_terminal_payload: a resource that contradicts itself is not sent.
Consistent(r) ==
    IF run.kind = "diagnosis"
    THEN r.result <=> r.status = "succeeded"
    ELSE /\ IF r.status = "succeeded"
            THEN r.delivery # NoDelivery \/ r.deliveryStatus = "unavailable"
            ELSE r.delivery = NoDelivery /\ r.deliveryStatus \in {"none", "absent"}
         /\ ~r.result
         /\ r.knowledge = GroundedIn(r.delivery)

\* The summary carries neither delivery nor result, and nothing is validated.
Served == reader.pc = "done" /\ (reader.page = "summary" \/ Consistent(Resource))
Refused == reader.pc = "done" /\ reader.page = "detail" /\ ~Consistent(Resource)

-----------------------------------------------------------------------------
(* Showing: the page reads what it was sent once more *)

\* read_capability_use: a name and a status.
ReadableUse(u) == u.cap # "none" /\ u.status \in {"loaded", "ok", "unavailable"}

\* read_main_capabilities: lists that contradict their own statuses are closed.
ReadCapabilities(caps) ==
    IF \/ \E u \in caps.used \cup caps.degraded : ~ReadableUse(u)
       \/ \E u \in caps.used : u.status = "unavailable"
       \/ \E u \in caps.degraded : u.status # "unavailable"
    THEN Projection("unavailable", {}, {}, 0) ELSE caps

\* MainCapabilityStrip: the strip of a Run, with the badge of its knowledge.
Strip(caps, knowledge) ==
    LET read == ReadCapabilities(caps)
    IN [caps |-> read, badge |-> IF read.status \in {"none", "absent"} THEN "none" ELSE knowledge]

\* read_knowledge_grounding: only an answer has one.
Badge(delivery) == IF delivery.kind = "answer_with_knowledge" THEN delivery.cap ELSE "none"

\* MainDeliveryPanel: the differences of a comparison, or the badge of a grounded answer.
Panel(delivery) == [differences |-> delivery.kind = "comparison", badge |-> Badge(delivery)]
NoPanel == Panel(NoDelivery)

\* MainAgentReply: the panel is that of a Run which succeeded with a delivery that can be read.
Card(r) ==
    [strip |-> IF r.status \in TerminalStatuses THEN Strip(r.caps, r.knowledge)
               ELSE Strip(NoProjection, "none"),
     panel |-> IF r.status = "succeeded" /\ r.deliveryStatus # "unavailable" THEN Panel(r.delivery)
               ELSE NoPanel]

\* TraceCard: the events that ask for attention.
Attention(events) == {e \in Range(events) : e.status = "unavailable"}

-----------------------------------------------------------------------------

ViewInit ==
    /\ KernelInit /\ out = <<>>
    /\ run \in [kind : RunKinds, status : {"queued"}, result : {FALSE}, delivery : {NoDelivery}]
    /\ run.kind = "diagnosis" => material = {}
    /\ trail = <<>> /\ reader = NoRead /\ damage = 0

\* CancelRun stands for the cancel of the kernel, StoreEvent and StoreEnd for its reader.
ViewNext ==
    \/ Claim \/ ClaimFails \/ Work \/ StoreEvent \/ StoreEnd \/ FinishDiagnosis \/ CancelRun
    \/ OpenRead \/ ReadDelivery \/ ReadEvents \/ ReadClosed \/ Damage

ViewSpec == ViewInit /\ [][ViewNext]_viewVars

-----------------------------------------------------------------------------
(* Properties *)

ViewTypeOK ==
    /\ KernelTypeOK
    /\ run \in Run
    /\ trail \in Seq(StoredEvent)
    /\ reader.pc \in {"none", "delivery", "events", "done"} /\ reader.page \in Pages \cup {"none"}
    /\ damage \in 0 .. MaxDamage

\* routes.py _run_response and schemas.py validate_terminal_payload: what the
\* executor stores, cancelled or damaged at whatever moment, never contradicts
\* itself.  Only a read that began before the Run ended and found its outcome
\* afterwards is refused.
OnlyTornReadsAreRefused ==
    Refused => reader.status \in {"queued", "running"} /\ run.status = "succeeded"

\* Every row the program writes can be read again, but by a reader it overtook.
RowsCanBeRead == ViewTypeOK /\ OnlyTornReadsAreRefused

\* services.py _safe_event_data drops what is out of range and resources.py
\* main_capability_projection calls a trail with a gap unavailable: the signals
\* of the kernel, at every end it may have, pass through both.
TrailsAreReadable == Readable(trail)

\* resources.py main_capability_projection: the capabilities shown of a Run are
\* those that the kernel loaded or called, none of them shown as degraded as well.
\* A Run that was not cancelled is shown with all of them, and with no more steps
\* than there were decisions.
CapabilitiesAreWhatHappened ==
    (run.kind = "main_agent" /\ HasEnded) =>
        LET shown == ShownCapabilities(Shown(run.delivery), trail)
            happened == Range(kernel.loaded)
                          \cup (IF kernel.delivery = "comparison" THEN {kernel.decision.id} ELSE {})
        IN /\ Caps(shown.used) \subseteq happened
           /\ Caps(shown.used) \cap Caps(shown.degraded) = {}
           /\ run.status # "cancelled" => Caps(shown.used) = happened /\ shown.steps <= kernel.decisions

\* main-delivery-readers.ts read_live_main_capabilities: once a browser has every
\* event of an ended Run, what it shows of them is what a reload shows, in the
\* detail (with the delivery) and in the list (without it).
LiveViewAgrees ==
    (run.kind = "main_agent" /\ HasEnded) =>
        \A delivery \in {NoDelivery, Shown(run.delivery)} :
            LiveCapabilities(trail) = ShownCapabilities(delivery, trail)

\* WorkbenchPage.tsx MainAgentReply: the page never closes what it is served.  It
\* shows the badge of a knowledge, or the differences of a comparison, only of a Run
\* that succeeded by loading that knowledge or calling the comparison; and a capability
\* it shows as degraded is an event its trace asks attention for.
CardsAreEarned ==
    (run.kind = "main_agent" /\ Served /\ reader.page = "detail") =>
        LET card == Card(Resource)
        IN /\ Resource.status \in TerminalStatuses => card.strip.caps = Resource.caps
           /\ \A badge \in {card.strip.badge, card.panel.badge} \ {"none"} :
                 run.status = "succeeded" /\ badge \in Range(kernel.loaded)
           /\ card.panel.differences => run.status = "succeeded" /\ kernel.delivery = "comparison"
           /\ Caps(card.strip.caps.degraded) \subseteq {e.cap : e \in Attention(reader.events)}

\* The capabilities of a Run can be read from its trail, and are those that were used,
\* live, reloaded and on the page.
CapabilitiesAreTrue ==
    TrailsAreReadable /\ CapabilitiesAreWhatHappened /\ LiveViewAgrees /\ CardsAreEarned

\* services.py _append_execution_event, _complete_main_success and cancel_run: a
\* view of an ended Run is final.  Its events stay what they are, and its outcome
\* too unless the stored row is damaged.
TerminalViewsAreFinal ==
    [][HasEnded => /\ trail' = trail /\ run'.status = run.status /\ run'.result = run.result
                   /\ run'.delivery \in {run.delivery, Unreadable}]_viewVars
=============================================================================

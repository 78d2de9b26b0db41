--------------------------- MODULE MonitorSampler ---------------------------
(***************************************************************************)
(* The sampler of the service history                                      *)
(* (infrastructure/monitoring/sampler.py) beside the registry whose        *)
(* connectors it asks.  A round collects the metrics of the host, takes    *)
(* the connectors registered at that moment, asks them one after another   *)
(* in threads of the event loop's pool, each for at most three seconds,    *)
(* and stores the round in one transaction run in the same pool.  A        *)
(* connector that outlives its timeout keeps its thread.                   *)
(***************************************************************************)
EXTENDS ServiceRegistration

CONSTANTS
    Workers,      \* threads of the event loop's default executor
    Keep,         \* rounds the retention keeps
    MaxRounds     \* bound: rounds begun

ASSUME SamplerAssumption ==
    /\ Workers \in Nat \ {0} /\ Keep \in Nat /\ MaxRounds \in Nat

VARIABLES
    round,        \* the current round; its strange is history: what it took that is not
                  \* what the committed row of the moment asks for
    hung,         \* threads busy with a call nobody waits for any more
    samples,      \* service_monitor_samples
    rounds        \* history: what each round that was stored had taken from the registry

samplerVars == <<round, hung, samples, rounds>>
allVars == <<vars, samplerVars>>

Idle == [no |-> 0, pc |-> "sleep", todo |-> {}, ids |-> {}, strange |-> {},
         results |-> {}]

SamplerInit ==
    /\ Init
    /\ round = Idle
    /\ hung = 0
    /\ samples = {}
    /\ rounds = [n \in 1 .. MaxRounds |-> {}]

\* the entries that are connectors
Shown(entries) == {id \in Ids : entries[id] # None}

\* asyncio.to_thread: a call needs a free thread, and one that outlives its timeout keeps it
InThread == hung < Workers

\* the interval is over: the metrics of the host are collected, fail, or are late
CollectHost ==
    /\ round.pc = "sleep" /\ round.no < MaxRounds
    /\ round' = [Idle EXCEPT !.no = round.no + 1, !.pc = "take"]
    /\ \E late \in {b \in BOOLEAN : b => InThread} : hung' = IF late THEN hung + 1 ELSE hung
    /\ UNCHANGED <<vars, samples, rounds>>

\* Mutant: the list is read without the epoch.
ListUnguarded == TRUE
\* list_connectors waits for the epoch
ListGuard == epoch = Free

TakeConnectors ==
    /\ round.pc = "take"
    /\ ListGuard
    /\ LET seen == ListConnectors
       IN round' = [round EXCEPT !.pc = "sample",
             !.ids = Shown(seen), !.todo = Shown(seen),
             !.strange = {id \in Ids \ doubtful : seen[id] # BootEntry(id, rows, key)}]
    /\ UNCHANGED <<vars, hung, samples, rounds>>

\* a sample is told apart by its service and its round; what it says of the service is
\* what MonitorReadings computes from the connector's snapshot
Store(id) ==
    round' = [round EXCEPT !.todo = @ \ {id}, !.results = @ \cup {[id |-> id, round |-> round.no]}]

\* the table keeps its order: the services of the environment, then the registered ones
Turn(id) == id \in round.todo /\ (id \in DynIds => round.todo \cap EnvIds = {})

\* the connector answers in time, or raises: a service that fails still gets its sample
ConnectorAnswers(id) ==
    /\ round.pc = "sample" /\ Turn(id)
    /\ InThread
    /\ Store(id)
    /\ UNCHANGED <<vars, hung, samples, rounds>>

\* Mutant: a service that is late is left out of its round.
LateLeavesNoSample(id) == round' = [round EXCEPT !.todo = @ \ {id}]
LateIsUnavailable(id) == Store(id)

\* Mutant: a call that waits for a thread is counted as if it had one.
ThreadsTakenUnstarted == hung + 1
ThreadsTaken == IF InThread THEN hung + 1 ELSE hung

\* three seconds are over: the thread, if the call has got one, goes on alone
ConnectorIsLate(id) ==
    /\ round.pc = "sample" /\ Turn(id)
    /\ hung' = ThreadsTaken
    /\ LateIsUnavailable(id)
    /\ UNCHANGED <<vars, samples, rounds>>

\* what is stored after the retention has been applied
Kept(now) == {s \in samples \cup round.results : s.round + Keep >= now}

\* one transaction stores the round and drops the samples that are too old
Persist ==
    /\ round.pc = "sample" /\ round.todo = {}
    /\ InThread
    /\ samples' = Kept(round.no)
    /\ rounds' = [rounds EXCEPT ![round.no] = round.ids]
    /\ round' = [Idle EXCEPT !.no = round.no]
    /\ UNCHANGED <<vars, hung>>

\* the transaction is rolled back: the round is given up, the loop goes on
PersistFails ==
    /\ round.pc = "sample" /\ round.todo = {}
    /\ InThread
    /\ faults < MaxFaults
    /\ faults' = faults + 1
    /\ round' = [Idle EXCEPT !.no = round.no]
    /\ UNCHANGED <<rows, registryVars, lockVars, key, client, sent, restarts, historyVars,
                   hung, samples, rounds>>

\* a late answer is thrown away; the connectors bound their own connections and reads
LateAnswer ==
    /\ hung > 0
    /\ hung' = hung - 1
    /\ UNCHANGED <<vars, round, samples, rounds>>

\* with the process the round and its threads are gone
RestartAll ==
    /\ Restart
    /\ round' = [Idle EXCEPT !.no = round.no]
    /\ hung' = 0
    /\ UNCHANGED <<samples, rounds>>

Request(c) ==
    /\ \/ \E op \in Ops, id \in Ids : Send(c, op, id)
       \/ ClientStep(c)
       \/ CommitFails(c)
    /\ UNCHANGED samplerVars

RoundStep ==
    \/ TakeConnectors
    \/ \E id \in Ids : ConnectorAnswers(id) \/ ConnectorIsLate(id)
    \/ Persist

Next ==
    \/ \E c \in Clients : Request(c)
    \/ CollectHost
    \/ RoundStep
    \/ PersistFails
    \/ LateAnswer
    \/ RestartAll

Spec == SamplerInit /\ [][Next]_allVars

\* what the scheduler owes is little: while a request's thread, the round or the timeout of a
\* connector's driver has something to do, one of them does it; clients need not send, nothing
\* need fail or restart
Scheduled ==
    \/ \E c \in Clients : ClientStep(c) /\ UNCHANGED samplerVars
    \/ RoundStep
    \/ LateAnswer

Fairness == WF_allVars(Scheduled)

FairSpec == Spec /\ Fairness

(***************************************************************************)
(* Properties                                                              *)
(***************************************************************************)

\* Every variable stays within its type
TypeOK ==
    /\ RegistrationTypeOK
    /\ round.no \in 0 .. MaxRounds /\ round.pc \in {"sleep", "take", "sample"}
    /\ round.todo \subseteq Ids
    /\ hung \in 0 .. Workers
    /\ \A s \in samples \cup round.results :
          s.id \in Ids /\ s.round \in 1 .. MaxRounds

\* The connectors a round takes are the committed services of one moment: list_connectors
\* waits for the epoch, so no round sees a row that is committed and not yet in the table, nor
\* half of two mutations (the comment of mutation_guard).
RoundsTakeCommittedServices ==
    round.strange = {}

\* A stored round has one sample for every connector it took, those that failed or were late
\* included, and a round that was cut short has none (one transaction for the round; single
\* failures never drop the others).
RoundsAreWhole ==
    \A n \in 1 .. MaxRounds :
        LET stored == {s \in samples : s.round = n}
        IN stored # {} => {s.id : s \in stored} = rounds[n]

\* The registry is what the committed rows ask for, an entry is withdrawn only where
\* nobody can know what they ask for, and an answer shows what the registry was while
\* it was asked.
RegistryFollowsTheRows ==
    /\ TypeOK
    /\ RowsAndTableAgree
    /\ PoisonNeedsADoubt
    /\ AnswersAreCurrent

\* What is stored of a round is a picture of one moment without holes.
StoredRoundsAreTrue ==
    /\ RoundsTakeCommittedServices
    /\ RoundsAreWhole

\* Every request is answered and every round ends, so that again and again nobody waits: the
\* two locks of a mutation are taken in one order by all, the readers hold theirs for a moment
\* (mutation_guard, entry_guard), the loop survives a failed round, and connectors that have
\* taken every thread the round's transaction needs give them back.
Quiet == round.pc = "sleep" /\ \A c \in Clients : At(c, "idle")
WorkEnds == []<> Quiet
=============================================================================

-------------------------- MODULE MonitorReadings ---------------------------
(***************************************************************************)
(* What is read from the samples of the sampler: the history of a service, *)
(* the overview of all of them and the thresholds a person sets            *)
(* (application/monitoring.py, monitor_repositories.py and their routes).  *)
(*                                                                         *)
(* A sample is [id, at, slow, timeout, up, source]; a count that was not   *)
(* collected is NoCount.  The third counted metric is left out, and so are *)
(* the gauges nobody compares with anything.                               *)
(***************************************************************************)
EXTENDS Integers, Sequences, FiniteSets, SequencesExt

CONSTANTS
    Watched,      \* services
    MaxSamples,   \* bound: samples
    Saves,        \* PUT requests on thresholds
    Retention,    \* monitoring.retention_hours, which is also query_max_hours
    MaxTime       \* bound: the time

ASSUME MonitorAssumption ==
    /\ IsFiniteSet(Watched) /\ "none" \notin Saves
    /\ Retention \in Nat \ {0} /\ {MaxSamples, MaxTime} \subseteq Nat

VARIABLES
    now,         \* the time
    registry,    \* the services in the registry
    sampled,     \* sampled[s]: the samples of a service
    settings,    \* settings[s]: its threshold row
    saving,      \* saving[q]: where a save is
    overview     \* the overview that is read

monitorVars == <<now, registry, sampled, settings, saving, overview>>

-----------------------------------------------------------------------------
(* Values *)

NoCount == 0 - 1
Unset == 0 - 1    \* a metric nobody watches, and a bound that is not given

Sources == {"available", "unavailable", "not_configured"}

Thresholds(slow, timeout, window, changes) ==
    [slow |-> slow, timeout |-> timeout, window |-> window, changes |-> changes]
Columns == {"slow", "timeout", "window", "changes"}

\* DEFAULT_MONITOR_THRESHOLDS
DefaultThresholds == Thresholds(1, 1, 0, TRUE)
SavedThresholds == {Thresholds(2, Unset, 1, FALSE), Thresholds(Unset, 1, 1, TRUE)}

\* no row, a row, or one whose values the domain model refuses
RowAbsent == [state |-> "absent", config |-> DefaultThresholds]
RowWith(config) == [state |-> "stored", config |-> config]
RowDamaged == [state |-> "damaged", config |-> DefaultThresholds]

SaveAt(pc, service, config, found, stale) ==
    [pc |-> pc, service |-> service, config |-> config, found |-> found, stale |-> stale]
Unsent(service) == SaveAt("unsent", service, DefaultThresholds, RowAbsent, FALSE)

OverviewAt(pc, todo, from, to) ==
    [pc |-> pc, todo |-> todo, from |-> from, to |-> to, current |-> <<>>, items |-> {}, failed |-> {},
     listed |-> todo]
NoOverview == OverviewAt("none", {}, 0, 0)

MonitorInit ==
    /\ now = 1
    /\ registry = Watched
    /\ sampled = [s \in Watched |-> {}]
    /\ \E row \in {RowDamaged} \cup {RowWith(c) : c \in SavedThresholds} :
         settings = [s \in Watched |-> IF s = CHOOSE t \in Watched : TRUE THEN row ELSE RowAbsent]
    /\ saving = [q \in Saves |-> Unsent(CHOOSE s \in Watched : TRUE)]
    /\ overview = NoOverview

-----------------------------------------------------------------------------
(* The rules *)

Earlier(a, b) == a.at < b.at \/ (a.at = b.at /\ a.id < b.id)

\* list_between: the samples of a window in the order of (observed_at, id)
Between(samples, from, to) ==
    LET found == {m \in samples : from <= m.at /\ m.at <= to}
    IN [i \in 1 .. Cardinality(found) |->
          CHOOSE m \in found : Cardinality({x \in found : Earlier(x, m)}) + 1 = i]

\* the samples of a line that are not empty, as they follow each other
Meaningful(read) ==
    LET kept == {i \in DOMAIN read : read[i].source # "not_configured"}
    IN [k \in 1 .. Cardinality(kept) |->
          read[CHOOSE i \in kept : Cardinality({j \in kept : j < i}) + 1 = k]]

Counted(n) == IF n = NoCount THEN 0 ELSE n

\* the sum of counts
Total(count) == Cardinality(UNION {{x} \X (1 .. count[x]) : x \in DOMAIN count})
SumsOver(sample) ==
    [slow |-> Total([x \in DOMAIN sample |-> Counted(sample[x].slow)]),
     timeout |-> Total([x \in DOMAIN sample |-> Counted(sample[x].timeout)])]

\* Mutant: the left end of the window is left out.
WindowedSumsOpen(line, m, window) ==
    LET inside == {i \in DOMAIN line : line[i].at > m.at - window /\ \A j \in 1 .. i : line[j].at <= m.at}
    IN SumsOver([i \in inside |-> line[i]])
\* _windowed_metric_sums goes over the samples from the oldest, up to the first after m
WindowedSums(line, m, window) ==
    LET inside == {i \in DOMAIN line : line[i].at >= m.at - window /\ \A j \in 1 .. i : line[j].at <= m.at}
    IN SumsOver([i \in inside |-> line[i]])

Reaches(count, threshold) == threshold # Unset /\ count >= threshold

MetricAnomaly(line, m, config) ==
    LET sums == WindowedSums(line, m, config.window)
    IN Reaches(sums.slow, config.slow) \/ Reaches(sums.timeout, config.timeout)

\* Mutant: the first sample of a service that is down is a change.
TrendSummaryFromUp(line, config) ==
    LET changed(i) == line[i].up # (i = 1 \/ line[i - 1].up)
    IN [samples |-> Len(line),
        anomalies |-> Cardinality({i \in DOMAIN line :
          MetricAnomaly(line, line[i], config) \/ (config.changes /\ changed(i))})]
\* _trend_summary: each sample with its predecessor
TrendSummary(line, config) ==
    LET changed(i) == i > 1 /\ line[i].up # line[i - 1].up
    IN [samples |-> Len(line),
        anomalies |-> Cardinality({i \in DOMAIN line :
          MetricAnomaly(line, line[i], config) \/ (config.changes /\ changed(i))})]

\* Mutant: the overview asks the meaningful samples for the state of the connection.
OverviewStatusMeaningful(read) ==
    IF Meaningful(read) = <<>> THEN "not_sampled" ELSE Last(Meaningful(read)).source
\* the state of a service in the overview: that of its last sample
OverviewStatus(read) == IF read = <<>> THEN "not_sampled" ELSE Last(read).source

\* _load_threshold_config: a damaged row reads like none
Effective(row) == IF row.state = "stored" THEN row.config ELSE DefaultThresholds

\* _window: the bounds of a history, or what is wrong with them
Window(from, to, hours) ==
    LET end == IF to = Unset THEN now ELSE to
        start == IF from = Unset THEN end - Retention ELSE from
    IN IF hours # Unset /\ (from # Unset \/ to # Unset) THEN [error |-> "WINDOW_CONFLICT", from |-> 0, to |-> 0]
       ELSE IF hours # Unset
         THEN IF hours < 1 \/ hours > Retention THEN [error |-> "WINDOW_TOO_LARGE", from |-> 0, to |-> 0]
              ELSE [error |-> "none", from |-> now - hours, to |-> now]
       ELSE IF start > end THEN [error |-> "WINDOW_INVALID", from |-> 0, to |-> 0]
       ELSE IF end - start > Retention THEN [error |-> "WINDOW_TOO_LARGE", from |-> 0, to |-> 0]
       ELSE [error |-> "none", from |-> start, to |-> end]

\* Mutant: one sample of an unconfigured service makes the history unconfigured.
HistoryStatusAny(read) ==
    IF read = <<>> THEN "not_sampled"
    ELSE IF \E i \in DOMAIN read : read[i].source = "not_configured" THEN "not_configured"
    ELSE IF \E i \in DOMAIN read : read[i].source = "available" THEN "available" ELSE "unavailable"
\* the state of a history
HistoryStatus(read) ==
    IF read = <<>> THEN "not_sampled"
    ELSE IF Meaningful(read) = <<>> THEN "not_configured"
    ELSE IF \E i \in DOMAIN read : read[i].source = "available" THEN "available" ELSE "unavailable"

-----------------------------------------------------------------------------
(* The sampler and the registry around it *)

Tick ==
    /\ now < MaxTime /\ overview.pc = "none"
    /\ now' = now + 1
    /\ UNCHANGED <<registry, sampled, settings, saving, overview>>

\* what a sample may find: a slow query, a timeout, nothing at all, a service that is
\* down, and one that is not configured
Shapes ==
    {[slow |-> 1, timeout |-> 0, up |-> TRUE, source |-> "available"],
     [slow |-> NoCount, timeout |-> 1, up |-> TRUE, source |-> "available"],
     [slow |-> 0, timeout |-> 0, up |-> FALSE, source |-> "unavailable"],
     [slow |-> NoCount, timeout |-> NoCount, up |-> FALSE, source |-> "not_configured"]}

AllSamples == UNION {sampled[s] : s \in Watched}
NextId == IF AllSamples = {} THEN 1 ELSE 1 + Max({m.id : m \in AllSamples})

Sampled(s) ==
    /\ s \in registry /\ NextId <= MaxSamples /\ overview.pc = "none"
    /\ \E shape \in Shapes :
         sampled' = [sampled EXCEPT ![s] = @ \cup
           {[id |-> NextId, at |-> now, slow |-> shape.slow, timeout |-> shape.timeout,
             up |-> shape.up, source |-> shape.source]}]
    /\ UNCHANGED <<now, registry, settings, saving, overview>>

\* delete_older_than, for all services
Prune ==
    /\ \E m \in AllSamples : m.at < now - Retention
    /\ sampled' = [s \in Watched |-> {m \in sampled[s] : m.at >= now - Retention}]
    /\ UNCHANGED <<now, registry, settings, saving, overview>>

ServiceLeaves(s) ==
    /\ s \in registry /\ registry' = registry \ {s}
    /\ UNCHANGED <<now, sampled, settings, saving, overview>>

-----------------------------------------------------------------------------
(* The thresholds *)

\* a save looks for the row; a service that is not registered is refused
SaveReads(q, s, config) ==
    /\ saving[q].pc = "unsent"
    /\ saving' = [saving EXCEPT ![q] =
         IF s \notin registry THEN SaveAt("not_found", s, config, RowAbsent, FALSE)
         ELSE SaveAt("read", s, config, settings[s], FALSE)]
    /\ UNCHANGED <<now, registry, sampled, settings, overview>>

\* Mutant: a metric nobody watches keeps its old threshold.
WrittenWatched(save, row) ==
    [c \in Columns |-> IF c # "changes" /\ save.config[c] = Unset THEN row.config[c] ELSE save.config[c]]
\* upsert and the commit: only columns that differ from what was read are written
Written(save, row) ==
    [c \in Columns |-> IF save.found.state = "absent" \/ save.config[c] # save.found.config[c]
                         THEN save.config[c] ELSE row.config[c]]

Others(q, s) == {p \in Saves \ {q} : saving[p].pc = "read" /\ saving[p].service = s}

SaveCommits(q) ==
    LET save == saving[q]
        s == save.service
    IN /\ save.pc = "read"
       /\ IF save.found.state = "absent" /\ settings[s].state # "absent"
            THEN saving' = [saving EXCEPT ![q].pc = "failed"] /\ UNCHANGED settings
            ELSE /\ settings' = [settings EXCEPT ![s] = RowWith(Written(save, @))]
                 /\ saving' = [p \in Saves |->
                      IF p = q THEN [save EXCEPT !.pc = IF save.stale THEN "mixed" ELSE "saved"]
                      ELSE IF p \in Others(q, s) THEN [saving[p] EXCEPT !.stale = TRUE]
                      ELSE IF saving[p].service = s /\ saving[p].pc \in {"saved", "mixed"}
                        THEN [saving[p] EXCEPT !.pc = "replaced"]
                      ELSE saving[p]]
       /\ UNCHANGED <<now, registry, sampled, overview>>

\* something outside writes values the domain model refuses; nobody is saving meanwhile
RowIsDamaged(s) ==
    /\ settings[s].state = "stored" /\ Others("none", s) = {}
    /\ settings' = [settings EXCEPT ![s] = RowDamaged]
    /\ saving' = [p \in Saves |-> IF saving[p].service = s /\ saving[p].pc \in {"saved", "mixed"}
                                    THEN [saving[p] EXCEPT !.pc = "replaced"] ELSE saving[p]]
    /\ UNCHANGED <<now, registry, sampled, overview>>

-----------------------------------------------------------------------------
(* The readings *)

\* an overview is read once: nothing of it is kept for another one
OverviewStarts ==
    /\ overview.pc = "none"
    /\ overview' = OverviewAt("reading", registry, now - Retention, now)
    /\ UNCHANGED <<now, registry, sampled, settings, saving>>

Item(s, read, config) ==
    [service |-> s, status |-> OverviewStatus(read), read |-> Range(read), config |-> config,
     trend |-> TrendSummary(Meaningful(read), config)]
Degraded(s) ==
    [service |-> s, status |-> "unavailable", read |-> {}, config |-> DefaultThresholds,
     trend |-> [samples |-> 0, anomalies |-> 0]]

\* the samples of the next service, in the transaction that then reads its thresholds
OverviewReadsSamples ==
    /\ overview.pc = "reading" /\ overview.todo # {}
    /\ LET s == CHOOSE t \in overview.todo : TRUE
       IN overview' = [overview EXCEPT !.pc = "thresholds", !.todo = @ \ {s},
            !.current = <<s, Between(sampled[s], overview.from, overview.to)>>]
    /\ UNCHANGED <<now, registry, sampled, settings, saving>>

OverviewReadsThresholds ==
    /\ overview.pc = "thresholds"
    /\ LET s == overview.current[1]
       IN overview' = [overview EXCEPT !.pc = IF overview.todo = {} THEN "done" ELSE "reading",
            !.current = <<>>,
            !.items = @ \cup {Item(s, overview.current[2], Effective(settings[s]))}]
    /\ UNCHANGED <<now, registry, sampled, settings, saving>>

\* Mutant: the overview ends with the first service that cannot be read.
OverviewFailsWhole ==
    /\ overview.pc = "thresholds"
    /\ overview' = [overview EXCEPT !.pc = "done", !.current = <<>>,
          !.failed = @ \cup {overview.current[1]},
          !.items = @ \cup {Degraded(overview.current[1])}]
    /\ UNCHANGED <<now, registry, sampled, settings, saving>>
\* one service cannot be read
OverviewFails ==
    /\ overview.pc = "thresholds"
    /\ overview' = [overview EXCEPT !.pc = IF overview.todo = {} THEN "done" ELSE "reading",
          !.current = <<>>,
          !.failed = @ \cup {overview.current[1]},
          !.items = @ \cup {Degraded(overview.current[1])}]
    /\ UNCHANGED <<now, registry, sampled, settings, saving>>

\* get_history, in one transaction
HistoryOf(s, from, to, hours) ==
    LET window == Window(from, to, hours)
        read == Between(sampled[s], window.from, window.to)
    IN IF s \notin registry \/ window.error # "none"
         THEN [status |-> "refused", window |-> window, read |-> <<>>, shown |-> <<>>]
         ELSE [status |-> HistoryStatus(read), window |-> window, read |-> read,
               shown |-> Meaningful(read)]

SavingNext ==
    \/ \E s \in Watched :
         \/ ServiceLeaves(s) \/ RowIsDamaged(s)
         \/ \E q \in Saves, config \in SavedThresholds : SaveReads(q, s, config)
    \/ \E q \in Saves : SaveCommits(q)

\* the overview takes the list of services and the window when it starts, and reads each
\* service in a transaction of its own: nothing but a deletion is explored beside it
ReadingNext ==
    \/ Tick \/ Prune
    \/ OverviewStarts \/ OverviewReadsSamples \/ OverviewReadsThresholds \/ OverviewFails
    \/ \E s \in Watched : Sampled(s)

MonitorSpec == MonitorInit /\ [][SavingNext \/ ReadingNext]_monitorVars

-----------------------------------------------------------------------------
(* What the readings say *)

\* the metric that counts over all samples of the window that ends with m, whatever their order
Within(read, m, window) == {c \in read : m.at - window <= c.at /\ c.at <= m.at}
Over(read, m, config) ==
    LET sums == SumsOver([c \in Within(read, m, config.window) |-> c])
    IN Reaches(sums.slow, config.slow) \/ Reaches(sums.timeout, config.timeout)

Changed(read, m) ==
    \E p \in read : /\ Earlier(p, m) /\ p.up # m.up
                    /\ ~ \E x \in read : Earlier(p, x) /\ Earlier(x, m)

Configured(read) == {m \in read : m.source # "not_configured"}

\* An item of the overview counts the samples over a threshold and the changes of the state
\* among those it read, no more and no fewer, with the thresholds that were there.
ItemIsTrue(item) ==
    LET kept == Configured(item.read)
        odd == {m \in kept : Over(kept, m, item.config) \/ (item.config.changes /\ Changed(kept, m))}
    IN /\ item.trend = [samples |-> Cardinality(kept), anomalies |-> Cardinality(odd)]
       /\ item.status = "not_sampled" <=> item.read = {}
       /\ \A m \in item.read : (\A x \in item.read : x = m \/ Earlier(x, m)) => item.status = m.source

\* Every service that was registered has one item; only one that could not be read is degraded.
OverviewIsWhole ==
    /\ \A a, b \in overview.items : a.service = b.service => a = b
    /\ overview.pc = "done" => {a.service : a \in overview.items} = overview.listed
    /\ \A a \in overview.items :
         IF a.service \in overview.failed THEN a = Degraded(a.service) ELSE ItemIsTrue(a)

\* A history keeps to its bounds, shows what was really sampled in order, and never calls a
\* service unconfigured that was sampled.
HistoryIsTrue ==
    \A s \in registry, from, to \in {Unset, 1, MaxTime}, hours \in {Unset, 0, 1, Retention + 1} :
        LET h == HistoryOf(s, from, to, hours)
            read == Range(h.read)
        IN h.status # "refused" =>
             /\ h.window.from <= h.window.to /\ h.window.to - h.window.from <= Retention
             /\ Range(h.shown) = Configured(read)
             /\ \A i, j \in DOMAIN h.shown : i < j => Earlier(h.shown[i], h.shown[j])
             /\ h.status = "not_sampled" <=> read = {}
             /\ h.status = "not_configured" <=> read # {} /\ Configured(read) = {}

\* The save that was committed last is the row as it was asked for, unless another save was
\* committed after it had looked for the row.
SavesAreWhole ==
    \A q \in Saves : saving[q].pc = "saved" => settings[saving[q].service] = RowWith(saving[q].config)

(* The readings of the monitoring: what is counted, called and set is what *)
(* was sampled and asked for, one service's failure is its own, and a save *)
(* overlaps another one only column by column.                             *)
ReadingsAreTrue == OverviewIsWhole /\ HistoryIsTrue /\ SavesAreWhole
=============================================================================

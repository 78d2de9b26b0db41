------------------------ MODULE ServiceRegistration ------------------------
(***************************************************************************)
(* Services registered while the program runs                              *)
(* (application/service_registration.py) are kept twice: as a row with the *)
(* encrypted DSN, and as a connector in the table of the in-memory         *)
(* ServiceRegistry (domain/services.py), next to the connectors declared   *)
(* in the environment.  A mutation holds two locks, the registry's epoch   *)
(* and the guard of its entry, commits its transaction and changes the     *)
(* table after it; readers take one of the two locks for a moment.  When   *)
(* the table cannot follow the committed row the entry is poisoned, and    *)
(* stays hidden until the next start, which builds the table from the rows.*)
(*                                                                         *)
(* A DSN, a title and a connector are told apart by the number of the      *)
(* request that wrote them.                                                *)
(***************************************************************************)
EXTENDS Naturals, Sequences, FiniteSets

CONSTANTS
    Clients,      \* threads that serve requests, one request at a time
    EnvIds,       \* services declared in the environment
    DynIds,       \* identifiers used for registered services
    Keys,         \* master keys the process may be started with
    FirstKey,     \* the one of the first start
    MaxOps,       \* bound: requests sent
    MaxFaults,    \* bound: commits that fail, answers lost, tables not loaded
    MaxRestarts   \* bound: starts of the process after the first

ASSUME RegistrationAssumption ==
    /\ EnvIds \cap DynIds = {} /\ EnvIds \cup DynIds # {}
    /\ "free" \notin Clients
    /\ {MaxOps, MaxFaults, MaxRestarts} \subseteq Nat
    /\ "none" \notin Keys /\ FirstKey \in Keys

VARIABLES
    rows,         \* service_registry: the committed row of each identifier, or None
    table,        \* ServiceRegistry._connectors, None where there is no entry
    registered,   \* ServiceRegistry._registered_ids
    poisoned,     \* ServiceRegistry._poisoned_service_ids
    epoch,        \* the client that holds _mutation_epoch, or Free
    entry,        \* for each identifier the client that holds its entry guard, or Free
    key,          \* the master key of this process, "none" when it is missing
    client,       \* what each client is doing
    sent, faults, restarts,   \* counters of the bounds
    log,          \* history: per identifier, the entries its committed mutations ask for
    answered,     \* history: per identifier, how much of log the answers given cover
    doubtful      \* history: identifiers whose commit was lost or whose row was not loaded

registryVars == <<table, registered, poisoned>>
lockVars == <<epoch, entry>>
boundVars == <<sent, faults, restarts>>
historyVars == <<log, answered, doubtful>>
vars == <<rows, registryVars, lockVars, key, client, boundVars, historyVars>>

Ids == EnvIds \cup DynIds
Free == "free"
None == [dsn |-> 0, title |-> 0, source |-> "none"]   \* no row, no entry
Numbers == 0 .. MaxOps
NoDsn == 0

Row == [dsn : Numbers, title : Numbers, sealed : Keys]
NoRow == [dsn |-> NoDsn, title |-> 0, sealed |-> "none"]
Connector == [dsn : Numbers, title : Numbers, source : {"env", "registry"}]

MutationOps == {"create", "update", "delete"}
Ops == MutationOps \cup {"read"}
Answers == {"none", "done", "conflict", "not_found", "no_key", "error",
            "found", "bound", "poisoned", "no_credential"}
Steps == {"idle", "epoch", "entry", "look", "commit", "apply", "read", "source"}

(***************************************************************************)
(* Pieces                                                                  *)
(***************************************************************************)

\* the connector a start builds for an environment service
EnvConnector == [dsn |-> NoDsn, title |-> 0, source |-> "env"]

\* decrypt_dsn: only the key that sealed the row opens it, anything else is no DSN
ResolveDsn(row, k) == IF k # "none" /\ row.sealed = k THEN row.dsn ELSE NoDsn

\* build_service_connector for a row
BuildConnector(row, k) ==
    [dsn |-> ResolveDsn(row, k), title |-> row.title, source |-> "registry"]

\* the entry a start that can read the rows gives to an identifier
BootEntry(id, rs, k) ==
    IF id \in EnvIds THEN EnvConnector
    ELSE IF rs[id] = NoRow THEN None
    ELSE BuildConnector(rs[id], k)

\* get_connector: a poisoned entry reads as a missing one
GetConnector(id) == IF id \in poisoned THEN None ELSE table[id]

\* list_connectors: what a reader of the whole table is shown
ListConnectors == [id \in Ids |-> GetConnector(id)]

NewClient == [op |-> "none", id |-> CHOOSE id \in Ids : TRUE, no |-> 0,
              pc |-> "idle", seen |-> None, answer |-> "none", floor |-> 1,
              source |-> "none"]

\* the response: the guards of the mutation are left as it is given
Answer(c, a) ==
    /\ client' = [client EXCEPT ![c] = [NewClient EXCEPT !.answer = a]]
    /\ answered' = [answered EXCEPT ![client[c].id] = Len(log[client[c].id])]
Release(c, a) ==
    /\ Answer(c, a)
    /\ epoch' = Free
    /\ entry' = [entry EXCEPT ![client[c].id] = Free]

Goto(c, pc) == client' = [client EXCEPT ![c].pc = pc]
At(c, pc) == client[c].pc = pc

(***************************************************************************)
(* Initial state: the first start, with no registered service              *)
(***************************************************************************)
Init ==
    /\ rows = [id \in Ids |-> NoRow]
    /\ key = FirstKey
    /\ table = [id \in Ids |-> BootEntry(id, rows, key)]
    /\ registered = {}
    /\ poisoned = {}
    /\ epoch = Free
    /\ entry = [id \in Ids |-> Free]
    /\ client = [c \in Clients |-> NewClient]
    /\ sent = 0 /\ faults = 0 /\ restarts = 0
    /\ log = [id \in Ids |-> <<table[id]>>]
    /\ answered = [id \in Ids |-> 1]
    /\ doubtful = {}

(***************************************************************************)
(* A request arrives                                                       *)
(***************************************************************************)
Send(c, op, id) ==
    /\ At(c, "idle")
    /\ sent < MaxOps
    /\ sent' = sent + 1
    /\ client' = [client EXCEPT ![c] =
          [op |-> op, id |-> id, no |-> IF op \in MutationOps THEN sent + 1 ELSE 0, seen |-> None, answer |-> "none",
           floor |-> IF op \in MutationOps THEN 1 ELSE answered[id], source |-> "none",
           pc |-> IF op \in MutationOps THEN "epoch" ELSE "read"]]
    /\ UNCHANGED <<rows, registryVars, lockVars, key, faults, restarts, historyVars>>

\* create, before its locks: without a master key nothing is stored; a DSN the
\* connector refuses is answered as a conflict
RefuseCreate(c) ==
    /\ At(c, "epoch") /\ client[c].op = "create"
    /\ Answer(c, IF key = "none" THEN "no_key" ELSE "conflict")
    /\ UNCHANGED <<rows, registryVars, lockVars, key, boundVars, log, doubtful>>

(***************************************************************************)
(* mutation_guard: the epoch first, then the guard of the entry            *)
(***************************************************************************)
\* Mutant: a removal takes the guard of its entry first.
FirstLockByUse(op) == IF op = "delete" THEN "entry" ELSE "epoch"
FirstLock(op) == "epoch"

\* the locks a client holds
Holds(c, lock) == IF lock = "epoch" THEN epoch = c ELSE entry[client[c].id] = c

Acquire(c, lock) ==
    /\ ~ Holds(c, lock)
    /\ IF lock = "epoch"
       THEN epoch = Free /\ epoch' = c /\ UNCHANGED entry
       ELSE /\ entry[client[c].id] = Free
            /\ entry' = [entry EXCEPT ![client[c].id] = c]
            /\ UNCHANGED epoch

OtherLock(lock) == IF lock = "epoch" THEN "entry" ELSE "epoch"

TakeFirst(c) ==
    /\ At(c, "epoch")
    /\ (client[c].op = "create") => (key # "none")
    /\ Acquire(c, FirstLock(client[c].op))
    /\ Goto(c, "entry")
    /\ UNCHANGED <<rows, registryVars, key, boundVars, historyVars>>

TakeSecond(c) ==
    /\ At(c, "entry")
    /\ Acquire(c, OtherLock(FirstLock(client[c].op)))
    /\ Goto(c, "look")
    /\ UNCHANGED <<rows, registryVars, key, boundVars, historyVars>>

(***************************************************************************)
(* Under the guards: look at the registry, commit, change the table        *)
(***************************************************************************)

\* a create wants no entry, an update wants one; a delete remembers what it sees
Look(c) ==
    /\ At(c, "look")
    /\ LET r == client[c]
           seen == GetConnector(r.id)
       IN \/ /\ r.op = "create" /\ seen # None
             /\ Release(c, "conflict")
          \/ /\ r.op = "update" /\ seen = None
             /\ Release(c, "not_found")
          \/ /\ r.op = "delete" \/ ((r.op = "create") <=> (seen = None))
             /\ client' = [client EXCEPT ![c].seen = seen, ![c].pc = "commit"]
             /\ UNCHANGED <<lockVars, answered>>
    /\ UNCHANGED <<rows, registryVars, key, boundVars, log, doubtful>>

\* the transaction finds that it has nothing to do, or may not do it, and changes no row
RowRefused(c) ==
    /\ At(c, "commit")
    /\ LET r == client[c]
           row == rows[r.id]
       IN \/ r.op = "create" /\ row # NoRow /\ Release(c, "conflict")
          \/ r.op = "update" /\ row = NoRow /\ Release(c, "not_found")
          \* an update that brings a DSN needs the key to seal it
          \/ r.op = "update" /\ row # NoRow /\ key = "none" /\ Release(c, "no_key")
          \/ r.op = "delete" /\ row = NoRow /\ Release(c, "done")
    /\ UNCHANGED <<rows, registryVars, key, boundVars, log, doubtful>>

\* the rows the transaction of a client may write: an update may leave the DSN as it is
WrittenRows(c) ==
    LET r == client[c]
        sealed == [dsn |-> r.no, title |-> r.no, sealed |-> key]
    IN IF r.op = "delete" THEN {NoRow}
       ELSE {row \in {sealed, [rows[r.id] EXCEPT !.title = r.no]} :
               (row = sealed => key # "none") /\ (r.op = "create" => row = sealed)}

\* Mutant: a removal does not ask whether there was a row.
MayWriteUnasked(c) ==
    LET r == client[c]
    IN At(c, "commit") /\ (r.op # "delete" => ((r.op = "create") <=> (rows[r.id] = NoRow)))
MayWrite(c) ==
    LET r == client[c]
    IN /\ At(c, "commit")
       /\ (r.op = "create") <=> (rows[r.id] = NoRow)

WriteRow(c) ==
    /\ \E row \in WrittenRows(c) : rows' = [rows EXCEPT ![client[c].id] = row]
    /\ log' = [log EXCEPT ![client[c].id] = Append(@, BootEntry(client[c].id, rows', key))]

Commit(c) ==
    /\ MayWrite(c)
    /\ WriteRow(c)
    /\ Goto(c, "apply")
    /\ UNCHANGED <<registryVars, lockVars, key, boundVars, answered, doubtful>>

\* the transaction is rolled back, or its commit is applied and its answer lost: either
\* way the request ends with the error and the table is not touched
CommitFails(c) ==
    /\ MayWrite(c)
    /\ faults < MaxFaults
    /\ faults' = faults + 1
    /\ \/ UNCHANGED <<rows, log, doubtful>>
       \/ WriteRow(c) /\ doubtful' = doubtful \cup {client[c].id}
    /\ Release(c, "error")
    /\ UNCHANGED <<registryVars, key, sent, restarts>>

Poison(id) == poisoned' = poisoned \cup {id}

\* Mutant: the registration is not remembered as one.
EnteredAsEnv(id) ==
    /\ table' = [table EXCEPT ![id] = BuildConnector(rows[id], key)]
    /\ UNCHANGED registered
\* the table and the identifiers registered with one more connector
Entered(id) ==
    /\ table' = [table EXCEPT ![id] = BuildConnector(rows[id], key)]
    /\ registered' = registered \cup {id}

\* register the candidate: an entry that is there after all is poisoned
Register(c) ==
    LET r == client[c] IN
    /\ At(c, "apply") /\ r.op = "create"
    /\ IF table[r.id] # None
       THEN /\ Poison(r.id) /\ Release(c, "conflict")
            /\ UNCHANGED <<table, registered>>
       ELSE /\ Entered(r.id)
            /\ Release(c, "done")
            /\ UNCHANGED poisoned
    /\ UNCHANGED <<rows, key, boundVars, log, doubtful>>

\* Mutant: the entry is compared with the candidate instead of the one looked at.
IsExpectedNew(r) == table[r.id] = BuildConnector(rows[r.id], key)
\* the entry is still there, and the one that was looked at; nothing seen is no expectation
IsExpected(r) == table[r.id] # None /\ (r.seen # None => table[r.id] = r.seen)

\* Mutant: the candidate is built from the entry that it is to replace.
CandidateOfEntry(r) == r.seen
Candidate(r) == BuildConnector(rows[r.id], key)

\* replace the entry that was looked at by the candidate of the new row
Replace(c) ==
    LET r == client[c] IN
    /\ At(c, "apply") /\ r.op = "update"
    /\ IF ~ IsExpected(r)
       THEN Poison(r.id) /\ Release(c, "not_found") /\ UNCHANGED table
       ELSE /\ table' = [table EXCEPT ![r.id] = Candidate(r)]
            /\ Release(c, "done")
            /\ UNCHANGED poisoned
    /\ UNCHANGED <<rows, registered, key, boundVars, log, doubtful>>

\* remove the entry that was looked at
Remove(c) ==
    LET r == client[c] IN
    /\ At(c, "apply") /\ r.op = "delete"
    /\ IF ~ IsExpected(r)
       THEN Poison(r.id) /\ UNCHANGED <<table, registered>>
       ELSE /\ table' = [table EXCEPT ![r.id] = None]
            /\ registered' = registered \ {r.id}
            /\ UNCHANGED poisoned
    /\ Release(c, "done")
    /\ UNCHANGED <<rows, key, boundVars, log, doubtful>>

(***************************************************************************)
(* Readers: GET of a service, or the binding of a run to its service       *)
(***************************************************************************)

\* get_connector waits for the guard of the entry alone
GetService(c) ==
    /\ At(c, "read")
    /\ entry[client[c].id] = Free
    /\ LET seen == GetConnector(client[c].id)
       IN client' = [client EXCEPT ![c].seen = seen,
             ![c].pc = IF seen = None THEN "idle" ELSE "source",
             ![c].answer = IF seen = None THEN "not_found" ELSE "none"]
    /\ UNCHANGED <<rows, registryVars, lockVars, key, boundVars, historyVars>>

\* after the snapshot of the target: where the service was declared, asked of the
\* registry as it is by then, under the epoch
ReadSource(c) ==
    /\ At(c, "source")
    /\ epoch = Free
    /\ client' = [client EXCEPT ![c].pc = "idle", ![c].answer = "found",
          ![c].source = IF client[c].id \in registered THEN "registry" ELSE "env"]
    /\ UNCHANGED <<rows, registryVars, lockVars, key, boundVars, historyVars>>

\* resolve_binding fails closed: poisoned, missing, without a readable DSN
ResolveBinding(c) ==
    LET r == client[c]
        e == table[r.id]
        a == IF r.id \in poisoned THEN "poisoned"
             ELSE IF e = None THEN "not_found"
             ELSE IF e.dsn = NoDsn THEN "no_credential"
             ELSE "bound"
    IN /\ At(c, "read")
       /\ entry[r.id] = Free
       /\ client' = [client EXCEPT ![c].pc = "idle", ![c].answer = a,
                        ![c].seen = IF a \in {"bound", "no_credential"} THEN e ELSE None]
       /\ UNCHANGED <<rows, registryVars, lockVars, key, boundVars, historyVars>>

(***************************************************************************)
(* The process stops at any moment and starts again, perhaps with another  *)
(* master key, perhaps while the database cannot be read                   *)
(***************************************************************************)
Restart ==
    /\ restarts < MaxRestarts
    /\ restarts' = restarts + 1
    /\ \E k \in Keys \cup {"none"}, readable \in {b \in BOOLEAN : b \/ faults < MaxFaults} :
          LET found == IF readable THEN rows ELSE [id \in Ids |-> NoRow]
          IN /\ key' = k
             /\ table' = [id \in Ids |-> BootEntry(id, found, k)]
             /\ registered' = {id \in DynIds : found[id] # NoRow}
             /\ faults' = IF readable THEN faults ELSE faults + 1
             /\ doubtful' = {id \in DynIds : found[id] # rows[id]}
    /\ poisoned' = {}
    /\ epoch' = Free
    /\ entry' = [id \in Ids |-> Free]
    /\ client' = [c \in Clients |-> NewClient]
    /\ log' = [id \in Ids |-> <<table'[id]>>]
    /\ answered' = [id \in Ids |-> 1]
    /\ UNCHANGED <<rows, sent>>

(***************************************************************************)
(* Specification                                                           *)
(***************************************************************************)
ClientStep(c) ==
    \/ RefuseCreate(c) \/ TakeFirst(c) \/ TakeSecond(c) \/ Look(c)
    \/ RowRefused(c) \/ Commit(c)
    \/ Register(c) \/ Replace(c) \/ Remove(c)
    \/ GetService(c) \/ ReadSource(c) \/ ResolveBinding(c)

RegistrationNext ==
    \/ \E c \in Clients :
          \/ \E op \in Ops, id \in Ids : Send(c, op, id)
          \/ ClientStep(c)
          \/ CommitFails(c)
    \/ Restart

RegistrationSpec == Init /\ [][RegistrationNext]_vars

(***************************************************************************)
(* Properties                                                              *)
(***************************************************************************)

\* Every variable stays within its type
RegistrationTypeOK ==
    /\ rows \in [Ids -> Row \cup {NoRow}]
    /\ table \in [Ids -> Connector \cup {None}]
    /\ registered \subseteq DynIds
    /\ poisoned \subseteq Ids /\ doubtful \subseteq Ids
    /\ epoch \in Clients \cup {Free}
    /\ entry \in [Ids -> Clients \cup {Free}]
    /\ key \in Keys \cup {"none"}
    /\ client \in [Clients -> [op : Ops \cup {"none"}, id : Ids, no : Numbers, pc : Steps,
                               seen : Connector \cup {None}, answer : Answers,
                               floor : Nat, source : {"none", "env", "registry"}]]
    /\ sent \in 0 .. MaxOps /\ faults \in 0 .. MaxFaults /\ restarts \in 0 .. MaxRestarts
    /\ \A id \in Ids : answered[id] \in 1 .. Len(log[id])

\* Between mutations an entry of the table is what its committed row asks for: the DSN and
\* title of the row under the master key of this process, no entry where there is no row, and
\* the environment's entry for the services declared there (service_registration.py commits
\* the row first and changes the registry after it).  Only a commit whose answer was lost, or
\* rows that could not be read at the start, excuse a difference.
RowsAndTableAgree ==
    \A id \in Ids \ doubtful : (entry[id] = Free) =>
        /\ table[id] = BootEntry(id, rows, key)
        /\ (id \in registered) <=> (table[id].source = "registry")

\* A request that reads a service sees every mutation that was answered before it was sent,
\* and never a state the service was not in: the guard of the entry covers the commit and
\* the change of the table together.
ReadsSeeWhatWasAnswered ==
    \A c \in Clients :
        LET r == client[c]
        IN (r.answer \in {"found", "not_found", "bound", "no_credential"}
              /\ r.op = "read" /\ r.id \notin doubtful)
           => \E n \in r.floor .. Len(log[r.id]) : log[r.id][n] = r.seen

\* Poison hides an entry until the next start: it falls only on an identifier whose commit
\* was lost or whose row was not loaded, never on the other services, and never on a service
\* of the environment (ServiceRegistry.poison isolates a single entry).
PoisonNeedsADoubt == poisoned \subseteq (doubtful \ EnvIds)

\* The answer to GET names the source of the connector it shows, unless that connector has
\* been removed since it was read: get_service asks the registry a second time, after the
\* target was contacted.
SourceFitsTheService ==
    \A c \in Clients :
        (client[c].answer = "found" /\ client[c].source # client[c].seen.source)
        => \E n \in client[c].floor .. Len(log[client[c].id]) :
              log[client[c].id][n].source # client[c].seen.source

\* An answer is about the service as it was at some moment since the request
\* was sent, the source that is named with it included.
AnswersAreCurrent ==
    /\ ReadsSeeWhatWasAnswered
    /\ SourceFitsTheService
=============================================================================

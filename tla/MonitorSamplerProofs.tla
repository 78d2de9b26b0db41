------------------------ MODULE MonitorSamplerProofs ------------------------
(***************************************************************************)
(* ServiceRegistration and MonitorSampler for any number of clients,       *)
(* services, master keys, threads, rounds and faults.                      *)
(***************************************************************************)
EXTENDS MonitorSampler, SequenceTheorems, TLAPS

-----------------------------------------------------------------------------
(* The inductive invariant *)

Under(c) == client[c].pc \in {"look", "commit", "apply"}
Inside(c) == client[c].pc = "entry" \/ Under(c)

ClientFits(c) ==
    LET r == client[c]
    IN /\ r.pc = "epoch" \/ Inside(c) => r.op \in MutationOps
       /\ r.pc \in {"read", "source"} => r.op = "read"
       /\ r.pc # "idle" => r.answer = "none"
       /\ r.answer = "found" => r.op = "read"

\* The epoch and the guards of the entries are held by those inside them.
LocksFit ==
    /\ \A c \in Clients : epoch = c <=> Inside(c)
    /\ \A c \in Clients, id \in Ids : entry[id] = c <=> client[c].id = id /\ Under(c)

\* What is declared in the environment never changes and is never doubted.
EnvironmentStays ==
    /\ \A id \in EnvIds : /\ table[id] = EnvConnector /\ rows[id] = NoRow
                          /\ id \notin poisoned \cup registered \cup doubtful
    /\ \A c \in Clients : client[c].pc = "apply" => client[c].id \in DynIds
    /\ \A c \in Clients : client[c].pc = "commit" /\ client[c].op = "create" => client[c].id \in DynIds

\* The identifiers that are registered are those of the registered connectors.
RegisteredFits ==
    /\ \A id \in DynIds : table[id].source # "env" /\ (id \in registered <=> table[id].source = "registry")
    /\ poisoned \subseteq doubtful

\* What a mutation under its guards may rely on.
MutationFits(c) ==
    LET r == client[c]
        id == r.id
    IN /\ r.pc \in {"commit", "apply"} =>
             /\ r.op = "create" => r.seen = None
             /\ r.op = "update" => r.seen # None
             /\ id \notin doubtful => table[id] = r.seen
       /\ r.pc = "apply" =>
             /\ r.op = "delete" <=> rows[id] = NoRow
             /\ r.op = "delete" /\ id \notin doubtful => r.seen # None
             /\ log[id][Len(log[id])] = BootEntry(id, rows, key)

\* Outside the change of the table an entry is what its row asks for.
EntriesFit ==
    \A id \in Ids \ doubtful :
        /\ (\A c \in Clients : ~(client[c].pc = "apply" /\ client[c].id = id)) =>
              table[id] = BootEntry(id, rows, key)
        /\ log[id][Len(log[id])] = BootEntry(id, rows, key)

\* What a reader has seen is in the part of the history it may see.
ReaderFits(c) ==
    LET r == client[c]
        Since == r.floor .. Len(log[r.id])
    IN r.op = "read" =>
         /\ r.floor \in 1 .. Len(log[r.id])
         /\ r.id \notin doubtful
              /\ (r.pc = "source" \/ r.answer \in {"found", "not_found", "bound", "no_credential"}) =>
                 \E n \in Since : log[r.id][n] = r.seen
         /\ r.pc = "source" =>
              \/ r.seen.source = "env" /\ r.id \in EnvIds
              \/ r.seen.source = "registry"
                   /\ (r.id \notin registered => \E n \in Since : log[r.id][n].source # "registry")
         /\ r.answer = "found" /\ r.source # r.seen.source =>
              \E n \in Since : log[r.id][n].source # r.seen.source

HistoryTypes == log \in [Ids -> Seq(Connector \cup {None})] /\ answered \in [Ids -> Nat]

RegistrationInv ==
    /\ RegistrationTypeOK /\ HistoryTypes
    /\ \A c \in Clients : ClientFits(c)
    /\ LocksFit
    /\ EnvironmentStays
    /\ RegisteredFits
    /\ \A c \in Clients : MutationFits(c)
    /\ EntriesFit
    /\ \A c \in Clients : ReaderFits(c)

RoundSet ==
    [no : 0 .. MaxRounds, pc : {"sleep", "take", "sample"}, todo : SUBSET Ids, ids : SUBSET Ids,
     strange : SUBSET Ids, results : SUBSET [id : Ids, round : 1 .. MaxRounds]]

\* A round: what is done of it, and what was stored of the earlier ones.
RoundFits ==
    /\ round \in RoundSet
    /\ samples \subseteq [id : Ids, round : 1 .. MaxRounds]
    /\ rounds \in [1 .. MaxRounds -> SUBSET Ids]
    /\ hung \in 0 .. Workers
    /\ round.pc # "sleep" => round.no > 0
    /\ round.strange = {}
    /\ round.pc # "sample" => round.ids = {}
    /\ round.todo \subseteq round.ids
    /\ \A s \in round.results : s.round = round.no /\ s.id \in round.ids
    /\ \A id \in round.ids \ round.todo : [id |-> id, round |-> round.no] \in round.results
    /\ \A s \in samples : s.round <= round.no /\ (round.pc # "sleep" => s.round < round.no)
    /\ RoundsAreWhole

-----------------------------------------------------------------------------
(* Types *)

ClientSet == [op : Ops \cup {"none"}, id : Ids, no : Numbers, pc : Steps,
              seen : Connector \cup {None}, answer : Answers,
              floor : Nat, source : {"none", "env", "registry"}]

LEMMA NewClientType == NewClient \in ClientSet
<1>1. (CHOOSE id \in Ids : TRUE) \in Ids
  BY RegistrationAssumption DEF Ids
<1>2. 0 \in Numbers
  BY RegistrationAssumption DEF Numbers
<1>3. QED
  BY <1>1, <1>2 DEF NewClient, ClientSet, Ops, MutationOps, Steps, Answers

\* The fields that steps change keep the type of a client.
LEMMA ClientTypes ==
    ASSUME NEW r \in ClientSet, NEW pc \in Steps, NEW seen \in Connector \cup {None},
           NEW answer \in Answers, NEW source \in {"none", "env", "registry"}
    PROVE  /\ [r EXCEPT !.pc = pc] \in ClientSet
           /\ [r EXCEPT !.answer = answer] \in ClientSet
           /\ [r EXCEPT !.seen = seen, !.pc = pc] \in ClientSet
           /\ [r EXCEPT !.seen = seen, !.pc = pc, !.answer = answer] \in ClientSet
           /\ [r EXCEPT !.pc = pc, !.answer = answer, !.source = source] \in ClientSet
           /\ [r EXCEPT !.pc = pc, !.answer = answer, !.seen = seen] \in ClientSet
BY DEF ClientSet

\* What a start gives to an identifier is an entry.
LEMMA BootEntryType ==
    ASSUME NEW id \in Ids, NEW rs \in [Ids -> Row \cup {NoRow}], NEW k \in Keys \cup {"none"}
    PROVE  /\ BootEntry(id, rs, k) \in Connector \cup {None}
           /\ id \in DynIds => BootEntry(id, rs, k).source # "env"
           /\ id \in DynIds => (BootEntry(id, rs, k) = None <=> rs[id] = NoRow)
           /\ id \in DynIds => (BootEntry(id, rs, k).source = "registry" <=> rs[id] # NoRow)
           /\ id \in EnvIds => BootEntry(id, rs, k) = EnvConnector
           /\ BuildConnector(rs[id], k) \in Connector
           /\ BuildConnector(rs[id], k).source = "registry"
<1>1. 0 \in Numbers /\ NoDsn = 0
  BY RegistrationAssumption DEF Numbers, NoDsn
<1>2. rs[id].dsn \in Numbers /\ rs[id].title \in Numbers
  BY <1>1 DEF Row, NoRow
<1>3. ResolveDsn(rs[id], k) \in Numbers
  BY <1>1, <1>2 DEF ResolveDsn
<1>4. BuildConnector(rs[id], k) \in Connector /\ BuildConnector(rs[id], k).source = "registry"
  BY <1>2, <1>3 DEF BuildConnector, Connector
<1>5. EnvConnector \in Connector
  BY <1>1 DEF EnvConnector, Connector
<1>6. None.source = "none" /\ BuildConnector(rs[id], k) # None
  BY <1>4 DEF None
<1>7. id \in DynIds => id \notin EnvIds
  BY RegistrationAssumption
<1>8. QED
  BY <1>4, <1>5, <1>6, <1>7 DEF BootEntry

\* An entry that is neither missing nor registered is the environment's.
LEMMA EntrySources ==
    ASSUME NEW e \in Connector \cup {None}
    PROVE  /\ e.source \in {"none", "env", "registry"}
           /\ e = None <=> e.source = "none"
BY DEF Connector, None

\* The answer to a mutation keeps the types.
LEMMA AnswerTypes ==
    ASSUME RegistrationTypeOK, HistoryTypes, NEW c \in Clients, NEW a \in Answers, Answer(c, a),
           log' \in [Ids -> Seq(Connector \cup {None})],
           \A id \in Ids : Len(log'[id]) >= Len(log[id])
    PROVE  /\ client' \in [Clients -> ClientSet] /\ answered' \in [Ids -> Nat]
           /\ \A id \in Ids : answered'[id] \in 1 .. Len(log'[id])
<1>1. client \in [Clients -> ClientSet]
  BY DEF RegistrationTypeOK, ClientSet
<1>2. [NewClient EXCEPT !.answer = a] \in ClientSet
  BY NewClientType DEF ClientSet
<1>3. client' \in [Clients -> ClientSet]
  BY <1>1, <1>2 DEF Answer
<1>4. client[c].id \in Ids
  BY <1>1 DEF ClientSet
<1>5. \A id \in Ids : Len(log[id]) \in Nat /\ Len(log'[id]) \in Nat
  BY DEF HistoryTypes
<1>6. answered' = [answered EXCEPT ![client[c].id] = Len(log[client[c].id])]
  BY DEF Answer
<1>7. answered' \in [Ids -> Nat]
  BY <1>4, <1>5, <1>6 DEF HistoryTypes
<1>8. \A id \in Ids : answered[id] \in 1 .. Len(log[id])
  BY DEF RegistrationTypeOK
<1>9. \A id \in Ids : answered'[id] = answered[id] \/ answered'[id] = Len(log[id])
  BY <1>4, <1>6 DEF HistoryTypes
<1>10. ASSUME NEW id \in Ids PROVE answered'[id] \in 1 .. Len(log'[id])
  <2>1. Len(log[id]) \in Nat /\ Len(log'[id]) \in Nat /\ Len(log'[id]) >= Len(log[id])
    BY <1>5
  <2>2. answered[id] \in 1 .. Len(log[id])
    BY <1>8
  <2>3. QED
    BY <1>9, <2>1, <2>2
<1>11. QED
  BY <1>3, <1>7, <1>10

\* The row a mutation commits is a row, and the history grows by what it asks for.
LEMMA WriteTypes ==
    ASSUME RegistrationTypeOK, HistoryTypes, NEW c \in Clients, MayWrite(c), WriteRow(c)
    PROVE  /\ client[c].id \in Ids
           /\ rows' \in [Ids -> Row \cup {NoRow}]
           /\ \E row \in Row \cup {NoRow} :
                /\ rows' = [rows EXCEPT ![client[c].id] = row]
                /\ row = NoRow <=> client[c].op = "delete"
           /\ log' \in [Ids -> Seq(Connector \cup {None})]
           /\ log' = [log EXCEPT ![client[c].id] = Append(@, BootEntry(client[c].id, rows', key))]
           /\ BootEntry(client[c].id, rows', key) \in Connector \cup {None}
<1> DEFINE r == client[c]  id == r.id
<1>1. r \in ClientSet /\ r.id \in Ids /\ r.no \in Numbers
  BY DEF RegistrationTypeOK, ClientSet
<1>2. rows[id] \in Row \cup {NoRow} /\ rows \in [Ids -> Row \cup {NoRow}]
  BY <1>1 DEF RegistrationTypeOK
<1>3. key \in Keys \cup {"none"}
  BY DEF RegistrationTypeOK
<1>4. PICK row \in WrittenRows(c) : rows' = [rows EXCEPT ![id] = row]
  BY DEF WriteRow
<1>5. /\ r.op = "delete" => row = NoRow
      /\ r.op # "delete" => row \in Row
  <2>1. CASE r.op = "delete"
    BY <1>4, <2>1 DEF WrittenRows
  <2>2. CASE r.op # "delete" /\ row = [dsn |-> r.no, title |-> r.no, sealed |-> key]
    <3>1. key # "none"
      BY <1>4, <2>2 DEF WrittenRows
    <3>2. QED
      BY <1>1, <1>3, <2>2, <3>1 DEF Row
  <2>3. CASE r.op # "delete" /\ row # [dsn |-> r.no, title |-> r.no, sealed |-> key]
    <3>1. row = [rows[id] EXCEPT !.title = r.no] /\ r.op # "create"
      BY <1>4, <2>3 DEF WrittenRows
    <3>2. rows[id] \in Row
      BY <1>2, <3>1 DEF MayWrite
    <3>3. QED
      BY <1>1, <2>3, <3>1, <3>2 DEF Row
  <2>4. QED
    BY <2>1, <2>2, <2>3
<1>6. \A w \in Row : w # NoRow
  BY RegistrationAssumption DEF Row, NoRow
<1>7. rows' \in [Ids -> Row \cup {NoRow}]
  BY <1>1, <1>2, <1>4, <1>5
<1>8. BootEntry(id, rows', key) \in Connector \cup {None}
  BY <1>1, <1>3, <1>7, BootEntryType
<1>9. log' = [log EXCEPT ![id] = Append(@, BootEntry(id, rows', key))]
  BY DEF WriteRow
<1>10. Append(log[id], BootEntry(id, rows', key)) \in Seq(Connector \cup {None})
  <2> HIDE DEF id
  <2>1. log[id] \in Seq(Connector \cup {None})
    BY <1>1 DEF HistoryTypes, id
  <2>2. QED
    BY <1>8, <2>1, AppendProperties
<1>11. log' \in [Ids -> Seq(Connector \cup {None})]
  BY <1>1, <1>9, <1>10 DEF HistoryTypes
<1>12. QED
  BY <1>1, <1>4, <1>5, <1>6, <1>7, <1>8, <1>9, <1>11

\* Every mutation, reader and start keeps the types.
LEMMA ClientStepTypes ==
    ASSUME RegistrationInv, NEW c \in Clients,
           ClientStep(c) \/ CommitFails(c) \/ \E op \in Ops, id \in Ids : Send(c, op, id)
    PROVE  RegistrationTypeOK' /\ HistoryTypes'
<1> USE DEF registryVars, lockVars, boundVars, historyVars
<1> DEFINE r == client[c]
<1>1. RegistrationTypeOK /\ HistoryTypes
  BY DEF RegistrationInv
<1>2. client \in [Clients -> ClientSet] /\ r \in ClientSet /\ r.id \in Ids
  BY <1>1 DEF RegistrationTypeOK, ClientSet
<1>3. ASSUME client' \in [Clients -> ClientSet],
             UNCHANGED <<rows, registryVars, key, faults, restarts, historyVars>>,
             epoch' \in Clients \cup {Free}, entry' \in [Ids -> Clients \cup {Free}],
             sent' \in 0 .. MaxOps
      PROVE  RegistrationTypeOK' /\ HistoryTypes'
  BY <1>1, <1>3 DEF RegistrationTypeOK, HistoryTypes, ClientSet
<1>4. /\ epoch \in Clients \cup {Free} /\ entry \in [Ids -> Clients \cup {Free}]
      /\ sent \in 0 .. MaxOps
      /\ \A id \in Ids : table[id] \in Connector \cup {None}
      /\ \A id \in Ids : GetConnector(id) \in Connector \cup {None}
  BY <1>1 DEF RegistrationTypeOK, GetConnector
<1>5. ASSUME NEW op \in Ops, NEW id \in Ids, Send(c, op, id) PROVE RegistrationTypeOK' /\ HistoryTypes'
  <2>1. sent' = sent + 1 /\ sent < MaxOps
    BY <1>5 DEF Send
  <2>2. sent' \in 0 .. MaxOps /\ sent' \in Numbers /\ 0 \in Numbers
    BY <1>4, <2>1, RegistrationAssumption DEF Numbers
  <2>3. answered[id] \in Nat
    BY <1>1 DEF HistoryTypes
  <2>4. PICK n \in Numbers, fl \in Nat, pc \in Steps :
          client' = [client EXCEPT ![c] =
            [op |-> op, id |-> id, no |-> n, seen |-> None, answer |-> "none",
             floor |-> fl, source |-> "none", pc |-> pc]]
    BY <1>5, <2>1, <2>2, <2>3 DEF Send, Steps
  <2>5. client' \in [Clients -> ClientSet]
    BY <1>2, <2>4 DEF ClientSet, Answers
  <2>6. QED
    BY <1>3, <1>4, <1>5, <2>2, <2>5 DEF Send
<1>6. CASE RefuseCreate(c)
  <2>1. PICK a \in Answers : Answer(c, a)
    BY <1>6 DEF RefuseCreate, Answers
  <2>2. UNCHANGED <<rows, registryVars, lockVars, key, boundVars, log, doubtful>>
    BY <1>6 DEF RefuseCreate
  <2>3. \A id \in Ids : Len(log'[id]) >= Len(log[id])
    BY <1>1, <2>2 DEF HistoryTypes
  <2>4. /\ client' \in [Clients -> ClientSet] /\ answered' \in [Ids -> Nat]
        /\ \A id \in Ids : answered'[id] \in 1 .. Len(log'[id])
    BY <1>1, <2>1, <2>2, <2>3, AnswerTypes DEF HistoryTypes
  <2>5. QED
    BY <1>1, <2>2, <2>4 DEF RegistrationTypeOK, HistoryTypes, ClientSet
<1>7. CASE TakeFirst(c) \/ TakeSecond(c)
  <2>1. PICK pc \in Steps : client' = [client EXCEPT ![c].pc = pc]
    BY <1>7 DEF TakeFirst, TakeSecond, Goto, Steps
  <2>2. client' \in [Clients -> ClientSet]
    BY <1>2, <2>1 DEF ClientSet
  <2>3. epoch' \in Clients \cup {Free} /\ entry' \in [Ids -> Clients \cup {Free}]
    BY <1>2, <1>4, <1>7 DEF TakeFirst, TakeSecond, Acquire
  <2>4. QED
    BY <1>3, <1>4, <1>7, <2>2, <2>3 DEF TakeFirst, TakeSecond
<1>8. ASSUME NEW a \in Answers, Release(c, a),
             UNCHANGED <<rows, key, sent, restarts, log, doubtful>>,
             table' \in [Ids -> Connector \cup {None}],
             registered' \subseteq DynIds, poisoned' \subseteq Ids, faults' \in 0 .. MaxFaults
      PROVE  RegistrationTypeOK' /\ HistoryTypes'
  <2>1. \A id \in Ids : Len(log'[id]) >= Len(log[id])
    BY <1>1, <1>8 DEF HistoryTypes
  <2>2. /\ client' \in [Clients -> ClientSet] /\ answered' \in [Ids -> Nat]
        /\ \A id \in Ids : answered'[id] \in 1 .. Len(log'[id])
    BY <1>1, <1>8, <2>1, AnswerTypes DEF HistoryTypes, Release
  <2>3. epoch' \in Clients \cup {Free} /\ entry' \in [Ids -> Clients \cup {Free}]
    BY <1>4, <1>8 DEF Release
  <2>4. QED
    BY <1>1, <1>8, <2>2, <2>3 DEF RegistrationTypeOK, HistoryTypes, ClientSet
<1>9. CASE Look(c)
  <2>1. CASE \E a \in {"conflict", "not_found"} : Release(c, a)
    BY <1>1, <1>8, <1>9, <2>1 DEF Look, Answers, RegistrationTypeOK
  <2>2. CASE client' = [client EXCEPT ![c].seen = GetConnector(r.id), ![c].pc = "commit"] /\ UNCHANGED <<lockVars, answered>>
    <3>1. client' \in [Clients -> ClientSet]
      BY <1>2, <1>4, <2>2 DEF ClientSet, Steps
    <3>2. QED
      BY <1>3, <1>4, <1>9, <2>2, <3>1 DEF Look
  <2>3. QED
    BY <1>9, <2>1, <2>2 DEF Look
<1>10. CASE RowRefused(c)
  <2>1. \E a \in Answers : Release(c, a)
    BY <1>10 DEF RowRefused, Answers
  <2>2. QED
    BY <1>1, <1>8, <1>10, <2>1 DEF RowRefused, RegistrationTypeOK
<1>11. ASSUME MayWrite(c), WriteRow(c)
       PROVE  /\ rows' \in [Ids -> Row \cup {NoRow}]
              /\ log' \in [Ids -> Seq(Connector \cup {None})]
              /\ \A id \in Ids : Len(log'[id]) >= Len(log[id]) /\ Len(log'[id]) \in Nat /\ Len(log[id]) \in Nat
  <2>1. /\ rows' \in [Ids -> Row \cup {NoRow}]
        /\ log' \in [Ids -> Seq(Connector \cup {None})]
        /\ log' = [log EXCEPT ![r.id] = Append(@, BootEntry(r.id, rows', key))]
        /\ BootEntry(r.id, rows', key) \in Connector \cup {None}
    BY <1>1, <1>11, WriteTypes
  <2>2. ASSUME NEW id \in Ids
        PROVE  Len(log'[id]) >= Len(log[id]) /\ Len(log'[id]) \in Nat /\ Len(log[id]) \in Nat
    <3>1. log[id] \in Seq(Connector \cup {None})
      BY <1>1 DEF HistoryTypes
    <3>2. log'[id] = log[id] \/ log'[id] = Append(log[id], BootEntry(r.id, rows', key))
      BY <1>1, <1>2, <2>1 DEF HistoryTypes
    <3>3. QED
      BY <2>1, <3>1, <3>2
  <2>3. QED
    BY <2>1, <2>2
<1>12. CASE Commit(c)
  <2>1. client' \in [Clients -> ClientSet]
    BY <1>2, <1>12 DEF Commit, Goto, ClientSet, Steps
  <2>2. UNCHANGED <<registryVars, lockVars, key, boundVars, answered, doubtful>>
    BY <1>12 DEF Commit
  <2>3. \A id \in Ids : answered'[id] \in 1 .. Len(log'[id])
    <3>1. \A id \in Ids : answered[id] \in 1 .. Len(log[id])
      BY <1>1 DEF RegistrationTypeOK
    <3>2. \A id \in Ids : Len(log'[id]) >= Len(log[id]) /\ Len(log'[id]) \in Nat /\ Len(log[id]) \in Nat
      BY <1>11, <1>12 DEF Commit
    <3>3. QED
      BY <2>2, <3>1, <3>2
  <2>4. rows' \in [Ids -> Row \cup {NoRow}] /\ log' \in [Ids -> Seq(Connector \cup {None})]
    BY <1>11, <1>12 DEF Commit
  <2>5. QED
    BY <1>1, <2>1, <2>2, <2>3, <2>4 DEF RegistrationTypeOK, HistoryTypes, ClientSet
<1>13. CASE CommitFails(c)
  <2>1. /\ UNCHANGED <<registryVars, key, sent, restarts>> /\ Release(c, "error") /\ MayWrite(c)
        /\ faults < MaxFaults /\ faults' = faults + 1
        /\ UNCHANGED <<rows, log, doubtful>> \/ (WriteRow(c) /\ doubtful' = doubtful \cup {r.id})
    BY <1>13 DEF CommitFails
  <2>2. /\ rows' \in [Ids -> Row \cup {NoRow}] /\ log' \in [Ids -> Seq(Connector \cup {None})]
        /\ doubtful' \subseteq Ids
        /\ \A id \in Ids : Len(log'[id]) >= Len(log[id])
    <3>1. CASE UNCHANGED <<rows, log, doubtful>>
      BY <1>1, <3>1 DEF RegistrationTypeOK, HistoryTypes
    <3>2. CASE WriteRow(c) /\ doubtful' = doubtful \cup {r.id}
      BY <1>1, <1>2, <1>11, <2>1, <3>2 DEF RegistrationTypeOK
    <3>3. QED
      BY <2>1, <3>1, <3>2
  <2>3. /\ client' \in [Clients -> ClientSet] /\ answered' \in [Ids -> Nat]
        /\ \A id \in Ids : answered'[id] \in 1 .. Len(log'[id])
    BY <1>1, <2>1, <2>2, AnswerTypes DEF Release, Answers
  <2>4. epoch' \in Clients \cup {Free} /\ entry' \in [Ids -> Clients \cup {Free}]
    BY <1>4, <2>1 DEF Release
  <2>5. faults' \in 0 .. MaxFaults
    BY <1>1, <2>1, RegistrationAssumption DEF RegistrationTypeOK
  <2>6. QED
    BY <1>1, <2>1, <2>2, <2>3, <2>4, <2>5 DEF RegistrationTypeOK, HistoryTypes, ClientSet
<1>14. CASE Register(c) \/ Replace(c) \/ Remove(c)
  <2>1. r.id \in DynIds /\ BuildConnector(rows[r.id], key) \in Connector
    <3>1. r.id \in DynIds
      BY <1>14 DEF Register, Replace, Remove, At, RegistrationInv, EnvironmentStays
    <3>2. QED
      BY <1>1, <1>2, <3>1, BootEntryType DEF RegistrationTypeOK
  <2>2. \E a \in Answers : Release(c, a)
    BY <1>14 DEF Register, Replace, Remove, Answers
  <2>3. /\ table' \in [Ids -> Connector \cup {None}]
        /\ registered' \subseteq DynIds /\ poisoned' \subseteq Ids
    BY <1>1, <1>2, <1>14, <2>1 DEF Register, Replace, Remove, Entered, Poison, Candidate, RegistrationTypeOK
  <2>4. UNCHANGED <<rows, key, sent, restarts, faults, log, doubtful>> /\ faults \in 0 .. MaxFaults
    BY <1>1, <1>14 DEF Register, Replace, Remove, RegistrationTypeOK
  <2>5. QED
    BY <1>8, <2>2, <2>3, <2>4
<1>15. CASE GetService(c) \/ ReadSource(c) \/ ResolveBinding(c)
  <2>1. CASE GetService(c)
    <3>1. PICK seen \in Connector \cup {None}, pc \in Steps, a \in Answers :
            client' = [client EXCEPT ![c].seen = seen, ![c].pc = pc, ![c].answer = a]
      BY <1>2, <1>4, <2>1 DEF GetService, Steps, Answers
    <3>2. client' \in [Clients -> ClientSet]
      BY <1>2, <3>1 DEF ClientSet
    <3>3. QED
      BY <1>3, <1>4, <2>1, <3>2 DEF GetService
  <2>2. CASE ReadSource(c)
    <3>1. PICK src \in {"none", "env", "registry"}, pc \in Steps, a \in Answers :
            client' = [client EXCEPT ![c].pc = pc, ![c].answer = a, ![c].source = src]
      BY <2>2 DEF ReadSource, Steps, Answers
    <3>2. client' \in [Clients -> ClientSet]
      BY <1>2, <3>1 DEF ClientSet
    <3>3. QED
      BY <1>3, <1>4, <2>2, <3>2 DEF ReadSource
  <2>4. CASE ResolveBinding(c)
    <3>1. PICK seen \in Connector \cup {None}, pc \in Steps, a \in Answers :
            client' = [client EXCEPT ![c].pc = pc, ![c].answer = a, ![c].seen = seen]
      <4> DEFINE e == table[r.id]
                 a == IF r.id \in poisoned THEN "poisoned"
                      ELSE IF e = None THEN "not_found"
                      ELSE IF e.dsn = NoDsn THEN "no_credential"
                      ELSE "bound"
                 seen == IF a \in {"bound", "no_credential"} THEN e ELSE None
      <4>2. client' = [client EXCEPT ![c].pc = "idle", ![c].answer = a, ![c].seen = seen]
        BY <2>4 DEF ResolveBinding
      <4>3. e \in Connector \cup {None}
        BY <1>2, <1>4
      <4>4. a \in Answers /\ "idle" \in Steps
        BY DEF Answers, Steps
      <4>5. seen \in Connector \cup {None}
        BY <4>3
      <4> HIDE DEF e, a, seen
      <4>6. QED
        BY <4>2, <4>4, <4>5
    <3>2. client' \in [Clients -> ClientSet]
      BY <1>2, <3>1 DEF ClientSet
    <3>3. QED
      BY <1>3, <1>4, <2>4, <3>2 DEF ResolveBinding
  <2>5. QED
    BY <1>15, <2>1, <2>2, <2>4
<1>16. QED
  BY <1>5, <1>6, <1>7, <1>9, <1>10, <1>12, <1>13, <1>14, <1>15 DEF ClientStep

-----------------------------------------------------------------------------
(* What a step does to its client *)

Others(c) == \A d \in Clients \ {c} : client'[d] = client[d]

\* An answer leaves an idle client.
LEMMA AnswerEffect ==
    ASSUME RegistrationTypeOK, NEW c \in Clients, NEW a, Answer(c, a)
    PROVE  /\ Others(c)
           /\ client'[c].pc = "idle" /\ client'[c].op = "none" /\ client'[c].answer = a
           /\ client'[c].id = NewClient.id
BY DEF Answer, NewClient, Others, RegistrationTypeOK

\* What a mutation is answered.
Outcomes == {"conflict", "not_found", "no_key", "error", "done"}

\* Once answered a client holds no lock, and what it held is free.
LEMMA ReleaseControl ==
    ASSUME RegistrationInv, NEW c \in Clients, NEW a \in Outcomes, Release(c, a), Under(c)
    PROVE  (\A d \in Clients : ClientFits(d)') /\ LocksFit'
<1>1. /\ RegistrationTypeOK /\ LocksFit /\ \A d \in Clients : ClientFits(d)
      /\ \A d \in Clients : d # Free
  BY RegistrationAssumption DEF RegistrationInv, Free
<1>2. /\ Others(c) /\ client'[c].pc = "idle" /\ client'[c].op = "none" /\ client'[c].answer # "found"
      /\ epoch' = Free /\ entry' = [entry EXCEPT ![client[c].id] = Free]
  BY <1>1, AnswerEffect DEF Release, Outcomes
<1>3. client[c].id \in Ids /\ entry \in [Ids -> Clients \cup {Free}]
  BY <1>1 DEF RegistrationTypeOK
<1>4. \A d \in Clients : ClientFits(d)'
  BY <1>1, <1>2 DEF ClientFits, Others, Inside, Under
<1>5. ASSUME NEW d \in Clients PROVE epoch' = d <=> Inside(d)'
  BY <1>1, <1>2 DEF LocksFit, Others, Inside, Under
<1>6. ASSUME NEW d \in Clients, NEW id \in Ids
      PROVE  entry'[id] = d <=> client'[d].id = id /\ Under(d)'
  BY <1>1, <1>2, <1>3 DEF LocksFit, Others, Inside, Under
<1>7. QED
  BY <1>4, <1>5, <1>6 DEF LocksFit

\* A step of a client outside the locks that stays outside.
LEMMA OutsideControl ==
    ASSUME RegistrationInv, NEW c \in Clients, Others(c), ~Inside(c), ~Inside(c)',
           ClientFits(c)', UNCHANGED lockVars
    PROVE  (\A d \in Clients : ClientFits(d)') /\ LocksFit'
<1>1. LocksFit /\ \A d \in Clients : ClientFits(d)
  BY DEF RegistrationInv
<1>2. \A d \in Clients : (Inside(d)' <=> Inside(d)) /\ (Under(d)' <=> Under(d))
  BY DEF Inside, Under, Others
<1>3. \A d \in Clients : Under(d) => client'[d].id = client[d].id
  BY DEF Inside, Others
<1>4. \A d \in Clients : ClientFits(d)'
  BY <1>1 DEF ClientFits, Others, Inside, Under
<1>5. QED
  BY <1>1, <1>2, <1>3, <1>4 DEF LocksFit, lockVars

\* A step of a client under its guards that keeps them.
LEMMA UnderControl ==
    ASSUME RegistrationInv, NEW c \in Clients, Others(c), Under(c), Under(c)',
           client'[c].id = client[c].id, client'[c].op = client[c].op,
           client'[c].answer = client[c].answer, UNCHANGED lockVars
    PROVE  (\A d \in Clients : ClientFits(d)') /\ LocksFit'
<1>1. LocksFit /\ \A d \in Clients : ClientFits(d)
  BY DEF RegistrationInv
<1>2. \A d \in Clients : (Inside(d)' <=> Inside(d)) /\ (Under(d)' <=> Under(d))
  BY DEF Inside, Under, Others
<1>3. \A d \in Clients : client'[d].id = client[d].id
  BY DEF Others
<1>4. \A d \in Clients : ClientFits(d)'
  BY <1>1 DEF ClientFits, Others, Inside, Under
<1>5. QED
  BY <1>1, <1>2, <1>3, <1>4 DEF LocksFit, lockVars

LEMMA ControlStep ==
    ASSUME RegistrationInv, NEW c \in Clients,
           ClientStep(c) \/ CommitFails(c) \/ \E op \in Ops, id \in Ids : Send(c, op, id)
    PROVE  (\A d \in Clients : ClientFits(d)') /\ LocksFit'
<1> USE DEF At, Goto
<1>1. /\ RegistrationTypeOK /\ LocksFit /\ client \in [Clients -> ClientSet]
      /\ \A d \in Clients : ClientFits(d)
      /\ \A d \in Clients : d # Free
  BY RegistrationAssumption DEF RegistrationInv, Free, RegistrationTypeOK, ClientSet
<1>2. ASSUME NEW op \in Ops, NEW id \in Ids, Send(c, op, id) PROVE (\A d \in Clients : ClientFits(d)') /\ LocksFit'
  <2>1. /\ Others(c) /\ ~Inside(c) /\ UNCHANGED lockVars
        /\ client'[c].pc = IF op \in MutationOps THEN "epoch" ELSE "read"
        /\ client'[c].op = op /\ client'[c].answer = "none"
    BY <1>1, <1>2 DEF Send, Others, Inside, Under
  <2>2. ClientFits(c)' /\ ~Inside(c)'
    BY <2>1 DEF ClientFits, Inside, Under, Ops
  <2>3. QED
    BY <2>1, <2>2, OutsideControl
<1>3. CASE RefuseCreate(c)
  <2>1. ~Inside(c) /\ UNCHANGED lockVars /\ \E a \in Outcomes : Answer(c, a)
    BY <1>3 DEF Outcomes, RefuseCreate, Inside, Under
  <2>2. Others(c) /\ client'[c].pc = "idle" /\ client'[c].answer # "found"
    BY <1>1, <2>1, AnswerEffect DEF Outcomes
  <2>3. ~Inside(c)' /\ ClientFits(c)'
    BY <2>2 DEF Inside, Under, ClientFits
  <2>4. QED
    BY <2>1, <2>2, <2>3, OutsideControl
<1>4. CASE TakeFirst(c)
  <2>1. /\ Others(c) /\ client'[c] = [client[c] EXCEPT !.pc = "entry"] /\ client[c].pc = "epoch"
        /\ epoch = Free /\ epoch' = c /\ entry' = entry
    BY <1>1, <1>4 DEF TakeFirst, Acquire, FirstLock, Others, lockVars
  <2>2. /\ client'[c].pc = "entry" /\ client'[c].op = client[c].op
        /\ client'[c].answer = client[c].answer /\ client'[c].id = client[c].id
    BY <1>1, <2>1 DEF ClientSet
  <2>3. client[c].op \in MutationOps /\ client[c].answer = "none"
    BY <1>1, <2>1 DEF ClientFits
  <2>4. \A d \in Clients : ClientFits(d)'
    <3>1. ClientFits(c)'
      BY <2>2, <2>3 DEF ClientFits, Inside, Under
    <3>2. \A d \in Clients \ {c} : ClientFits(d)'
      BY <1>1, <2>1 DEF ClientFits, Others, Inside, Under
    <3>3. QED
      BY <3>1, <3>2
  <2>5. LocksFit'
    BY <1>1, <2>1, <2>2 DEF LocksFit, Others, Inside, Under
  <2>6. QED
    BY <2>4, <2>5
<1>5. CASE TakeSecond(c)
  <2>1. /\ Others(c) /\ client'[c] = [client[c] EXCEPT !.pc = "look"] /\ client[c].pc = "entry"
        /\ entry[client[c].id] = Free /\ entry' = [entry EXCEPT ![client[c].id] = c] /\ epoch' = epoch
    BY <1>1, <1>5 DEF TakeSecond, Acquire, FirstLock, OtherLock, Others, lockVars
  <2>2. /\ client'[c].pc = "look" /\ client'[c].op = client[c].op
        /\ client'[c].answer = client[c].answer /\ client'[c].id = client[c].id
    BY <1>1, <2>1 DEF ClientSet
  <2>3. client[c].op \in MutationOps /\ client[c].answer = "none" /\ epoch = c
    BY <1>1, <2>1 DEF ClientFits, LocksFit, Inside
  <2>4. \A d \in Clients : ClientFits(d)'
    <3>1. ClientFits(c)'
      BY <2>2, <2>3 DEF ClientFits, Inside, Under
    <3>2. \A d \in Clients \ {c} : ClientFits(d)'
      BY <1>1, <2>1 DEF ClientFits, Others, Inside, Under
    <3>3. QED
      BY <3>1, <3>2
  <2>5. LocksFit'
    <3>1. client[c].id \in Ids /\ entry \in [Ids -> Clients \cup {Free}]
      BY <1>1 DEF RegistrationTypeOK
    <3>2. Inside(c) /\ ~Under(c) /\ Inside(c)' /\ Under(c)'
      BY <2>1, <2>2 DEF Inside, Under
    <3>3. ASSUME NEW d \in Clients PROVE epoch' = d <=> Inside(d)'
      <4>1. epoch' = epoch /\ (epoch = d <=> Inside(d))
        BY <1>1, <2>1 DEF LocksFit
      <4>2. d # c => (Inside(d)' <=> Inside(d))
        BY <2>1 DEF Others, Inside, Under
      <4>3. QED
        BY <3>2, <4>1, <4>2
    <3>4. ASSUME NEW d \in Clients, NEW id \in Ids
          PROVE  entry'[id] = d <=> client'[d].id = id /\ Under(d)'
      <4>1. CASE d = c
        BY <1>1, <2>1, <2>2, <3>1, <3>2, <4>1 DEF LocksFit
      <4>2. CASE d # c
        <5>1. client'[d] = client[d] /\ (Under(d)' <=> Under(d))
          BY <2>1, <4>2 DEF Others, Under
        <5>2. entry[id] = d <=> client[d].id = id /\ Under(d)
          BY <1>1 DEF LocksFit
        <5>3. entry'[id] = IF id = client[c].id THEN c ELSE entry[id]
          BY <2>1, <3>1
        <5>4. QED
          BY <1>1, <2>1, <4>2, <5>1, <5>2, <5>3
      <4>3. QED
        BY <4>1, <4>2
    <3>5. QED
      BY <3>3, <3>4 DEF LocksFit
  <2>6. QED
    BY <2>4, <2>5
<1>6. CASE Look(c)
  <2>1. CASE \E a \in {"conflict", "not_found"} : Release(c, a)
    BY <1>6, <2>1, ReleaseControl DEF Look, Under, Outcomes
  <2>2. CASE client' = [client EXCEPT ![c].seen = GetConnector(client[c].id), ![c].pc = "commit"] /\ UNCHANGED <<lockVars, answered>>
    <3>1. /\ Others(c) /\ client'[c].pc = "commit" /\ client'[c].op = client[c].op
          /\ client'[c].answer = client[c].answer /\ client'[c].id = client[c].id
      BY <1>1, <2>2 DEF Others, ClientSet
    <3>2. Under(c) /\ Under(c)'
      BY <1>6, <3>1 DEF Look, Under
    <3>3. QED
      BY <2>2, <3>1, <3>2, UnderControl
  <2>3. QED
    BY <1>6, <2>1, <2>2 DEF Look
<1>7. CASE RowRefused(c) \/ CommitFails(c) \/ Register(c) \/ Replace(c) \/ Remove(c)
  <2>1. Under(c) /\ \E a \in Outcomes : Release(c, a)
    BY <1>7 DEF Outcomes, RowRefused, CommitFails, MayWrite, Register, Replace, Remove, Under
  <2>2. QED
    BY <2>1, ReleaseControl
<1>8. CASE Commit(c)
  <2>1. /\ Others(c) /\ client'[c].pc = "apply" /\ client'[c].op = client[c].op
        /\ client'[c].answer = client[c].answer /\ client'[c].id = client[c].id
        /\ UNCHANGED lockVars
    BY <1>1, <1>8 DEF Commit, Others, ClientSet
  <2>2. Under(c) /\ Under(c)'
    BY <1>8, <2>1 DEF Commit, MayWrite, Under
  <2>3. QED
    BY <2>1, <2>2, UnderControl
<1>9. CASE GetService(c) \/ ReadSource(c) \/ ResolveBinding(c)
  <2>1. /\ Others(c) /\ UNCHANGED lockVars /\ client[c].pc \in {"read", "source"}
        /\ client'[c].op = client[c].op
        /\ client'[c].pc = "idle" \/ (client'[c].pc = "source" /\ client'[c].answer = "none")
    BY <1>1, <1>9 DEF GetService, ReadSource, ResolveBinding, Others, ClientSet
  <2>2. client[c].op = "read"
    BY <1>1, <2>1 DEF ClientFits
  <2>3. ~Inside(c) /\ ~Inside(c)' /\ ClientFits(c)'
    BY <2>1, <2>2 DEF Inside, Under, ClientFits
  <2>4. QED
    BY <2>1, <2>3, OutsideControl
<1>10. QED
  BY <1>2, <1>3, <1>4, <1>5, <1>6, <1>7, <1>8, <1>9 DEF ClientStep

-----------------------------------------------------------------------------
(* What a step does to the registry *)

\* The invariants that relate the registry, the rows and what clients know.
RegistryInv ==
    /\ EnvironmentStays /\ RegisteredFits /\ EntriesFit
    /\ \A c \in Clients : MutationFits(c) /\ ReaderFits(c)

\* A reader that takes no step goes on fitting while the history grows, and
\* while the removal of its service is told there.
LEMMA ReaderKept ==
    ASSUME RegistrationTypeOK, HistoryTypes, NEW d \in Clients, ReaderFits(d), client'[d] = client[d],
           HistoryTypes',
           LET id == client[d].id
           IN /\ Len(log'[id]) >= Len(log[id])
              /\ \A n \in 1 .. Len(log[id]) : log'[id][n] = log[id][n]
              /\ id \in doubtful => id \in doubtful'
              /\ id \in registered => \/ id \in registered'
                                      \/ /\ log[id][Len(log[id])].source # "registry"
    PROVE  ReaderFits(d)'
<1> DEFINE r == client[d]  old == log[r.id]  new == log'[r.id]
<1>1. r.id \in Ids
  BY DEF RegistrationTypeOK
<1>2. Len(old) \in Nat /\ Len(new) \in Nat
  BY <1>1 DEF HistoryTypes
<1>3. Len(new) >= Len(old) /\ \A n \in 1 .. Len(old) : new[n] = old[n]
  OBVIOUS
<1>4. CASE r.op # "read"
  BY <1>4 DEF ReaderFits
<1>5. CASE r.op = "read"
  <2>1. r.floor \in 1 .. Len(old)
    BY <1>5 DEF ReaderFits
  <2>2. r.floor \in 1 .. Len(new)
    BY <1>2, <1>3, <2>1
  <2>3. \A n \in r.floor .. Len(old) : n \in r.floor .. Len(new) /\ new[n] = old[n]
    BY <1>2, <1>3, <2>1
  <2>4. Len(old) \in r.floor .. Len(old)
    BY <1>2, <2>1
  <2>5. r.id \notin doubtful'
          /\ (r.pc = "source" \/ r.answer \in {"found", "not_found", "bound", "no_credential"}) =>
             \E n \in r.floor .. Len(new) : new[n] = r.seen
    BY <1>5, <2>3 DEF ReaderFits
  <2>6. r.pc = "source" =>
          \/ r.seen.source = "env" /\ r.id \in EnvIds
          \/ r.seen.source = "registry"
               /\ (r.id \notin registered' => \E n \in r.floor .. Len(new) : new[n].source # "registry")
    <3>1. CASE r.id \notin registered
      BY <1>5, <2>3, <3>1 DEF ReaderFits
    <3>2. CASE r.id \in registered /\ r.id \notin registered'
      <4>1. new[Len(old)].source # "registry" /\ Len(old) \in r.floor .. Len(new)
        BY <2>3, <2>4, <3>2
      <4>2. QED
        BY <1>5, <4>1 DEF ReaderFits
    <3>3. CASE r.id \in registered'
      BY <1>5, <3>3, <2>3 DEF ReaderFits
    <3>4. QED
      BY <3>1, <3>2, <3>3
  <2>7. r.answer = "found" /\ r.source # r.seen.source =>
          \E n \in r.floor .. Len(new) : new[n].source # r.seen.source
    BY <1>5, <2>3 DEF ReaderFits
  <2>8. QED
    BY <2>2, <2>5, <2>6, <2>7 DEF ReaderFits
<1>6. QED
  BY <1>4, <1>5

\* A step of one client that changes neither rows nor registry.
LEMMA RegistryStays ==
    ASSUME RegistrationInv, HistoryTypes', NEW c \in Clients, Others(c),
           UNCHANGED <<rows, registryVars, key, log, doubtful>>,
           client[c].pc # "apply", client'[c].pc # "apply",
           client'[c].pc = "commit" => MutationFits(c)' /\ (client'[c].op = "create" => client'[c].id \in DynIds),
           ReaderFits(c)'
    PROVE  RegistryInv'
<1> USE DEF registryVars
<1>1. /\ RegistrationTypeOK /\ HistoryTypes /\ EnvironmentStays /\ RegisteredFits /\ EntriesFit
      /\ \A d \in Clients : MutationFits(d) /\ ReaderFits(d)
  BY DEF RegistrationInv
<1>2. EnvironmentStays'
  BY <1>1 DEF EnvironmentStays, Others
<1>3. RegisteredFits'
  BY <1>1 DEF RegisteredFits
<1>4. EntriesFit'
  BY <1>1 DEF EntriesFit, Others, BootEntry
<1>5. \A d \in Clients : MutationFits(d)'
  BY <1>1 DEF MutationFits, Others, BootEntry
<1>6. ASSUME NEW d \in Clients \ {c} PROVE ReaderFits(d)'
  <2>1. client'[d] = client[d] /\ client[d].id \in Ids
    BY <1>1 DEF Others, RegistrationTypeOK
  <2>2. Len(log[client[d].id]) \in Nat
    BY <1>1, <2>1 DEF HistoryTypes
  <2>3. QED
    BY <1>1, <2>1, <2>2, ReaderKept
<1>7. QED
  BY <1>2, <1>3, <1>4, <1>5, <1>6 DEF RegistryInv

\* An answered client is no mutation and no reader.
LEMMA AnsweredFits ==
    ASSUME NEW c \in Clients, client'[c].pc = "idle", client'[c].op = "none"
    PROVE  MutationFits(c)' /\ ReaderFits(c)'
BY DEF MutationFits, ReaderFits

\* An entry nobody guards is what its row asks for, the last of its history.
LEMMA FreeEntry ==
    ASSUME RegistrationInv, NEW id \in Ids, entry[id] = Free, id \notin doubtful
    PROVE  /\ table[id] = BootEntry(id, rows, key) /\ GetConnector(id) = table[id]
           /\ log[id][Len(log[id])] = table[id]
<1>1. \A c \in Clients : ~(client[c].pc = "apply" /\ client[c].id = id)
  BY RegistrationAssumption DEF RegistrationInv, LocksFit, Under, Free
<1>2. id \notin poisoned
  BY DEF RegistrationInv, RegisteredFits
<1>3. QED
  BY <1>1, <1>2 DEF RegistrationInv, EntriesFit, GetConnector

\* Requests, locks and what is only looked at leave the registry as it was.
LEMMA LookStep ==
    ASSUME RegistrationInv, HistoryTypes', NEW c \in Clients, Look(c)
    PROVE  RegistryInv'
<1> USE DEF At
<1>1. /\ RegistrationTypeOK /\ client \in [Clients -> ClientSet] /\ ClientFits(c)
      /\ EnvironmentStays /\ RegisteredFits
  BY DEF RegistrationInv, RegistrationTypeOK, ClientSet
<1>2. UNCHANGED <<rows, registryVars, key, log, doubtful>> /\ client[c].pc = "look"
  BY DEF Look
<1>3. CASE \E a \in {"conflict", "not_found"} : Release(c, a)
  <2>1. Others(c) /\ client'[c].pc = "idle" /\ client'[c].op = "none"
    BY <1>1, <1>3, AnswerEffect DEF Release
  <2>2. QED
    BY <1>2, <2>1, AnsweredFits, RegistryStays
<1>4. CASE /\ client' = [client EXCEPT ![c].seen = GetConnector(client[c].id), ![c].pc = "commit"]
           /\ client[c].op = "delete" \/ ((client[c].op = "create") <=> (GetConnector(client[c].id) = None))
  <2>1. /\ Others(c) /\ client'[c].pc = "commit" /\ client'[c].op = client[c].op
        /\ client'[c].id = client[c].id /\ client'[c].seen = GetConnector(client[c].id)
    BY <1>1, <1>4 DEF Others, ClientSet
  <2>2. client[c].op \in MutationOps /\ client[c].id \in Ids
    BY <1>1, <1>2 DEF ClientFits, Inside, Under, ClientSet
  <2>3. ReaderFits(c)'
    BY <2>1, <2>2 DEF ReaderFits, MutationOps
  <2>4. client[c].id \notin doubtful => GetConnector(client[c].id) = table[client[c].id]
    BY <1>1 DEF GetConnector, RegisteredFits
  <2>5. MutationFits(c)'
    BY <1>2, <1>4, <2>1, <2>2, <2>4 DEF MutationFits, MutationOps, registryVars
  <2>6. client[c].op = "create" => client[c].id \in DynIds
    <3>1. client[c].id \in EnvIds => GetConnector(client[c].id) = EnvConnector
      BY <1>1 DEF GetConnector, EnvironmentStays
    <3>2. EnvConnector # None
      BY DEF EnvConnector, None
    <3>3. QED
      BY <1>4, <2>2, <3>1, <3>2 DEF Ids
  <2>7. QED
    BY <1>2, <2>1, <2>3, <2>5, <2>6, RegistryStays
<1>5. QED
  BY <1>3, <1>4 DEF Look

\* A reader sees the entry as it is while nobody guards it.
LEMMA ReadStep ==
    ASSUME RegistrationInv, HistoryTypes', NEW c \in Clients,
           GetService(c) \/ ReadSource(c) \/ ResolveBinding(c)
    PROVE  RegistryInv'
<1> USE DEF At
<1> DEFINE r == client[c]
<1>1. /\ RegistrationTypeOK /\ HistoryTypes /\ client \in [Clients -> ClientSet] /\ ClientFits(c)
      /\ EnvironmentStays /\ RegisteredFits /\ ReaderFits(c) /\ r.id \in Ids
  BY DEF RegistrationInv, RegistrationTypeOK, ClientSet
<1>2. /\ UNCHANGED <<rows, registryVars, key, log, doubtful>> /\ r.pc \in {"read", "source"}
      /\ r.op = "read" /\ r.answer = "none"
  BY <1>1 DEF GetService, ReadSource, ResolveBinding, historyVars, ClientFits
<1>3. r.floor \in 1 .. Len(log[r.id]) /\ Len(log[r.id]) \in Nat
  BY <1>1, <1>2 DEF ReaderFits, HistoryTypes
<1>4. Len(log[r.id]) \in r.floor .. Len(log[r.id])
  BY <1>3
<1>5. /\ r.id \in EnvIds => table[r.id].source = "env" /\ r.id \notin registered
      /\ r.id \in DynIds => table[r.id].source # "env" /\ (r.id \in registered <=> table[r.id].source = "registry")
      /\ r.id \in EnvIds \/ r.id \in DynIds
      /\ table[r.id].source \in {"none", "env", "registry"}
      /\ table[r.id] = None <=> table[r.id].source = "none"
  BY <1>1, EntrySources DEF EnvironmentStays, RegisteredFits, EnvConnector, Ids, RegistrationTypeOK
<1>6. CASE GetService(c)
  <2> DEFINE seen == GetConnector(r.id)
  <2>1. client' = [client EXCEPT ![c].seen = seen,
             ![c].pc = IF seen = None THEN "idle" ELSE "source",
             ![c].answer = IF seen = None THEN "not_found" ELSE "none"]
    BY <1>6 DEF GetService
  <2>2. /\ Others(c) /\ client'[c].id = r.id /\ client'[c].op = r.op /\ client'[c].floor = r.floor
        /\ client'[c].seen = seen /\ client'[c].pc = IF seen = None THEN "idle" ELSE "source"
        /\ client'[c].answer = IF seen = None THEN "not_found" ELSE "none"
    BY <1>1, <2>1 DEF Others, ClientSet
  <2>3. r.id \notin doubtful => log[r.id][Len(log[r.id])] = seen
    BY <1>1, <1>6, FreeEntry DEF GetService
  <2>4. seen # None => seen = table[r.id]
    BY DEF GetConnector
  <2> HIDE DEF seen
  <2>5. ReaderFits(c)'
    BY <1>2, <1>3, <1>4, <1>5, <2>2, <2>3, <2>4 DEF ReaderFits, registryVars
  <2>6. QED
    BY <1>2, <2>2, <2>5, RegistryStays
<1>7. CASE ReadSource(c)
  <2>1. /\ Others(c) /\ client'[c].id = r.id /\ client'[c].op = r.op /\ client'[c].floor = r.floor
        /\ client'[c].seen = r.seen /\ client'[c].pc = "idle" /\ client'[c].answer = "found"
        /\ client'[c].source = IF r.id \in registered THEN "registry" ELSE "env"
        /\ r.pc = "source"
    BY <1>1, <1>7 DEF ReadSource, Others, ClientSet
  <2>2. ReaderFits(c)'
    BY <1>1, <1>2, <1>5, <2>1 DEF ReaderFits, registryVars
  <2>3. QED
    BY <1>2, <2>1, <2>2, RegistryStays
<1>8. CASE ResolveBinding(c)
  <2> DEFINE e == table[r.id]
             a == IF r.id \in poisoned THEN "poisoned"
                  ELSE IF e = None THEN "not_found"
                  ELSE IF e.dsn = NoDsn THEN "no_credential"
                  ELSE "bound"
             seen == IF a \in {"bound", "no_credential"} THEN e ELSE None
  <2>1. client' = [client EXCEPT ![c].pc = "idle", ![c].answer = a, ![c].seen = seen]
    BY <1>8 DEF ResolveBinding
  <2>2. a # "found" /\ (r.id \notin doubtful => seen = e)
    BY <1>1 DEF RegisteredFits
  <2>3. r.id \notin doubtful => log[r.id][Len(log[r.id])] = e
    BY <1>1, <1>8, FreeEntry DEF ResolveBinding
  <2> HIDE DEF a, seen, e
  <2>4. /\ Others(c) /\ client'[c].id = r.id /\ client'[c].op = r.op /\ client'[c].floor = r.floor
        /\ client'[c].seen = seen /\ client'[c].pc = "idle" /\ client'[c].answer = a
    BY <1>1, <2>1 DEF Others, ClientSet
  <2>5. ReaderFits(c)'
    BY <1>2, <1>3, <1>4, <2>2, <2>3, <2>4 DEF ReaderFits, registryVars
  <2>6. QED
    BY <1>2, <2>4, <2>5, RegistryStays
<1>9. QED
  BY <1>6, <1>7, <1>8

\* A request that arrives, waits, takes a lock or is refused.
LEMMA WaitStep ==
    ASSUME RegistrationInv, HistoryTypes', NEW c \in Clients,
           \/ \E op \in Ops, id \in Ids : Send(c, op, id)
           \/ RefuseCreate(c) \/ TakeFirst(c) \/ TakeSecond(c) \/ RowRefused(c)
    PROVE  RegistryInv'
<1> USE DEF At, historyVars
<1>1. /\ RegistrationTypeOK /\ HistoryTypes /\ client \in [Clients -> ClientSet] /\ ClientFits(c)
  BY DEF RegistrationInv, RegistrationTypeOK, ClientSet
<1>2. ASSUME NEW op \in Ops, NEW id \in Ids, Send(c, op, id) PROVE RegistryInv'
  <2>1. /\ Others(c) /\ client'[c].id = id /\ client'[c].op = op
        /\ client'[c].floor = IF op \in MutationOps THEN 1 ELSE answered[id]
        /\ client'[c].pc \in {"epoch", "read"} /\ client'[c].answer = "none" /\ client[c].pc = "idle"
        /\ UNCHANGED <<rows, registryVars, key, log, doubtful>>
    BY <1>1, <1>2 DEF Send, Others
  <2>2. answered[id] \in 1 .. Len(log[id])
    BY <1>1 DEF RegistrationTypeOK
  <2>3. ReaderFits(c)'
    BY <2>1, <2>2 DEF ReaderFits, MutationOps
  <2>4. QED
    BY <2>1, <2>3, RegistryStays
<1>3. CASE RefuseCreate(c) \/ RowRefused(c)
  <2>1. /\ UNCHANGED <<rows, registryVars, key, log, doubtful>> /\ client[c].pc \in {"epoch", "commit"}
        /\ \E a : Answer(c, a)
    BY <1>3 DEF RefuseCreate, RowRefused, Release
  <2>2. Others(c) /\ client'[c].pc = "idle" /\ client'[c].op = "none"
    BY <1>1, <2>1, AnswerEffect
  <2>3. QED
    BY <2>1, <2>2, AnsweredFits, RegistryStays
<1>4. CASE TakeFirst(c) \/ TakeSecond(c)
  <2>1. /\ Others(c) /\ client'[c].pc \in {"entry", "look"} /\ client'[c].op = client[c].op
        /\ client[c].pc \in {"epoch", "entry"}
        /\ UNCHANGED <<rows, registryVars, key, log, doubtful>>
    BY <1>1, <1>4 DEF TakeFirst, TakeSecond, Goto, Others, ClientSet
  <2>2. client[c].op \in MutationOps
    BY <1>1, <2>1 DEF ClientFits, Inside
  <2>3. ReaderFits(c)'
    BY <2>1, <2>2 DEF ReaderFits, MutationOps
  <2>4. QED
    BY <2>1, <2>3, RegistryStays
<1>5. QED
  BY <1>2, <1>3, <1>4

\* Whoever writes a row guards its entry alone, and the row is not the environment's.
LEMMA WriterIsAlone ==
    ASSUME RegistrationInv, NEW c \in Clients, MayWrite(c)
    PROVE  /\ client[c].pc = "commit" /\ client[c].id \in DynIds
           /\ \A d \in Clients \ {c} : Under(d) => client[d].id # client[c].id
<1> DEFINE id == client[c].id
<1>1. /\ client[c].pc = "commit" /\ (client[c].op = "create" <=> rows[id] = NoRow) /\ id \in Ids
  BY DEF MayWrite, At, RegistrationInv, RegistrationTypeOK
<1>2. id \in EnvIds => rows[id] = NoRow /\ id \notin DynIds
  BY RegistrationAssumption DEF RegistrationInv, EnvironmentStays
<1>3. client[c].op = "create" => id \in DynIds
  BY <1>1 DEF RegistrationInv, EnvironmentStays
<1>4. entry[id] = c
  BY <1>1 DEF RegistrationInv, LocksFit, Under
<1>5. \A d \in Clients \ {c} : Under(d) => client[d].id # id
  BY <1>1, <1>4 DEF RegistrationInv, LocksFit
<1>6. QED
  BY <1>1, <1>2, <1>3, <1>5 DEF Ids

\* A row is written by the client that guards its entry; afterwards the table
\* is to follow, or the row is doubtful.
LEMMA RowWritten ==
    ASSUME RegistrationInv, HistoryTypes', NEW c \in Clients, MayWrite(c), WriteRow(c), Others(c),
           UNCHANGED <<registryVars, key>>, doubtful \subseteq doubtful',
           doubtful' \subseteq doubtful \cup {client[c].id},
           \/ /\ client'[c].pc = "apply" /\ client'[c].id = client[c].id /\ client'[c].op = client[c].op
              /\ client'[c].seen = client[c].seen
           \/ client'[c].pc = "idle" /\ client'[c].op = "none" /\ client[c].id \in doubtful'
    PROVE  RegistryInv'
<1> USE DEF registryVars
<1> DEFINE r == client[c]  id == r.id  e == BootEntry(id, rows', key)
<1>1. /\ RegistrationTypeOK /\ HistoryTypes /\ EnvironmentStays /\ RegisteredFits /\ EntriesFit
      /\ \A d \in Clients : MutationFits(d) /\ ReaderFits(d) /\ ClientFits(d)
  BY DEF RegistrationInv
<1>2. /\ r.pc = "commit" /\ id \in DynIds /\ id \in Ids /\ id \notin EnvIds
      /\ \A d \in Clients \ {c} : Under(d) => client[d].id # id
  BY WriterIsAlone, RegistrationAssumption DEF Ids
<1>3. PICK row \in Row \cup {NoRow} :
        /\ rows' = [rows EXCEPT ![id] = row]
        /\ row = NoRow <=> r.op = "delete"
        /\ log' = [log EXCEPT ![id] = Append(@, e)]
  BY <1>1, WriteTypes
<1>4. rows'[id] = row /\ \A i \in Ids \ {id} : rows'[i] = rows[i] /\ BootEntry(i, rows', key) = BootEntry(i, rows, key)
  BY <1>1, <1>2, <1>3 DEF RegistrationTypeOK, BootEntry
<1>5. /\ \A i \in Ids \ {id} : log'[i] = log[i]
      /\ log'[id] = Append(log[id], e)
  BY <1>1, <1>2, <1>3 DEF HistoryTypes
<1>6. /\ log[id] \in Seq(Connector \cup {None}) /\ e \in Connector \cup {None}
  BY <1>1, <1>2, WriteTypes DEF HistoryTypes
<1>7. /\ Len(log[id]) \in Nat /\ Len(log'[id]) = Len(log[id]) + 1 /\ log'[id][Len(log'[id])] = e
      /\ \A n \in 1 .. Len(log[id]) : log'[id][n] = log[id][n]
  <2> HIDE DEF e, id
  <2>1. QED
    BY <1>5, <1>6
<1> HIDE DEF e
<1>8. EnvironmentStays'
  BY <1>1, <1>2, <1>4 DEF EnvironmentStays, Others, Ids
<1>9. RegisteredFits'
  BY <1>1 DEF RegisteredFits
<1>10. EntriesFit'
  <2>1. ASSUME NEW i \in Ids \ doubtful', i # id
        PROVE  /\ (\A d \in Clients : ~(client[d].pc = "apply" /\ client[d].id = i)') => table'[i] = BootEntry(i, rows', key')
               /\ log'[i][Len(log'[i])] = BootEntry(i, rows', key')
    BY <1>1, <1>2, <1>4, <1>5, <2>1 DEF EntriesFit, Others
  <2>2. ASSUME id \notin doubtful'
        PROVE  /\ client'[c].pc = "apply" /\ client'[c].id = id
               /\ log'[id][Len(log'[id])] = BootEntry(id, rows', key')
    BY <1>7, <2>2 DEF e
  <2>3. QED
    BY <2>1, <2>2 DEF EntriesFit
<1>11. ASSUME NEW d \in Clients PROVE MutationFits(d)'
  <2>1. CASE d # c
    <3>1. client'[d] = client[d] /\ MutationFits(d) /\ client[d].id \in Ids
      BY <1>1, <2>1 DEF Others, RegistrationTypeOK
    <3>2. CASE Under(d)
      BY <1>2, <1>4, <1>5, <2>1, <3>1, <3>2 DEF MutationFits
    <3>3. CASE ~Under(d)
      BY <3>1, <3>3 DEF MutationFits, Under
    <3>4. QED
      BY <3>2, <3>3
  <2>2. CASE d = c /\ client'[c].pc = "idle" /\ client'[c].op = "none"
    BY <2>2, AnsweredFits
  <2>3. CASE d = c /\ client'[c].pc = "apply" /\ client'[c].id = id /\ client'[c].op = r.op /\ client'[c].seen = r.seen
    <3>1. /\ r.op = "create" => r.seen = None
          /\ r.op = "update" => r.seen # None
          /\ id \notin doubtful => table[id] = r.seen
      BY <1>1, <1>2 DEF MutationFits
    <3>2. r.op = "delete" /\ id \notin doubtful => r.seen # None
      <4>1. ASSUME r.op = "delete", id \notin doubtful PROVE r.seen # None
        <5>1. rows[id] # NoRow
          BY <4>1 DEF MayWrite
        <5>2. BootEntry(id, rows, key) # None
          BY <1>1, <1>2, <5>1, BootEntryType DEF RegistrationTypeOK
        <5>3. \A i \in Clients : ~(client[i].pc = "apply" /\ client[i].id = id)
          BY <1>2 DEF Under
        <5>4. table[id] = BootEntry(id, rows, key)
          BY <1>1, <1>2, <4>1, <5>3 DEF EntriesFit
        <5>5. QED
          BY <3>1, <4>1, <5>2, <5>4
      <4>2. QED
        BY <4>1
    <3>3. r.op = "delete" <=> rows'[id] = NoRow
      BY <1>3, <1>4
    <3>4. log'[id][Len(log'[id])] = BootEntry(id, rows', key')
      BY <1>7 DEF e
    <3>5. QED
      BY <2>3, <3>1, <3>2, <3>3, <3>4 DEF MutationFits
  <2>4. QED
    BY <2>1, <2>2, <2>3
<1>12. ASSUME NEW d \in Clients PROVE ReaderFits(d)'
  <2>1. CASE d # c
    <3>1. client'[d] = client[d] /\ client[d].id \in Ids /\ ReaderFits(d)
      BY <1>1, <2>1 DEF Others, RegistrationTypeOK
    <3>2. \A i \in Ids : Len(log'[i]) >= Len(log[i]) /\ \A n \in 1 .. Len(log[i]) : log'[i][n] = log[i][n]
      <4>1. \A i \in Ids : Len(log[i]) \in Nat
        BY <1>1 DEF HistoryTypes
      <4>2. ASSUME NEW i \in Ids PROVE Len(log'[i]) >= Len(log[i]) /\ \A n \in 1 .. Len(log[i]) : log'[i][n] = log[i][n]
        <5>1. CASE i = id
          BY <1>7, <5>1
        <5>2. CASE i # id
          BY <1>5, <4>1, <5>2
        <5>3. QED
          BY <5>1, <5>2
      <4>3. QED
        BY <4>2
    <3>3. QED
      BY <1>1, <3>1, <3>2, ReaderKept
  <2>2. CASE d = c /\ client'[c].pc = "idle" /\ client'[c].op = "none"
    BY <2>2, AnsweredFits
  <2>3. CASE d = c /\ client'[c].op = r.op
    <3>1. r.op \in MutationOps
      BY <1>1, <1>2 DEF ClientFits, Inside, Under
    <3>2. QED
      BY <2>3, <3>1 DEF ReaderFits, MutationOps
  <2>4. QED
    BY <2>1, <2>2, <2>3
<1>13. QED
  BY <1>8, <1>9, <1>10, <1>11, <1>12 DEF RegistryInv

\* The transaction of a mutation commits, or fails.
LEMMA CommitStep ==
    ASSUME RegistrationInv, HistoryTypes', NEW c \in Clients, Commit(c) \/ CommitFails(c)
    PROVE  RegistryInv'
<1>1. RegistrationTypeOK /\ client \in [Clients -> ClientSet] /\ client[c].pc = "commit"
  BY DEF RegistrationInv, RegistrationTypeOK, ClientSet, Commit, CommitFails, MayWrite, At
<1>2. CASE Commit(c)
  <2>1. /\ Others(c) /\ client'[c].pc = "apply" /\ client'[c].id = client[c].id
        /\ client'[c].op = client[c].op /\ client'[c].seen = client[c].seen
    BY <1>1, <1>2 DEF Commit, Goto, Others, ClientSet
  <2>2. /\ MayWrite(c) /\ WriteRow(c) /\ UNCHANGED <<registryVars, key>> /\ doubtful' = doubtful
    BY <1>2 DEF Commit
  <2>3. QED
    BY <2>1, <2>2, RowWritten
<1>3. CASE CommitFails(c)
  <2>1. /\ Others(c) /\ client'[c].pc = "idle" /\ client'[c].op = "none"
    BY <1>1, <1>3, AnswerEffect DEF CommitFails, Release
  <2>2. /\ MayWrite(c) /\ UNCHANGED <<registryVars, key>>
        /\ UNCHANGED <<rows, log, doubtful>> \/ (WriteRow(c) /\ doubtful' = doubtful \cup {client[c].id})
    BY <1>3 DEF CommitFails
  <2>3. CASE UNCHANGED <<rows, log, doubtful>>
    BY <1>1, <2>1, <2>2, <2>3, AnsweredFits, RegistryStays
  <2>4. CASE WriteRow(c) /\ doubtful' = doubtful \cup {client[c].id}
    BY <2>1, <2>2, <2>4, RowWritten
  <2>5. QED
    BY <2>2, <2>3, <2>4
<1>4. QED
  BY <1>2, <1>3

\* The table follows the row: a removal is told by the history before it happens.
LEMMA ApplyStep ==
    ASSUME RegistrationInv, HistoryTypes', NEW c \in Clients,
           Register(c) \/ Replace(c) \/ Remove(c)
    PROVE  RegistryInv'
<1> USE DEF At
<1> DEFINE r == client[c]  id == r.id  e == BootEntry(id, rows, key)
<1>1. /\ RegistrationTypeOK /\ HistoryTypes /\ EnvironmentStays /\ RegisteredFits /\ EntriesFit
      /\ \A d \in Clients : MutationFits(d) /\ ReaderFits(d)
  BY DEF RegistrationInv
<1>2. /\ r.pc = "apply" /\ UNCHANGED <<rows, key, log, doubtful>> /\ \E a : Answer(c, a)
  BY DEF Register, Replace, Remove, Release
<1>3. Others(c) /\ client'[c].pc = "idle" /\ client'[c].op = "none"
  BY <1>1, <1>2, AnswerEffect
<1>4. id \in DynIds /\ id \in Ids /\ id \notin EnvIds /\ table \in [Ids -> Connector \cup {None}]
  BY <1>1, <1>2, RegistrationAssumption DEF EnvironmentStays, Ids, RegistrationTypeOK
<1>5. \A d \in Clients \ {c} : Under(d) => client[d].id # id
  BY <1>2, <1>4 DEF RegistrationInv, LocksFit, Under
<1>6. /\ r.op = "create" => r.seen = None
      /\ r.op = "update" => r.seen # None
      /\ r.op = "delete" <=> rows[id] = NoRow
      /\ id \notin doubtful => table[id] = r.seen /\ (r.op = "delete" => r.seen # None)
      /\ log[id][Len(log[id])] = e
  BY <1>1, <1>2 DEF MutationFits
<1>7. /\ e = None <=> rows[id] = NoRow
      /\ rows[id] # NoRow => e = BuildConnector(rows[id], key)
      /\ BuildConnector(rows[id], key) \in Connector
      /\ BuildConnector(rows[id], key).source = "registry"
      /\ None.source = "none"
  BY <1>1, <1>4, BootEntryType DEF RegistrationTypeOK, BootEntry, None
<1>8. \/ /\ UNCHANGED <<table, registered>> /\ poisoned' = poisoned \cup {id} /\ id \in doubtful
      \/ /\ table' = [table EXCEPT ![id] = e] /\ poisoned' = poisoned
         /\ registered' = IF rows[id] = NoRow THEN registered \ {id} ELSE registered \cup {id}
  <2> HIDE DEF id, e
  <2>1. CASE Register(c)
    BY <1>6, <1>7, <2>1 DEF Register, Entered, Poison, id
  <2>2. CASE Replace(c)
    <3>1. CASE ~IsExpected(r)
      BY <1>6, <2>2, <3>1 DEF Replace, Poison, IsExpected, id
    <3>2. CASE IsExpected(r)
      <4>1. table[id] # None
        BY <3>2 DEF IsExpected, id
      <4>2. id \in registered
        BY <1>1, <1>4, <4>1, EntrySources DEF RegisteredFits
      <4>3. registered' = registered \cup {id}
        BY <2>2, <4>2 DEF Replace
      <4>4. rows[id] # NoRow
        BY <1>6, <2>2 DEF Replace
      <4>5. table' = [table EXCEPT ![id] = e] /\ poisoned' = poisoned
        BY <1>7, <2>2, <3>2, <4>4 DEF Replace, Candidate, id
      <4>6. QED
        BY <4>3, <4>4, <4>5
    <3>3. QED
      BY <3>1, <3>2
  <2>3. CASE Remove(c)
    BY <1>6, <1>7, <2>3 DEF Remove, Poison, IsExpected, id
  <2>4. QED
    BY <2>1, <2>2, <2>3
<1> HIDE DEF e
<1>9. /\ \A i \in Ids \ {id} : table'[i] = table[i]
      /\ \A i \in Ids \ {id} : (i \in registered' <=> i \in registered) /\ (i \in poisoned' <=> i \in poisoned)
      /\ table'[id] = table[id] \/ table'[id] = e
  BY <1>4, <1>8
<1>10. EnvironmentStays'
  BY <1>1, <1>2, <1>3, <1>4, <1>9 DEF EnvironmentStays, Others, Ids
<1>11. RegisteredFits'
  <2>1. table'[id].source # "env" /\ (id \in registered' <=> table'[id].source = "registry")
    BY <1>1, <1>4, <1>7, <1>8 DEF RegisteredFits
  <2>2. \A i \in DynIds \ {id} : table'[i].source # "env" /\ (i \in registered' <=> table'[i].source = "registry")
    BY <1>1, <1>9 DEF RegisteredFits, Ids
  <2>3. poisoned' \subseteq doubtful'
    BY <1>1, <1>2, <1>8 DEF RegisteredFits
  <2>4. QED
    BY <2>1, <2>2, <2>3 DEF RegisteredFits
<1>12. EntriesFit'
  <2>1. ASSUME NEW i \in Ids \ doubtful, i # id,
               \A d \in Clients : ~(client[d].pc = "apply" /\ client[d].id = i)'
        PROVE  table'[i] = BootEntry(i, rows, key)
    <3>1. \A d \in Clients : ~(client[d].pc = "apply" /\ client[d].id = i)
      BY <1>3, <2>1 DEF Others
    <3>2. QED
      BY <1>1, <1>9, <2>1, <3>1 DEF EntriesFit
  <2>2. id \notin doubtful => table'[id] = e
    BY <1>4, <1>8
  <2>3. \A i \in Ids \ doubtful : log[i][Len(log[i])] = BootEntry(i, rows, key)
    BY <1>1 DEF EntriesFit
  <2>4. \A i \in Ids : BootEntry(i, rows, key)' = BootEntry(i, rows, key)
    BY <1>2 DEF BootEntry
  <2>5. QED
    BY <1>2, <2>1, <2>2, <2>3, <2>4 DEF EntriesFit, e
<1>13. ASSUME NEW d \in Clients PROVE MutationFits(d)'
  <2>1. CASE d # c
    <3>1. client'[d] = client[d] /\ MutationFits(d) /\ client[d].id \in Ids
      BY <1>1, <1>3, <2>1 DEF Others, RegistrationTypeOK
    <3>2. CASE Under(d)
      <4>1. table'[client[d].id] = table[client[d].id]
        BY <1>5, <1>9, <2>1, <3>1, <3>2
      <4>2. BootEntry(client[d].id, rows, key)' = BootEntry(client'[d].id, rows, key)
        BY <1>2 DEF BootEntry
      <4>3. QED
        BY <1>2, <3>1, <4>1, <4>2 DEF MutationFits
    <3>3. CASE ~Under(d)
      BY <3>1, <3>3 DEF MutationFits, Under
    <3>4. QED
      BY <3>2, <3>3
  <2>2. QED
    BY <1>3, <2>1, AnsweredFits
<1>14. ASSUME NEW d \in Clients PROVE ReaderFits(d)'
  <2>1. CASE d # c
    <3>1. client'[d] = client[d] /\ client[d].id \in Ids /\ ReaderFits(d)
      BY <1>1, <1>3, <2>1 DEF Others, RegistrationTypeOK
    <3>2. Len(log[client[d].id]) \in Nat
      BY <1>1, <3>1 DEF HistoryTypes
    <3>3. client[d].id \in registered /\ client[d].id \notin registered' =>
            log[client[d].id][Len(log[client[d].id])].source # "registry"
      BY <1>6, <1>7, <1>8
    <3>4. QED
      BY <1>1, <1>2, <3>1, <3>2, <3>3, ReaderKept
  <2>2. QED
    BY <1>3, <2>1, AnsweredFits
<1>15. QED
  BY <1>10, <1>11, <1>12, <1>13, <1>14 DEF RegistryInv

\* A start builds the table from the rows it can read, and nobody waits.
LEMMA RestartStep ==
    ASSUME RegistrationInv, Restart
    PROVE  RegistrationInv'
<1>1. RegistrationTypeOK /\ HistoryTypes /\ EnvironmentStays
  BY DEF RegistrationInv
<1>2. PICK k \in Keys \cup {"none"}, readable \in BOOLEAN :
        LET found == IF readable THEN rows ELSE [id \in Ids |-> NoRow]
        IN /\ key' = k
           /\ table' = [id \in Ids |-> BootEntry(id, found, k)]
           /\ registered' = {id \in DynIds : found[id] # NoRow}
           /\ faults' = IF readable THEN faults ELSE faults + 1
           /\ readable \/ faults < MaxFaults
           /\ doubtful' = {id \in DynIds : found[id] # rows[id]}
  BY DEF Restart
<1> DEFINE found == IF readable THEN rows ELSE [id \in Ids |-> NoRow]
<1>3. /\ restarts < MaxRestarts /\ restarts' = restarts + 1
      /\ poisoned' = {} /\ epoch' = Free /\ entry' = [id \in Ids |-> Free]
      /\ client' = [c \in Clients |-> NewClient]
      /\ log' = [id \in Ids |-> <<table'[id]>>]
      /\ answered' = [id \in Ids |-> 1]
      /\ rows' = rows /\ sent' = sent
  BY DEF Restart
<1>4. found \in [Ids -> Row \cup {NoRow}]
  BY <1>1 DEF RegistrationTypeOK
<1>5. /\ key' = k /\ table' = [id \in Ids |-> BootEntry(id, found, k)]
      /\ registered' = {id \in DynIds : found[id] # NoRow}
      /\ doubtful' = {id \in DynIds : found[id] # rows[id]}
  BY <1>2
<1>6. faults' \in 0 .. MaxFaults /\ restarts' \in 0 .. MaxRestarts
  BY <1>1, <1>2, <1>3, RegistrationAssumption DEF RegistrationTypeOK
<1> HIDE DEF found
<1>7. \A id \in Ids :
        /\ table'[id] = BootEntry(id, found, k) /\ table'[id] \in Connector \cup {None}
        /\ log'[id] = <<table'[id]>> /\ Len(log'[id]) = 1 /\ log'[id][1] = table'[id]
  BY <1>3, <1>4, <1>5, BootEntryType
<1>8. \A id \in Ids : <<table'[id]>> \in Seq(Connector \cup {None})
  BY <1>7
<1>9. RegistrationTypeOK' /\ HistoryTypes'
  <2>1. client' \in [Clients -> ClientSet]
    BY <1>3, NewClientType
  <2>2. table' \in [Ids -> Connector \cup {None}] /\ log' \in [Ids -> Seq(Connector \cup {None})]
    BY <1>3, <1>5, <1>7, <1>8
  <2>3. registered' \subseteq DynIds /\ poisoned' \subseteq Ids /\ doubtful' \subseteq Ids
    BY <1>3, <1>5 DEF Ids
  <2>4. \A id \in Ids : answered'[id] \in 1 .. Len(log'[id])
    BY <1>3, <1>7
  <2>5. answered' \in [Ids -> Nat]
    BY <1>3
  <2>6. QED
    BY <1>1, <1>3, <1>5, <1>6, <2>1, <2>2, <2>3, <2>4, <2>5 DEF RegistrationTypeOK, HistoryTypes, ClientSet
<1>10. \A c \in Clients : client'[c].pc = "idle" /\ client'[c].op = "none" /\ client'[c].answer = "none"
  BY <1>3 DEF NewClient
<1>11. (\A c \in Clients : ClientFits(c)') /\ LocksFit'
  BY <1>3, <1>10, RegistrationAssumption DEF ClientFits, LocksFit, Inside, Under, Free
<1>12. \A c \in Clients : MutationFits(c)' /\ ReaderFits(c)'
  BY <1>10, AnsweredFits
<1>13. EnvironmentStays'
  <2>1. \A id \in EnvIds : id \in Ids /\ id \notin DynIds
    BY RegistrationAssumption DEF Ids
  <2>2. \A id \in EnvIds : table'[id] = EnvConnector
    BY <1>7, <2>1 DEF BootEntry
  <2>3. QED
    BY <1>1, <1>3, <1>5, <1>10, <2>1, <2>2 DEF EnvironmentStays
<1>14. RegisteredFits'
  <2>1. \A id \in DynIds : table'[id].source # "env" /\ (table'[id].source = "registry" <=> found[id] # NoRow)
    BY <1>4, <1>7, BootEntryType DEF Ids
  <2>2. QED
    BY <1>3, <1>5, <2>1 DEF RegisteredFits
<1>15. EntriesFit'
  <2>1. ASSUME NEW id \in Ids \ doubtful' PROVE table'[id] = BootEntry(id, rows, k)
    <3>1. id \in EnvIds \/ found[id] = rows[id]
      BY <1>5 DEF Ids
    <3>2. QED
      BY <1>7, <3>1 DEF BootEntry
  <2>2. QED
    BY <1>3, <1>5, <1>7, <2>1 DEF EntriesFit
<1>16. QED
  BY <1>9, <1>11, <1>12, <1>13, <1>14, <1>15 DEF RegistrationInv

\* Nothing the invariant speaks of depends on the number of faults.
LEMMA RegistrationStays ==
    ASSUME RegistrationInv, faults' \in 0 .. MaxFaults,
           UNCHANGED <<rows, registryVars, lockVars, key, client, sent, restarts, historyVars>>
    PROVE  RegistrationInv'
<1> USE DEF registryVars, lockVars, historyVars
<1>1. RegistrationTypeOK' /\ HistoryTypes'
  BY DEF RegistrationInv, RegistrationTypeOK, HistoryTypes
<1>2. (\A c \in Clients : ClientFits(c)') /\ LocksFit'
  BY DEF RegistrationInv, ClientFits, LocksFit, Inside, Under
<1>3. EnvironmentStays' /\ RegisteredFits'
  BY DEF RegistrationInv, EnvironmentStays, RegisteredFits
<1>4. EntriesFit'
  BY DEF RegistrationInv, EntriesFit, BootEntry
<1>5. \A c \in Clients : MutationFits(c)' /\ ReaderFits(c)'
  BY DEF RegistrationInv, MutationFits, ReaderFits, BootEntry
<1>6. QED
  BY <1>1, <1>2, <1>3, <1>4, <1>5 DEF RegistrationInv

\* Whatever a client does keeps the invariant of the registration.
LEMMA RequestStep ==
    ASSUME RegistrationInv, NEW c \in Clients,
           ClientStep(c) \/ CommitFails(c) \/ \E op \in Ops, id \in Ids : Send(c, op, id)
    PROVE  RegistrationInv'
<1>1. RegistrationTypeOK' /\ HistoryTypes'
  BY ClientStepTypes
<1>2. (\A d \in Clients : ClientFits(d)') /\ LocksFit'
  BY ControlStep
<1>3. RegistryInv'
  <2>1. CASE Look(c)
    BY <1>1, <2>1, LookStep
  <2>2. CASE GetService(c) \/ ReadSource(c) \/ ResolveBinding(c)
    BY <1>1, <2>2, ReadStep
  <2>3. CASE \/ \E op \in Ops, id \in Ids : Send(c, op, id)
             \/ RefuseCreate(c) \/ TakeFirst(c) \/ TakeSecond(c) \/ RowRefused(c)
    BY <1>1, <2>3, WaitStep
  <2>4. CASE Commit(c) \/ CommitFails(c)
    BY <1>1, <2>4, CommitStep
  <2>5. CASE Register(c) \/ Replace(c) \/ Remove(c)
    BY <1>1, <2>5, ApplyStep
  <2>6. QED
    BY <2>1, <2>2, <2>3, <2>4, <2>5 DEF ClientStep
<1>4. QED
  BY <1>1, <1>2, <1>3 DEF RegistryInv, RegistrationInv

LEMMA RegistrationInit == Init => RegistrationInv
<1> SUFFICES ASSUME Init PROVE RegistrationInv
  OBVIOUS
<1>1. /\ rows = [id \in Ids |-> NoRow] /\ key = FirstKey
      /\ table = [id \in Ids |-> BootEntry(id, rows, key)]
      /\ registered = {} /\ poisoned = {} /\ doubtful = {}
      /\ epoch = Free /\ entry = [id \in Ids |-> Free]
      /\ client = [c \in Clients |-> NewClient]
      /\ sent = 0 /\ faults = 0 /\ restarts = 0
      /\ log = [id \in Ids |-> <<table[id]>>] /\ answered = [id \in Ids |-> 1]
  BY DEF Init
<1>2. rows \in [Ids -> Row \cup {NoRow}] /\ key \in Keys \cup {"none"}
  BY <1>1, RegistrationAssumption
<1>3. \A id \in Ids :
        /\ table[id] = BootEntry(id, rows, key) /\ table[id] \in Connector \cup {None}
        /\ log[id] = <<table[id]>> /\ Len(log[id]) = 1 /\ log[id][1] = table[id]
  BY <1>1, <1>2, BootEntryType
<1>4. RegistrationTypeOK /\ HistoryTypes
  <2>1. client \in [Clients -> ClientSet]
    BY <1>1, NewClientType
  <2>2. \A id \in Ids : <<table[id]>> \in Seq(Connector \cup {None})
    BY <1>3
  <2>3. table \in [Ids -> Connector \cup {None}] /\ log \in [Ids -> Seq(Connector \cup {None})]
    BY <1>1, <1>3, <2>2
  <2>4. \A id \in Ids : answered[id] \in 1 .. Len(log[id])
    BY <1>1, <1>3
  <2>5. sent \in 0 .. MaxOps /\ faults \in 0 .. MaxFaults /\ restarts \in 0 .. MaxRestarts
    BY <1>1, RegistrationAssumption
  <2>6. answered \in [Ids -> Nat]
    BY <1>1
  <2>7. epoch \in Clients \cup {Free} /\ entry \in [Ids -> Clients \cup {Free}]
    BY <1>1
  <2>8. QED
    BY <1>1, <1>2, <2>1, <2>3, <2>4, <2>5, <2>6, <2>7 DEF RegistrationTypeOK, HistoryTypes, ClientSet
<1>5. \A c \in Clients : client[c].pc = "idle" /\ client[c].op = "none" /\ client[c].answer = "none"
  BY <1>1 DEF NewClient
<1>6. (\A c \in Clients : ClientFits(c)) /\ LocksFit
  BY <1>1, <1>5, RegistrationAssumption DEF ClientFits, LocksFit, Inside, Under, Free
<1>7. \A c \in Clients : MutationFits(c) /\ ReaderFits(c)
  BY <1>5 DEF MutationFits, ReaderFits
<1>8. EnvironmentStays
  BY <1>1, <1>3, <1>5 DEF EnvironmentStays, BootEntry, Ids
<1>9. RegisteredFits
  <2>1. \A id \in DynIds : table[id] = None
    BY <1>1, <1>3, RegistrationAssumption DEF BootEntry, Ids
  <2>2. QED
    <3>1. None.source = "none"
      BY DEF None
    <3>2. QED
      BY <1>1, <2>1, <3>1 DEF RegisteredFits
<1>10. EntriesFit
  BY <1>1, <1>3 DEF EntriesFit
<1>11. QED
  BY <1>4, <1>6, <1>7, <1>8, <1>9, <1>10 DEF RegistrationInv

\* Whatever the sampler does besides.
LEMMA RegistrationInvStep == RegistrationInv /\ [Next]_allVars => RegistrationInv'
<1> SUFFICES ASSUME RegistrationInv, [Next]_allVars PROVE RegistrationInv'
  OBVIOUS
<1>1. faults \in 0 .. MaxFaults
  BY DEF RegistrationInv, RegistrationTypeOK
<1>2. CASE UNCHANGED vars
  BY <1>1, <1>2, RegistrationStays DEF vars, boundVars
<1>3. ASSUME NEW c \in Clients, Request(c) PROVE RegistrationInv'
  BY <1>3, RequestStep DEF Request
<1>4. CASE PersistFails
  <2>1. faults' \in 0 .. MaxFaults
    BY <1>1, <1>4, RegistrationAssumption DEF PersistFails
  <2>2. QED
    BY <1>4, <2>1, RegistrationStays DEF PersistFails
<1>5. CASE RestartAll
  BY <1>5, RestartStep DEF RestartAll
<1>6. QED
  BY <1>2, <1>3, <1>4, <1>5 DEF Next, CollectHost, RoundStep, TakeConnectors, ConnectorAnswers,
     ConnectorIsLate, Persist, LateAnswer, allVars

-----------------------------------------------------------------------------
(* Rounds *)

\* The step of a round leaves what was stored, and the samples of this round,
\* as they were.
LEMMA RoundGoesOn ==
    ASSUME RoundFits, round' \in RoundSet, UNCHANGED <<samples, rounds>>, hung' \in 0 .. Workers,
           round'.strange = {}, round'.pc # "sample" => round'.ids = {}, round'.todo \subseteq round'.ids,
           round'.no >= round.no, round'.pc # "sleep" => round'.no > 0,
           round'.pc # "sleep" => round'.no > round.no \/ round.pc # "sleep",
           \A s \in round'.results : s.round = round'.no /\ s.id \in round'.ids,
           \A id \in round'.ids \ round'.todo : [id |-> id, round |-> round'.no] \in round'.results
    PROVE  RoundFits'
<1>1. RoundsAreWhole'
  BY DEF RoundFits, RoundsAreWhole
<1>2. ASSUME NEW s \in samples PROVE s.round <= round'.no /\ (round'.pc # "sleep" => s.round < round'.no)
  <2>1. s.round <= round.no /\ (round.pc # "sleep" => s.round < round.no) /\ s.round \in Nat
    BY DEF RoundFits
  <2>2. round.no \in Nat /\ round'.no \in Nat
    BY DEF RoundFits, RoundSet
  <2>3. QED
    BY <2>1, <2>2
<1>3. QED
  BY <1>1, <1>2 DEF RoundFits

\* A round that begins or ends has nothing yet.
LEMMA IdleFits ==
    ASSUME NEW n \in 0 .. MaxRounds, NEW pc \in {"sleep", "take"}
    PROVE  /\ [Idle EXCEPT !.no = n, !.pc = pc] \in RoundSet
           /\ [Idle EXCEPT !.no = n] = [Idle EXCEPT !.no = n, !.pc = "sleep"]
           /\ [Idle EXCEPT !.no = n, !.pc = pc].no = n
           /\ [Idle EXCEPT !.no = n, !.pc = pc].pc = pc
           /\ [Idle EXCEPT !.no = n, !.pc = pc].todo = {}
           /\ [Idle EXCEPT !.no = n, !.pc = pc].ids = {}
           /\ [Idle EXCEPT !.no = n, !.pc = pc].strange = {}
           /\ [Idle EXCEPT !.no = n, !.pc = pc].results = {}
<1>1. ASSUME NEW p \in {"sleep", "take"}
      PROVE  [Idle EXCEPT !.no = n, !.pc = p] =
         [no |-> n, pc |-> p, todo |-> {}, ids |-> {}, strange |-> {}, results |-> {}]
  <2> DEFINE begun == [no |-> n, pc |-> "sleep", todo |-> {}, ids |-> {}, strange |-> {}, results |-> {}]
  <2>1. [Idle EXCEPT !.no = n] = begun
    BY DEF Idle
  <2>2. [begun EXCEPT !.pc = p] =
           [no |-> n, pc |-> p, todo |-> {}, ids |-> {}, strange |-> {}, results |-> {}]
    OBVIOUS
  <2>3. [Idle EXCEPT !.no = n, !.pc = p] = [[Idle EXCEPT !.no = n] EXCEPT !.pc = p]
    OBVIOUS
  <2>4. QED
    BY <2>1, <2>2, <2>3
<1>2. [Idle EXCEPT !.no = n] =
         [no |-> n, pc |-> "sleep", todo |-> {}, ids |-> {}, strange |-> {}, results |-> {}]
  BY DEF Idle
<1>3. [no |-> n, pc |-> pc, todo |-> {}, ids |-> {}, strange |-> {}, results |-> {}] \in RoundSet
  <2>1. {} \in SUBSET Ids /\ {} \in SUBSET [id : Ids, round : 1 .. MaxRounds]
    OBVIOUS
  <2>2. pc \in {"sleep", "take", "sample"}
    OBVIOUS
  <2>3. QED
    BY <2>1, <2>2 DEF RoundSet
<1>4. QED
  BY <1>1, <1>2, <1>3

\* While nobody holds the epoch the registry is what the rows ask for.
LEMMA NothingStrange ==
    ASSUME RegistrationInv, epoch = Free
    PROVE  {id \in Ids \ doubtful : ListConnectors[id] # BootEntry(id, rows, key)} = {}
<1>1. \A c \in Clients : ~Inside(c) /\ c # Free
  BY RegistrationAssumption DEF RegistrationInv, LocksFit, Free
<1>2. ASSUME NEW id \in Ids PROVE entry[id] = Free
  <2>1. entry[id] \in Clients \cup {Free}
    BY DEF RegistrationInv, RegistrationTypeOK
  <2>2. entry[id] \notin Clients
    BY <1>1 DEF RegistrationInv, LocksFit, Inside
  <2>3. QED
    BY <2>1, <2>2
<1>3. \A id \in Ids \ doubtful : ListConnectors[id] = BootEntry(id, rows, key)
  BY <1>2, FreeEntry DEF ListConnectors
<1>4. QED
  BY <1>3

\* The samples of a finished round are stored together, and earlier rounds are
\* kept or dropped as a whole.
LEMMA PersistKeepsRounds ==
    ASSUME RoundFits, Persist
    PROVE  RoundFits'
<1> DEFINE now == round.no
<1>1. /\ round.pc = "sample" /\ round.todo = {} /\ hung' = hung
      /\ samples' = {s \in samples \cup round.results : s.round + Keep >= now}
      /\ rounds' = [rounds EXCEPT ![now] = round.ids]
      /\ round' = [Idle EXCEPT !.no = now]
  BY DEF Persist, Kept
<1>2. /\ now \in 1 .. MaxRounds /\ round.ids \subseteq Ids /\ Keep \in Nat /\ MaxRounds \in Nat
      /\ round.results \subseteq [id : Ids, round : 1 .. MaxRounds]
  BY <1>1, SamplerAssumption DEF RoundFits, RoundSet
<1>3. /\ round' \in RoundSet /\ round'.no = now /\ round'.pc = "sleep" /\ round'.strange = {}
      /\ round'.todo = {} /\ round'.ids = {} /\ round'.results = {}
  <2>1. now \in 0 .. MaxRounds
    BY <1>2
  <2> HIDE DEF now
  <2>2. QED
    BY <1>1, <2>1, IdleFits
<1>4. \A s \in round.results : s.round = now /\ s.id \in round.ids
  BY DEF RoundFits
<1>5. \A id \in round.ids : [id |-> id, round |-> now] \in round.results
  BY <1>1 DEF RoundFits
<1>6. \A s \in samples : s.round < now /\ s.round \in 1 .. MaxRounds
  BY <1>1 DEF RoundFits
<1> HIDE DEF now
<1>7. samples' \subseteq [id : Ids, round : 1 .. MaxRounds]
  BY <1>1, <1>2 DEF RoundFits
<1>8. rounds' \in [1 .. MaxRounds -> SUBSET Ids]
  BY <1>1, <1>2 DEF RoundFits
<1>9. \A s \in samples' : s.round <= now
  BY <1>1, <1>2, <1>4, <1>6
<1>10. ASSUME NEW n \in 1 .. MaxRounds, NEW x \in {s \in samples' : s.round = n}
       PROVE  {s.id : s \in {t \in samples' : t.round = n}} = rounds'[n]
  <2>1. CASE n = now
    <3>1. {t \in samples' : t.round = n} = round.results
      BY <1>1, <1>2, <1>4, <1>6, <2>1
    <3>2. \A id \in round.ids : \E s \in round.results : s.id = id
      BY <1>5
    <3>3. {s.id : s \in round.results} = round.ids
      BY <1>4, <3>2
    <3>4. rounds'[n] = round.ids
      BY <1>1, <1>2, <2>1 DEF RoundFits
    <3>5. QED
      BY <3>1, <3>3, <3>4
  <2>2. CASE n # now
    <3>1. x \in samples /\ x.round = n /\ n + Keep >= now
      BY <1>1, <1>4, <2>2
    <3>2. {t \in samples' : t.round = n} = {t \in samples : t.round = n}
      BY <1>1, <1>4, <2>2, <3>1
    <3>3. {s.id : s \in {t \in samples : t.round = n}} = rounds[n]
      BY <3>1 DEF RoundFits, RoundsAreWhole
    <3>4. rounds'[n] = rounds[n]
      BY <1>1, <1>2, <2>2 DEF RoundFits
    <3>5. QED
      BY <3>2, <3>3, <3>4
  <2>3. QED
    BY <2>1, <2>2
<1>11. RoundsAreWhole'
  BY <1>10 DEF RoundsAreWhole
<1>12. QED
  BY <1>1, <1>3, <1>7, <1>8, <1>9, <1>11 DEF RoundFits

LEMMA RoundFitsStep == RegistrationInv /\ RoundFits /\ [Next]_allVars => RoundFits'
<1> SUFFICES ASSUME RegistrationInv, RoundFits, [Next]_allVars PROVE RoundFits'
  OBVIOUS
<1>1. /\ round \in RoundSet /\ round.no \in 0 .. MaxRounds /\ hung \in 0 .. Workers /\ hung \in Nat
      /\ MaxRounds \in Nat /\ Workers \in Nat /\ 0 \in 0 .. Workers
  BY SamplerAssumption DEF RoundFits, RoundSet
<1>2. CASE CollectHost
  <2>1. /\ round' = [Idle EXCEPT !.no = round.no + 1, !.pc = "take"]
        /\ round.no + 1 \in 0 .. MaxRounds /\ UNCHANGED <<samples, rounds>>
        /\ hung' \in 0 .. Workers
    BY <1>1, <1>2 DEF CollectHost, InThread
  <2>2. /\ round' \in RoundSet /\ round'.no = round.no + 1 /\ round'.strange = {}
        /\ round'.todo = {} /\ round'.ids = {} /\ round'.results = {} /\ round'.pc = "take"
    BY <2>1, IdleFits
  <2>3. QED
    BY <1>1, <2>1, <2>2, RoundGoesOn
<1>3. CASE TakeConnectors
  <2> DEFINE shown == Shown(ListConnectors)
  <2>1. /\ round.pc = "take" /\ UNCHANGED <<samples, rounds, hung>>
        /\ round' = [round EXCEPT !.pc = "sample", !.ids = shown, !.todo = shown, !.strange = {}]
    BY <1>3, NothingStrange DEF TakeConnectors, ListGuard
  <2>2. shown \subseteq Ids
    BY DEF Shown
  <2> HIDE DEF shown
  <2>3. /\ round' \in RoundSet /\ round'.no = round.no /\ round'.strange = {} /\ round'.pc = "sample"
        /\ round'.todo = shown /\ round'.ids = shown /\ round'.results = round.results
    BY <1>1, <2>1, <2>2 DEF RoundSet
  <2>4. \A s \in round'.results : s.round = round'.no /\ s.id \in round'.ids
    BY <2>1, <2>3 DEF RoundFits
  <2>5. QED
    <3>1. \A id \in round'.ids \ round'.todo : [id |-> id, round |-> round'.no] \in round'.results
      BY <2>3
    <3>2. round'.no >= round.no /\ round'.no > 0 /\ round.pc # "sleep"
      BY <1>1, <2>1, <2>3 DEF RoundFits
    <3>3. round'.todo \subseteq round'.ids
      BY <2>3
    <3>4. QED
      BY <1>1, <2>1, <2>3, <2>4, <3>1, <3>2, <3>3, RoundGoesOn
<1>4. ASSUME NEW id \in Ids, ConnectorAnswers(id) \/ ConnectorIsLate(id) PROVE RoundFits'
  <2> DEFINE sample == [id |-> id, round |-> round.no]
  <2>1. /\ round.pc = "sample" /\ id \in round.todo /\ UNCHANGED <<samples, rounds>>
        /\ round' = [round EXCEPT !.todo = @ \ {id}, !.results = @ \cup {sample}]
        /\ hung' \in 0 .. Workers
    BY <1>1, <1>4 DEF ConnectorAnswers, ConnectorIsLate, Turn, Store, LateIsUnavailable, ThreadsTaken, InThread
  <2>2. sample \in [id : Ids, round : 1 .. MaxRounds] /\ sample.round = round.no /\ sample.id = id
    BY <1>1, <2>1 DEF RoundFits
  <2> HIDE DEF sample
  <2>3. /\ round' \in RoundSet /\ round'.no = round.no /\ round'.strange = round.strange /\ round'.pc = round.pc
        /\ round'.todo = round.todo \ {id} /\ round'.ids = round.ids
        /\ round'.results = round.results \cup {sample}
    BY <1>1, <2>1, <2>2 DEF RoundSet
  <2>4. \A s \in round'.results : s.round = round'.no /\ s.id \in round'.ids
    BY <2>1, <2>2, <2>3 DEF RoundFits
  <2>5. \A i \in round'.ids \ round'.todo : [id |-> i, round |-> round'.no] \in round'.results
    BY <2>3 DEF RoundFits, sample
  <2>6. QED
    BY <1>1, <2>1, <2>3, <2>4, <2>5, RoundGoesOn DEF RoundFits
<1>5. CASE Persist
  BY <1>5, PersistKeepsRounds
<1>6. CASE PersistFails \/ RestartAll
  <2>1. /\ round' = [Idle EXCEPT !.no = round.no] /\ UNCHANGED <<samples, rounds>>
        /\ hung' \in 0 .. Workers
    BY <1>1, <1>6 DEF PersistFails, RestartAll
  <2>2. /\ round' \in RoundSet /\ round'.no = round.no /\ round'.strange = {}
        /\ round'.todo = {} /\ round'.ids = {} /\ round'.results = {} /\ round'.pc = "sleep"
    BY <1>1, <2>1, IdleFits
  <2>3. QED
    BY <1>1, <2>1, <2>2, RoundGoesOn
<1>7. CASE LateAnswer
  <2>1. hung' \in 0 .. Workers /\ UNCHANGED <<round, samples, rounds>>
    BY <1>1, <1>7 DEF LateAnswer
  <2>2. QED
    BY <2>1 DEF RoundFits, RoundsAreWhole
<1>8. CASE UNCHANGED samplerVars
  BY <1>8 DEF samplerVars, RoundFits, RoundsAreWhole
<1>9. QED
  BY <1>2, <1>3, <1>4, <1>5, <1>6, <1>7, <1>8 DEF Next, Request, RoundStep, allVars

\* Registration and rounds keep their invariants in every behaviour.
LEMMA ServicesInvHolds == Spec => [](RegistrationInv /\ RoundFits)
<1>1. SamplerInit => RegistrationInv /\ RoundFits
  <2> SUFFICES ASSUME SamplerInit PROVE RegistrationInv /\ RoundFits
    OBVIOUS
  <2>1. RegistrationInv
    BY RegistrationInit DEF SamplerInit
  <2>2. round \in RoundSet
    BY SamplerAssumption DEF SamplerInit, Idle, RoundSet
  <2>3. RoundFits
    BY <2>2, SamplerAssumption DEF SamplerInit, Idle, RoundFits, RoundsAreWhole
  <2>4. QED
    BY <2>1, <2>3
<1>2. RegistrationInv /\ RoundFits /\ [Next]_allVars => (RegistrationInv /\ RoundFits)'
  BY RegistrationInvStep, RoundFitsStep
<1>3. QED
  BY <1>1, <1>2, PTL DEF Spec

-----------------------------------------------------------------------------
(* The properties of the run *)

\* Whatever the constants, an entry of the table that nobody guards is what its
\* committed row asks for, poison falls only on what is in doubt, and an answer
\* shows what the service was at some moment since it was asked.
THEOREM RegistryAlwaysFollowsTheRows == Spec => []RegistryFollowsTheRows
<1>1. RegistrationInv /\ RoundFits => RegistryFollowsTheRows
  <2> SUFFICES ASSUME RegistrationInv, RoundFits PROVE RegistryFollowsTheRows
    OBVIOUS
  <2>1. TypeOK
    BY DEF RegistrationInv, RoundFits, RoundSet, TypeOK
  <2>2. RowsAndTableAgree
    <3>1. ASSUME NEW id \in Ids \ doubtful, entry[id] = Free
          PROVE  table[id] = BootEntry(id, rows, key) /\ (id \in registered <=> table[id].source = "registry")
      <4>1. id \in EnvIds => id \notin registered /\ table[id].source = "env"
        BY DEF RegistrationInv, EnvironmentStays, EnvConnector
      <4>2. id \in DynIds => (id \in registered <=> table[id].source = "registry")
        BY DEF RegistrationInv, RegisteredFits
      <4>3. QED
        BY <3>1, <4>1, <4>2, FreeEntry DEF Ids
    <3>2. QED
      BY <3>1 DEF RowsAndTableAgree
  <2>3. PoisonNeedsADoubt
    BY DEF PoisonNeedsADoubt, RegistrationInv, RegisteredFits, EnvironmentStays
  <2>4. AnswersAreCurrent
    <3>1. ASSUME NEW c \in Clients PROVE client[c].answer = "found" => client[c].op = "read"
      BY DEF RegistrationInv, ClientFits
    <3>2. QED
      BY <3>1 DEF AnswersAreCurrent, ReadsSeeWhatWasAnswered, SourceFitsTheService, RegistrationInv, ReaderFits
  <2>5. QED
    BY <2>1, <2>2, <2>3, <2>4 DEF RegistryFollowsTheRows
<1>2. QED
  BY <1>1, ServicesInvHolds, PTL

\* Whatever the constants, a stored round has one sample for every connector it
\* took, and it took the committed services of one moment.
THEOREM StoredRoundsAreAlwaysTrue == Spec => []StoredRoundsAreTrue
<1>1. RoundFits => StoredRoundsAreTrue
  BY DEF RoundFits, StoredRoundsAreTrue, RoundsTakeCommittedServices
<1>2. QED
  BY <1>1, ServicesInvHolds, PTL
=============================================================================

------------------------ MODULE ModelProvidersProofs ------------------------
(***************************************************************************)
(* The tables of the model providers agree, for any number of clients,     *)
(* keys, roles, providers and refused writes.                              *)
(***************************************************************************)
EXTENDS ModelBuilds, FiniteSetTheorems, TLAPS

-----------------------------------------------------------------------------
(* The inductive invariant *)

Answers == {"none", "key_reused", "replayed", "created", "error", "not_found", "done"}

Fields == {"pc", "op", "slot", "no", "content", "secret", "key", "role", "row", "was", "answer"}

\* The type of a request, field by field.
IsRequest(r) ==
    /\ DOMAIN r = Fields
    /\ r.pc \in Steps /\ r.op \in Ops \cup {"none"} /\ r.slot \in 0 .. MaxProviders
    /\ r.no \in 0 .. MaxOps /\ r.content \in Contents \cup {"none", "mock", "real"}
    /\ r.secret \in Secrets \cup Statuses
    /\ r.key \in IdemKeys \cup {"none"} /\ r.role \in Roles \cup {"none"}
    /\ r.row \in Provider \cup {NoProvider} /\ r.was \in Assignment \cup {NoAssignment}
    /\ r.answer \in Answers

Birth == (IdemKeys \cup {"none"}) \X ((Contents \cup {"none"}) \X (Secrets))

\* What a request carries fits the step it has reached; `late` are the keys that have expired.
RequestFits(r, late) ==
    /\ r.pc # "idle" => r.answer = "none"
    /\ r.op = "create" =>
         /\ r.key \in IdemKeys /\ r.content \in Contents /\ r.secret \in Contents \cup {"none"}
         /\ r.slot # 0 => r.key \in late
    /\ r.op \in {"update", "activate", "verify", "delete", "assign"} => r.slot \in Slots
    /\ r.op \in {"assign", "unassign"} => r.role \in Roles
    /\ r.op \in {"update", "verify"} /\ r.pc \in {"ask", "reread", "write"} => r.row \in Provider
    /\ r.op = "update" /\ r.pc = "write" => r.content \in Contents /\ r.secret \in Secrets
    /\ r.op = "verify" /\ r.pc \in {"reread", "write"} => r.secret \in Statuses

ClientsFit ==
    /\ DOMAIN client = Clients
    /\ \A c \in Clients : IsRequest(client[c]) /\ RequestFits(client[c], lapsed)

TablesFit ==
    /\ provider \in [Slots -> Provider \cup {NoProvider}]
    /\ created \in Slots
    /\ keys \in [IdemKeys -> Key \cup {NoKey}]
    /\ assignment \in [Roles -> Assignment \cup {NoAssignment}]
    /\ mode \in {"none", "mock", "real"} /\ masterKey \in BOOLEAN
    /\ sent \in 0 .. MaxOps /\ faults \in 0 .. MaxFaults
    /\ born \in [Slots -> Birth]
    /\ lapsed \subseteq IdemKeys
    /\ \A slot \in Slots : slot > created => ~ Exists(slot)

\* One provider at most has the endpoint.
EndpointFits ==
    \A s, t \in Slots : provider[s].active = "diagnostic" /\ provider[t].active = "diagnostic" => s = t

\* A key names the provider it created, and until it expires it is the only key that does; a
\* provider whose key has not expired is the one the key names.
KeysFit ==
    \A k \in IdemKeys :
        /\ keys[k] # NoKey => Exists(keys[k].slot) /\ born[keys[k].slot] = <<k, keys[k].print>>
        /\ keys[k] # NoKey /\ keys[k].expired => k \in lapsed
        /\ k \notin lapsed =>
              \A s \in Slots : Exists(s) /\ born[s][1] = k => keys[k] # NoKey /\ keys[k].slot = s

ModelsInv ==
    ClientsFit /\ TablesFit /\ EndpointFits /\ AssignmentsHaveProviders /\ KeysFit

-----------------------------------------------------------------------------
(* Values *)

LEMMA NewClientFits == IsRequest(NewClient) /\ \A late : RequestFits(NewClient, late)
<1>1. IsRequest(NewClient)
  BY ProvidersAssumption DEF NewClient, IsRequest, Fields, Answers, Steps, Ops, Secrets, Statuses
<1>2. NewClient.pc = "idle" /\ NewClient.op = "none"
  BY DEF NewClient
<1> QED
  BY <1>1, <1>2 DEF RequestFits

\* what an answer leaves of a request
Answered(a) == [NewClient EXCEPT !.answer = a]

LEMMA AnswerFits ==
    ASSUME NEW a \in Answers
    PROVE  IsRequest(Answered(a)) /\ \A late : RequestFits(Answered(a), late)
<1>1. IsRequest(Answered(a))
  BY NewClientFits DEF IsRequest, Fields, Answered
<1>2. Answered(a).pc = "idle" /\ Answered(a).op = "none"
  BY DEF NewClient, Answered
<1> QED
  BY <1>1, <1>2 DEF RequestFits

LEMMA ProviderIsNone == NoProvider \notin Provider
  BY ProvidersAssumption DEF NoProvider, Provider

\* What a session writes of a row is a row, and a column it left alone is as it was.
LEMMA FlushIsRow ==
    ASSUME NEW row \in Provider, NEW read \in Provider, NEW new \in Provider
    PROVE  /\ Flush(row, read, new) \in Provider
           /\ \A f \in {"content", "secret", "active", "status", "stamp"} :
                Flush(row, read, new)[f] = IF new[f] = read[f] THEN row[f] ELSE new[f]
<1>1. DOMAIN row = {"content", "secret", "active", "status", "stamp"}
  BY DEF Provider
<1>2. Flush(row, read, new)
        = [content |-> IF new.content = read.content THEN row.content ELSE new.content,
           secret |-> IF new.secret = read.secret THEN row.secret ELSE new.secret,
           active |-> IF new.active = read.active THEN row.active ELSE new.active,
           status |-> IF new.status = read.status THEN row.status ELSE new.status,
           stamp |-> IF new.stamp = read.stamp THEN row.stamp ELSE new.stamp]
  BY <1>1 DEF Flush
<1> QED
  BY <1>2 DEF Provider

\* What a session writes of an assignment: an insert is the new one, and an update leaves the
\* role assigned to the provider it names now or to the one of the request.
LEMMA FlushIsAssignment ==
    ASSUME NEW row \in Assignment \cup {NoAssignment}, NEW read \in Assignment \cup {NoAssignment},
           NEW new \in Assignment, row = NoAssignment <=> read = NoAssignment
    PROVE  /\ Flush(row, read, new) \in Assignment
           /\ \/ Flush(row, read, new).slot = new.slot
              \/ row \in Assignment /\ Flush(row, read, new).slot = row.slot
<1>1. DOMAIN row = {"slot", "model"}
  BY DEF Assignment, NoAssignment
<1>2. Flush(row, read, new)
        = [slot |-> IF new.slot = read.slot THEN row.slot ELSE new.slot,
           model |-> IF new.model = read.model THEN row.model ELSE new.model]
  BY <1>1 DEF Flush
<1>3. CASE row \in Assignment
  BY <1>2, <1>3 DEF Assignment
<1>4. CASE row = NoAssignment
  <2>1. new.slot # read.slot /\ new.model # read.model
    BY <1>4, ProvidersAssumption DEF Assignment, NoAssignment, Slots
  <2> QED
    BY <1>2, <2>1 DEF Assignment
<1> QED
  BY <1>3, <1>4

-----------------------------------------------------------------------------
(* Steps that only move a request *)

\* One request moves to a state that fits it, while keys only ever expire.
LEMMA ClientsKeep ==
    ASSUME ClientsFit, NEW c \in Clients, NEW r, IsRequest(r), RequestFits(r, lapsed),
           lapsed \subseteq lapsed', client' = [client EXCEPT ![c] = r]
    PROVE  ClientsFit'
<1>1. DOMAIN client' = Clients /\ \A d \in Clients : IsRequest(client'[d])
  BY DEF ClientsFit
<1>2. ASSUME NEW d \in Clients PROVE RequestFits(client'[d], lapsed')
  <2>1. RequestFits(client'[d], lapsed)
    BY DEF ClientsFit
  <2> QED
    BY <2>1 DEF RequestFits
<1> QED
  BY <1>1, <1>2 DEF ClientsFit

Tables == TablesFit /\ EndpointFits /\ AssignmentsHaveProviders /\ KeysFit

LEMMA TablesKeep ==
    ASSUME Tables, UNCHANGED stored, sent' \in 0 .. MaxOps
    PROVE  Tables'
  BY DEF Tables, TablesFit, EndpointFits, AssignmentsHaveProviders, KeysFit, stored, Exists

LEMMA RequestMoves ==
    ASSUME ModelsInv, NEW c \in Clients, NEW r, IsRequest(r), RequestFits(r, lapsed),
           UNCHANGED stored, sent' \in 0 .. MaxOps, client' = [client EXCEPT ![c] = r]
    PROVE  ModelsInv'
<1>1. lapsed \subseteq lapsed'
  BY DEF stored
<1>2. ClientsFit'
  BY <1>1, ClientsKeep DEF ModelsInv
<1>3. Tables'
  BY TablesKeep DEF ModelsInv, Tables
<1> QED
  BY <1>2, <1>3 DEF ModelsInv, Tables

LEMMA RequestEnds ==
    ASSUME ModelsInv, NEW c \in Clients, NEW a \in Answers, Answer(c, a), UNCHANGED <<stored, sent>>
    PROVE  ModelsInv'
<1>1. client' = [client EXCEPT ![c] = Answered(a)]
  BY DEF Answer, Answered
<1>2. sent' \in 0 .. MaxOps
  BY DEF ModelsInv, TablesFit
<1> QED
  BY <1>1, <1>2, AnswerFits, RequestMoves

LEMMA RequestGoesOn ==
    ASSUME ModelsInv, NEW c \in Clients, NEW r, IsRequest(r), RequestFits(r, lapsed),
           Continue(c, r), UNCHANGED <<stored, sent>>
    PROVE  ModelsInv'
<1>1. sent' \in 0 .. MaxOps
  BY DEF ModelsInv, TablesFit
<1> QED
  BY <1>1, RequestMoves DEF Continue

LEMMA SendsFit ==
    ASSUME ModelsInv, NEW c \in Clients, SendCreate(c) \/ SendOther(c)
    PROVE  ModelsInv'
<1>1. ASSUME NEW r, IsRequest(r), RequestFits(r, lapsed), Send(c, r)
      PROVE  ModelsInv'
  <2>1. UNCHANGED stored /\ sent' \in 0 .. MaxOps
    BY <1>1, ProvidersAssumption DEF Send, stored, ModelsInv, TablesFit
  <2> QED
    BY <1>1, <2>1, RequestMoves DEF Send
<1>2. ASSUME NEW op \in Ops, sent < MaxOps
      PROVE  /\ IsRequest(Request(op))
             /\ Request(op).op = op /\ Request(op).pc = "read" /\ Request(op).answer = "none"
             /\ Request(op).slot = 0
  <2>1. sent + 1 \in 0 .. MaxOps
    BY <1>2, ProvidersAssumption DEF ModelsInv, TablesFit
  <2>2. IsRequest(Request(op))
    BY <2>1, NewClientFits DEF Request, IsRequest, Fields, Steps
  <2> QED
    BY <2>2 DEF Request, NewClient
<1>3. CASE SendCreate(c)
  <2>1. PICK k \in IdemKeys, x \in Contents, s \in Contents \cup {"none"} :
          Send(c, [Request("create") EXCEPT !.key = k, !.content = x, !.secret = s])
    BY <1>3 DEF SendCreate
  <2> DEFINE r == [Request("create") EXCEPT !.key = k, !.content = x, !.secret = s]
  <2>2. sent < MaxOps
    BY <2>1 DEF Send
  <2>3. LET q == Request("create") IN
        IsRequest(q) /\ q.op = "create" /\ q.answer = "none" /\ q.slot = 0
    BY <1>2, <2>2 DEF Ops
  <2>4. IsRequest(r)
    BY <2>3 DEF IsRequest, Fields, Secrets
  <2>5. RequestFits(r, lapsed)
    BY <2>3 DEF RequestFits, IsRequest, Fields
  <2> QED
    BY <1>1, <2>1, <2>4, <2>5
<1>4. ASSUME NEW op \in {"update", "activate", "verify", "delete"}, NEW slot \in 1 .. created,
             Send(c, [Request(op) EXCEPT !.slot = slot,
                                         !.pc = IF op = "activate" THEN "write" ELSE "read"])
      PROVE  ModelsInv'
  <2> DEFINE r == [Request(op) EXCEPT !.slot = slot,
                                      !.pc = IF op = "activate" THEN "write" ELSE "read"]
  <2>1. op \in Ops /\ sent < MaxOps /\ slot \in Slots
    BY <1>4, ProvidersAssumption DEF Send, Ops, ModelsInv, TablesFit, Slots
  <2>2. IsRequest(r)
    BY <1>2, <2>1, ProvidersAssumption DEF IsRequest, Fields, Steps, Slots
  <2>3. /\ r.answer = "none" /\ r.op = op /\ r.pc \in {"read", "write"}
        /\ r.op # "activate" => r.pc = "read"
        /\ r.slot \in Slots
    BY <1>2, <2>1 DEF IsRequest, Fields
  <2>4. RequestFits(r, lapsed)
    BY <2>3 DEF RequestFits
  <2> QED
    BY <1>1, <1>4, <2>2, <2>4
<1>5. ASSUME NEW role \in Roles, NEW slot \in 1 .. created,
             Send(c, [Request("assign") EXCEPT !.role = role, !.slot = slot])
      PROVE  ModelsInv'
  <2> DEFINE r == [Request("assign") EXCEPT !.role = role, !.slot = slot]
  <2>1. sent < MaxOps /\ slot \in Slots
    BY <1>5, ProvidersAssumption DEF Send, ModelsInv, TablesFit, Slots
  <2>2. IsRequest(r)
    BY <1>2, <2>1, ProvidersAssumption DEF IsRequest, Fields, Ops, Slots
  <2>3. r.answer = "none" /\ r.op = "assign" /\ r.slot \in Slots /\ r.role \in Roles
    BY <1>2, <2>1 DEF IsRequest, Fields, Ops
  <2>4. RequestFits(r, lapsed)
    BY <2>3 DEF RequestFits
  <2> QED
    BY <1>1, <1>5, <2>2, <2>4
<1>6. ASSUME NEW role \in Roles, Send(c, [Request("unassign") EXCEPT !.role = role])
      PROVE  ModelsInv'
  <2> DEFINE r == [Request("unassign") EXCEPT !.role = role]
  <2>1. sent < MaxOps
    BY <1>6 DEF Send
  <2>2. IsRequest(r)
    BY <1>2, <2>1 DEF IsRequest, Fields, Ops
  <2>3. RequestFits(r, lapsed)
    BY <1>2, <2>1 DEF RequestFits, IsRequest, Fields, Ops
  <2> QED
    BY <1>1, <1>6, <2>2, <2>3
<1>7. CASE Send(c, Request("mode"))
  <2>1. sent < MaxOps
    BY <1>7 DEF Send
  <2>2. IsRequest(Request("mode")) /\ RequestFits(Request("mode"), lapsed)
    BY <1>2, <2>1 DEF RequestFits, Ops
  <2> QED
    BY <1>1, <1>7, <2>2
<1> QED
  BY <1>3, <1>4, <1>5, <1>6, <1>7 DEF SendOther

\* The steps that read: they answer, or go on with what they read.
LEMMA ReadsFit ==
    ASSUME ModelsInv, NEW c \in Clients,
           \/ CreateReads(c) \/ Ask(c) \/ DeleteReads(c) \/ AssignReads(c) \/ ModeReads(c)
           \/ \E op \in {"update", "verify"} : ReadsProvider(c, op) \/ Rereads(c, op)
    PROVE  ModelsInv'
<1> DEFINE r == client[c]
<1>1. IsRequest(r) /\ RequestFits(r, lapsed)
  BY DEF ModelsInv, ClientsFit
<1>2. ASSUME NEW a \in {"key_reused", "replayed", "not_found"}, Answer(c, a),
             UNCHANGED <<stored, sent>>
      PROVE  ModelsInv'
  BY <1>2, RequestEnds DEF Answers
<1>3. CASE CreateReads(c)
  <2> DEFINE k == keys[r.key]
             s == [r EXCEPT !.pc = "write", !.slot = k.slot]
  <2>1. UNCHANGED <<stored, sent>> /\ r.op = "create" /\ r.pc = "read"
    BY <1>3 DEF CreateReads, At
  <2>2. CASE Answer(c, "key_reused") \/ Answer(c, "replayed")
    BY <1>2, <2>1, <2>2
  <2>3. CASE Continue(c, s) /\ (k = NoKey \/ k.expired)
    <3>1. k \in Key \cup {NoKey} /\ (k # NoKey => r.key \in lapsed)
      BY <1>1, <2>1, <2>3 DEF RequestFits, ModelsInv, TablesFit, KeysFit
    <3>2. k.slot \in 0 .. MaxProviders /\ (k.slot # 0 => k # NoKey)
      BY <3>1, ProvidersAssumption DEF Key, NoKey, Slots
    <3>3. IsRequest(s)
      BY <1>1, <3>2 DEF IsRequest, Fields, Steps
    <3>4. RequestFits(s, lapsed)
      BY <1>1, <2>1, <3>1, <3>2 DEF RequestFits, IsRequest, Fields
    <3> QED
      BY <2>1, <2>3, <3>3, <3>4, RequestGoesOn
  <2> QED
    BY <1>3, <2>2, <2>3 DEF CreateReads
<1>4. ASSUME NEW op \in {"update", "verify"}, ReadsProvider(c, op)
      PROVE  ModelsInv'
  <2> DEFINE s == [r EXCEPT !.row = provider[r.slot],
                            !.pc = IF op = "verify" THEN "ask" ELSE "reread"]
  <2>1. UNCHANGED <<stored, sent>> /\ r.op = op /\ r.pc = "read"
    BY <1>4 DEF ReadsProvider, At
  <2>2. CASE Answer(c, "not_found")
    BY <1>2, <2>1, <2>2
  <2>3. CASE Exists(r.slot) /\ Continue(c, s)
    <3>1. provider[r.slot] \in Provider
      BY <1>1, <2>1, <2>3 DEF RequestFits, ModelsInv, TablesFit, Exists
    <3>2. IsRequest(s)
      BY <1>1, <3>1 DEF IsRequest, Fields, Steps
    <3>3. RequestFits(s, lapsed)
      BY <1>1, <2>1, <3>1 DEF RequestFits, IsRequest, Fields
    <3> QED
      BY <2>1, <2>3, <3>2, <3>3, RequestGoesOn
  <2> QED
    BY <1>4, <2>2, <2>3 DEF ReadsProvider
<1>5. CASE Ask(c)
  <2>1. PICK outcome \in {"ok", "failed", "timeout"} :
          Continue(c, [r EXCEPT !.pc = "reread", !.secret = outcome])
    BY <1>5 DEF Ask
  <2> DEFINE s == [r EXCEPT !.pc = "reread", !.secret = outcome]
  <2>2. UNCHANGED <<stored, sent>> /\ r.op = "verify" /\ r.pc = "ask"
    BY <1>5 DEF Ask, At
  <2>3. IsRequest(s)
    BY <1>1 DEF IsRequest, Fields, Steps, Statuses
  <2>4. RequestFits(s, lapsed)
    BY <1>1, <2>2 DEF RequestFits, IsRequest, Fields, Statuses
  <2> QED
    BY <2>1, <2>2, <2>3, <2>4, RequestGoesOn
<1>6. ASSUME NEW op \in {"update", "verify"}, Rereads(c, op)
      PROVE  ModelsInv'
  <2> DEFINE again == [r EXCEPT !.row = provider[r.slot], !.pc = "write"]
  <2>1. UNCHANGED <<stored, sent>> /\ r.op = op /\ r.pc = "reread"
    BY <1>6 DEF Rereads, At
  <2>2. CASE Answer(c, "not_found")
    BY <1>2, <2>1, <2>2
  <2>3. CASE Exists(r.slot)
    <3>1. provider[r.slot] \in Provider /\ r.row \in Provider
      BY <1>1, <2>1, <2>3 DEF RequestFits, ModelsInv, TablesFit, Exists
    <3>2. IsRequest(again) /\ again.row \in Provider /\ again.pc = "write"
      BY <1>1, <3>1 DEF IsRequest, Fields, Steps
    <3>3. CASE op = "verify"
      <4>1. Continue(c, again)
        BY <1>6, <2>3, <3>3 DEF Rereads
      <4>2. RequestFits(again, lapsed)
        BY <1>1, <2>1, <3>2, <3>3 DEF RequestFits, IsRequest, Fields
      <4> QED
        BY <2>1, <3>2, <4>1, <4>2, RequestGoesOn
    <3>4. CASE op = "update"
      <4>1. PICK x \in Contents : \E s \in NewSecrets(r, x) :
              Continue(c, [again EXCEPT !.content = x, !.secret = s])
        BY <1>6, <2>3, <3>4 DEF Rereads
      <4>2. PICK s \in NewSecrets(r, x) : Continue(c, [again EXCEPT !.content = x, !.secret = s])
        BY <4>1
      <4> DEFINE t == [again EXCEPT !.content = x, !.secret = s]
      <4>3. s \in Secrets
        BY <3>1 DEF NewSecrets, Secrets, Provider
      <4>4. IsRequest(t)
        BY <3>2, <4>3 DEF IsRequest, Fields
      <4>5. t.op = "update" /\ t.pc = "write" /\ t.row \in Provider /\ t.answer = "none"
            /\ t.content \in Contents /\ t.secret \in Secrets /\ t.slot \in Slots
        BY <1>1, <2>1, <3>1, <3>4, <4>3 DEF RequestFits, IsRequest, Fields
      <4>6. RequestFits(t, lapsed)
        BY <4>5 DEF RequestFits
      <4> QED
        BY <2>1, <4>2, <4>4, <4>6, RequestGoesOn
    <3> QED
      BY <1>6, <3>3, <3>4
  <2> QED
    BY <1>6, <2>2, <2>3 DEF Rereads
<1>7. CASE DeleteReads(c)
  <2> DEFINE s == [r EXCEPT !.pc = "write"]
  <2>1. UNCHANGED <<stored, sent>> /\ r.op = "delete" /\ r.pc = "read"
    BY <1>7 DEF DeleteReads, At
  <2>2. IsRequest(s)
    BY <1>1 DEF IsRequest, Fields, Steps
  <2>3. RequestFits(s, lapsed)
    BY <1>1, <2>1 DEF RequestFits, IsRequest, Fields
  <2>4. Answer(c, "not_found") \/ Continue(c, s)
    BY <1>7 DEF DeleteReads
  <2> QED
    BY <1>2, <2>1, <2>2, <2>3, <2>4, RequestGoesOn
<1>8. CASE AssignReads(c)
  <2> DEFINE s == [r EXCEPT !.pc = "write", !.was = assignment[r.role]]
  <2>1. UNCHANGED <<stored, sent>> /\ r.op = "assign" /\ r.pc = "read"
    BY <1>8 DEF AssignReads, At
  <2>2. assignment[r.role] \in Assignment \cup {NoAssignment}
    BY <1>1, <2>1 DEF RequestFits, ModelsInv, TablesFit
  <2>3. IsRequest(s)
    BY <1>1, <2>2 DEF IsRequest, Fields, Steps
  <2>4. RequestFits(s, lapsed)
    BY <1>1, <2>1 DEF RequestFits, IsRequest, Fields
  <2>5. Answer(c, "not_found") \/ Continue(c, s)
    BY <1>8 DEF AssignReads
  <2> QED
    BY <1>2, <2>1, <2>3, <2>4, <2>5, RequestGoesOn
<1>9. CASE ModeReads(c)
  <2> DEFINE s == [r EXCEPT !.pc = "write", !.content = mode]
  <2>1. UNCHANGED <<stored, sent>> /\ r.op = "mode" /\ r.pc = "read" /\ Continue(c, s)
    BY <1>9 DEF ModeReads, At
  <2>2. mode \in {"none", "mock", "real"}
    BY DEF ModelsInv, TablesFit
  <2>3. IsRequest(s)
    BY <1>1, <2>2 DEF IsRequest, Fields, Steps
  <2>4. RequestFits(s, lapsed)
    BY <1>1, <2>1 DEF RequestFits, IsRequest, Fields
  <2> QED
    BY <2>1, <2>3, <2>4, RequestGoesOn
<1> QED
  BY <1>3, <1>4, <1>5, <1>6, <1>7, <1>8, <1>9

-----------------------------------------------------------------------------
(* Steps that write *)

LEMMA AnswerKeepsClients ==
    ASSUME ModelsInv, NEW c \in Clients, NEW a \in Answers, Answer(c, a),
           lapsed \subseteq lapsed'
    PROVE  ClientsFit'
<1>1. client' = [client EXCEPT ![c] = Answered(a)]
  BY DEF Answer, Answered
<1> QED
  BY <1>1, AnswerFits, ClientsKeep DEF ModelsInv

\* Rows that change stay with their provider, whose endpoint is the same.
LEMMA RowsChange ==
    ASSUME Tables, provider' \in [Slots -> Provider \cup {NoProvider}],
           \A s \in Slots : (provider'[s] = NoProvider) = (provider[s] = NoProvider),
           UNCHANGED <<created, keys, assignment, mode, masterKey, sent, faults, born, lapsed>>,
           EndpointFits'
    PROVE  Tables'
<1>1. \A s \in Slots : Exists(s)' = Exists(s)
  BY DEF Exists
<1>2. TablesFit'
  BY <1>1 DEF Tables, TablesFit
<1>3. AssignmentsHaveProviders'
  BY <1>1 DEF Tables, TablesFit, AssignmentsHaveProviders, Assignment
<1>4. KeysFit'
  BY <1>1 DEF Tables, TablesFit, KeysFit, Key
<1> QED
  BY <1>2, <1>3, <1>4 DEF Tables

LEMMA CreateWritesFits ==
    ASSUME ModelsInv, NEW c \in Clients, CreateWrites(c)
    PROVE  ModelsInv'
<1> DEFINE r == client[c]
           k == r.key
           print == <<r.content, r.secret>>
           new == created + 1
<1>1. IsRequest(r) /\ RequestFits(r, lapsed)
  BY DEF ModelsInv, ClientsFit
<1>2. /\ k \in IdemKeys /\ r.content \in Contents /\ r.secret \in Contents \cup {"none"}
      /\ r.slot # 0 => k \in lapsed
  BY <1>1 DEF CreateWrites, At, RequestFits
<1>3. UNCHANGED <<assignment, mode, masterKey, sent, faults, lapsed>>
  BY DEF CreateWrites
<1>4. CASE KeyIsFree(r)
  <2>1. /\ created' = new /\ new \in Slots
        /\ provider' = [provider EXCEPT ![new] =
                          [NoProvider EXCEPT !.content = r.content, !.secret = r.secret]]
        /\ keys' = [keys EXCEPT ![k] = [slot |-> new, print |-> print, expired |-> FALSE]]
        /\ born' = [born EXCEPT ![new] = <<k, print>>]
        /\ Answer(c, "created")
    BY <1>4, ProvidersAssumption DEF CreateWrites, ModelsInv, TablesFit, Slots
  <2>2. ClientsFit'
    BY <1>3, <2>1, AnswerKeepsClients DEF Answers
  <2> DEFINE row == [NoProvider EXCEPT !.content = r.content, !.secret = r.secret]
  <2>3. row \in Provider /\ row.active = "none"
    <3>1. /\ row.content = r.content /\ row.secret = r.secret /\ row.active = "none"
          /\ row.status = "unknown" /\ row.stamp = 0
          /\ row = [f \in {"content", "secret", "active", "status", "stamp"} |-> row[f]]
      BY DEF NoProvider
    <3>2. r.secret \in Secrets /\ 0 \in 0 .. MaxOps
      BY <1>2, ProvidersAssumption DEF Secrets
    <3> QED
      BY <1>2, <3>1, <3>2 DEF Provider, Endpoints, Statuses
  <2>4. ~ Exists(new) /\ \A s \in Slots : s # new => provider'[s] = provider[s]
    BY <2>1, ProvidersAssumption DEF ModelsInv, TablesFit, Slots
  <2>5. provider' \in [Slots -> Provider \cup {NoProvider}] /\ provider'[new] = row
    BY <2>1, <2>3 DEF ModelsInv, TablesFit
  <2>6. \A s \in Slots : Exists(s)' <=> Exists(s) \/ s = new
    BY <2>3, <2>4, <2>5, ProviderIsNone DEF Exists
  <2>7. TablesFit'
    <3>1. keys' \in [IdemKeys -> Key \cup {NoKey}]
      BY <1>2, <2>1 DEF Key, Secrets, ModelsInv, TablesFit
    <3>2. born' \in [Slots -> Birth]
      BY <1>2, <2>1 DEF Birth, Secrets, ModelsInv, TablesFit
    <3>3. \A s \in Slots : s > created' => ~ Exists(s)'
      BY <2>1, <2>6, ProvidersAssumption DEF Slots, ModelsInv, TablesFit
    <3> QED
      BY <1>3, <2>1, <2>5, <3>1, <3>2, <3>3 DEF ModelsInv, TablesFit
  <2>8. EndpointFits'
    BY <2>3, <2>4, <2>5 DEF ModelsInv, EndpointFits
  <2>9. AssignmentsHaveProviders'
    BY <1>3, <2>6 DEF ModelsInv, TablesFit, AssignmentsHaveProviders, Assignment
  <2>10. KeysFit'
    <3> SUFFICES ASSUME NEW j \in IdemKeys
                 PROVE  /\ keys'[j] # NoKey => /\ provider'[keys'[j].slot] # NoProvider
                                               /\ born'[keys'[j].slot] = <<j, keys'[j].print>>
                        /\ keys'[j] # NoKey /\ keys'[j].expired => j \in lapsed'
                        /\ j \notin lapsed' => \A s \in Slots :
                              provider'[s] # NoProvider /\ born'[s][1] = j
                                => keys'[j] # NoKey /\ keys'[j].slot = s
      BY DEF KeysFit, Exists
    <3>1. born'[new] = <<k, print>> /\ \A s \in Slots : s # new => born'[s] = born[s]
      BY <2>1 DEF ModelsInv, TablesFit
    <3>2. CASE j = k
      <4>1. keys'[j] = [slot |-> new, print |-> print, expired |-> FALSE]
        BY <2>1, <3>2 DEF ModelsInv, TablesFit
      <4>2. keys'[j] # NoKey
        BY <2>1, <4>1, ProvidersAssumption DEF NoKey, Slots
      <4>3. k \notin lapsed => keys[k] = NoKey
        BY <1>2, <1>4 DEF KeyIsFree
      <4>4. k \notin lapsed => \A s \in Slots : Exists(s) => born[s][1] # k
        BY <1>2, <4>3 DEF ModelsInv, KeysFit
      <4> QED
        BY <1>3, <2>1, <2>6, <3>1, <3>2, <4>1, <4>2, <4>4 DEF Exists
    <3>3. CASE j # k
      <4>1. keys'[j] = keys[j] /\ keys[j] \in Key \cup {NoKey}
        BY <2>1, <3>3 DEF ModelsInv, TablesFit
      <4>2. keys[j] # NoKey => keys[j].slot \in Slots /\ keys[j].slot # new
        BY <2>4, <4>1 DEF ModelsInv, KeysFit, Key
      <4>3. born'[new][1] # j
        BY <3>1, <3>3
      <4> QED
        BY <1>3, <2>6, <3>1, <4>1, <4>2, <4>3 DEF ModelsInv, KeysFit, Exists
    <3> QED
      BY <3>2, <3>3
  <2> QED
    BY <2>2, <2>7, <2>8, <2>9, <2>10 DEF ModelsInv
<1>5. CASE ~ KeyIsFree(r)
  <2>1. Answer(c, "error") /\ UNCHANGED <<stored, sent>>
    BY <1>5 DEF CreateWrites, stored
  <2> QED
    BY <2>1, RequestEnds DEF Answers
<1> QED
  BY <1>4, <1>5

\* What an edit or a verification wants the row to be
Wanted(c, op) == IF op = "verify" THEN Verified(client[c]) ELSE Edited(client[c])

LEMMA WantedIsRow ==
    ASSUME ModelsInv, NEW c \in Clients, NEW op \in {"update", "verify"}, At(c, "write", op)
    PROVE  /\ client[c].slot \in Slots
           /\ client[c].row \in Provider
           /\ Wanted(c, op) \in Provider
           /\ Wanted(c, op).active = client[c].row.active
           /\ op = "verify" => /\ Wanted(c, op).content = client[c].row.content
                               /\ Wanted(c, op).secret = client[c].row.secret
           /\ op = "update" => /\ Wanted(c, op).status = "unknown"
                               /\ Wanted(c, op).stamp = 0
<1> DEFINE r == client[c]
<1>1. IsRequest(r) /\ RequestFits(r, lapsed)
  BY DEF ModelsInv, ClientsFit
<1>2. r.slot \in Slots /\ r.row \in Provider /\ r.no \in 0 .. MaxOps
  BY <1>1 DEF At, RequestFits, IsRequest
<1>3. CASE op = "verify"
  <2>1. r.secret \in Statuses
    BY <1>1, <1>3 DEF At, RequestFits
  <2> QED
    BY <1>2, <1>3, <2>1 DEF Wanted, Verified, Provider
<1>4. CASE op = "update"
  <2>1. r.content \in Contents /\ r.secret \in Secrets
    BY <1>1, <1>4 DEF At, RequestFits
  <2>2. EditKeepsStatus(r) \in Provider /\ EditKeepsStatus(r).active = r.row.active
    BY <1>2, <2>1 DEF EditKeepsStatus, Provider
  <2>3. 0 \in 0 .. MaxOps
    BY ProvidersAssumption
  <2> HIDE DEF r
  <2>4. /\ Edited(r) \in Provider /\ Edited(r).active = EditKeepsStatus(r).active
        /\ Edited(r).status = "unknown" /\ Edited(r).stamp = 0
    BY <2>2, <2>3 DEF Edited, Provider, Statuses
  <2> QED
    BY <1>2, <1>4, <2>2, <2>4 DEF Wanted, r
<1> QED
  BY <1>3, <1>4

\* An edit or a verification writes its columns over the row as it is by then.
LEMMA WritesOneRow ==
    ASSUME ModelsInv, NEW c \in Clients, NEW op \in {"update", "verify"}, Writes(c, op),
           Exists(client[c].slot)
    PROVE  /\ provider[client[c].slot] \in Provider
           /\ provider' = [provider EXCEPT ![client[c].slot] =
                Flush(provider[client[c].slot], client[c].row, Wanted(c, op))]
           /\ Flush(provider[client[c].slot], client[c].row, Wanted(c, op)) \in Provider
<1>1. At(c, "write", op) /\ WriteRow(c, Wanted(c, op))
  BY DEF Writes, Wanted
<1>2. client[c].slot \in Slots
  BY <1>1, WantedIsRow
<1>3. provider[client[c].slot] \in Provider
  BY <1>2 DEF ModelsInv, TablesFit, Exists
<1> QED
  BY <1>1, <1>3, WantedIsRow, FlushIsRow DEF WriteRow

LEMMA WritesFit ==
    ASSUME ModelsInv, NEW c \in Clients, NEW op \in {"update", "verify"}, Writes(c, op)
    PROVE  ModelsInv'
<1> DEFINE slot == client[c].slot
           row == Flush(provider[slot], client[c].row, Wanted(c, op))
<1>1. At(c, "write", op)
      /\ UNCHANGED <<created, keys, assignment, mode, masterKey, sent, faults, born, lapsed>>
  BY DEF Writes
<1>2. CASE Exists(slot)
  <2>1. /\ provider[slot] \in Provider /\ row \in Provider /\ slot \in Slots
        /\ provider' = [provider EXCEPT ![slot] = row]
    BY <1>1, <1>2, WritesOneRow, WantedIsRow
  <2>2. row.active = provider[slot].active
    BY <1>1, <2>1, WantedIsRow, FlushIsRow
  <2>3. /\ provider' \in [Slots -> Provider \cup {NoProvider}]
        /\ \A s \in Slots : (provider'[s] = NoProvider) = (provider[s] = NoProvider)
        /\ \A s \in Slots : provider'[s].active = provider[s].active
    BY <2>1, <2>2, ProviderIsNone DEF ModelsInv, TablesFit
  <2>4. EndpointFits'
    BY <2>3 DEF ModelsInv, EndpointFits
  <2>5. Tables'
    BY <1>1, <2>3, <2>4, RowsChange DEF ModelsInv, Tables
  <2>6. ClientsFit'
    BY <1>1, <1>2, AnswerKeepsClients DEF Writes, Answers
  <2> QED
    BY <2>5, <2>6 DEF ModelsInv, Tables
<1>3. CASE ~ Exists(slot)
  <2>1. Answer(c, "error") /\ UNCHANGED <<stored, sent>>
    BY <1>1, <1>3 DEF Writes, stored
  <2> QED
    BY <2>1, RequestEnds DEF Answers
<1> QED
  BY <1>2, <1>3

\* The endpoint goes to the provider, when there is one.
LEMMA ActivateMovesTheEndpoint ==
    ASSUME ModelsInv, NEW c \in Clients, Activate(c), Exists(client[c].slot)
    PROVE  /\ client[c].slot \in Slots
           /\ provider' \in [Slots -> Provider \cup {NoProvider}]
           /\ \A s \in Slots :
                /\ (provider'[s] = NoProvider) = (provider[s] = NoProvider)
                /\ provider'[s].active = "diagnostic" <=> s = client[c].slot
                /\ provider'[s].content = provider[s].content
                /\ provider'[s].secret = provider[s].secret
<1> DEFINE slot == client[c].slot
<1>1. RequestFits(client[c], lapsed)
  BY DEF ModelsInv, ClientsFit
<1>2. slot \in Slots
  BY <1>1 DEF Activate, At, RequestFits
<1>3. provider' = ActivatedFirst(slot)
  BY DEF Activate, Activated
<1>4. ASSUME NEW s \in Slots
      PROVE  /\ provider'[s] \in Provider \cup {NoProvider}
             /\ (provider'[s] = NoProvider) = (provider[s] = NoProvider)
             /\ provider'[s].active = "diagnostic" <=> s = slot
             /\ provider'[s].content = provider[s].content
             /\ provider'[s].secret = provider[s].secret
  <2>1. CASE Exists(s)
    <3>1. provider[s] \in Provider
      BY <2>1 DEF Exists, ModelsInv, TablesFit
    <3>2. provider'[s] = [provider[s] EXCEPT !.active =
             IF s = slot THEN "diagnostic"
             ELSE IF provider[s].active = "diagnostic" THEN "none" ELSE provider[s].active]
      BY <1>3, <2>1 DEF ActivatedFirst
    <3>3. provider'[s] \in Provider
      BY <3>1, <3>2 DEF Provider, Endpoints
    <3> QED
      BY <2>1, <3>1, <3>2, <3>3, ProviderIsNone DEF Provider, Exists
  <2>2. CASE ~ Exists(s)
    <3>1. provider[s] = NoProvider /\ s # slot
      BY <2>2 DEF Exists
    <3>2. provider'[s] = [NoProvider EXCEPT !.active = "none"]
      BY <1>3, <2>2, <3>1 DEF ActivatedFirst, NoProvider
    <3> QED
      BY <3>1, <3>2 DEF NoProvider
  <2> QED
    BY <2>1, <2>2
<1>5. provider' = [s \in Slots |-> provider'[s]]
  BY <1>3 DEF ActivatedFirst
<1> QED
  BY <1>2, <1>4, <1>5

LEMMA ActivateFits ==
    ASSUME ModelsInv, NEW c \in Clients, Activate(c)
    PROVE  ModelsInv'
<1>1. /\ UNCHANGED <<created, keys, assignment, mode, masterKey, sent, faults, born, lapsed>>
      /\ Answer(c, IF Exists(client[c].slot) THEN "done" ELSE "not_found")
  BY DEF Activate
<1>2. CASE Exists(client[c].slot)
  <2>1. EndpointFits'
    BY <1>2, ActivateMovesTheEndpoint DEF EndpointFits
  <2>2. Tables'
    BY <1>1, <1>2, <2>1, ActivateMovesTheEndpoint, RowsChange DEF ModelsInv, Tables
  <2>3. ClientsFit'
    BY <1>1, <1>2, AnswerKeepsClients DEF Answers
  <2> QED
    BY <2>2, <2>3 DEF ModelsInv, Tables
<1>3. CASE ~ Exists(client[c].slot)
  <2>1. Answer(c, "not_found") /\ UNCHANGED <<stored, sent>>
    BY <1>1, <1>3 DEF Activate, Activated, stored
  <2> QED
    BY <2>1, RequestEnds DEF Answers
<1> QED
  BY <1>2, <1>3

LEMMA DeleteWritesFits ==
    ASSUME ModelsInv, NEW c \in Clients, DeleteWrites(c)
    PROVE  ModelsInv'
<1> DEFINE slot == client[c].slot
<1>1. RequestFits(client[c], lapsed)
  BY DEF ModelsInv, ClientsFit
<1>2. /\ slot \in Slots
      /\ UNCHANGED <<created, mode, masterKey, sent, faults, born, lapsed>>
      /\ keys' = KeysWithout(slot) /\ assignment' = AssignmentsWithout(slot)
      /\ provider' = [provider EXCEPT ![slot] = NoProvider]
  BY <1>1 DEF DeleteWrites, At, RequestFits
<1>3. \A s \in Slots : provider'[s] = IF s = slot THEN NoProvider ELSE provider[s]
  BY <1>2 DEF ModelsInv, TablesFit
<1>4. ClientsFit'
  BY <1>2, AnswerKeepsClients DEF DeleteWrites, Answers
<1>5. \A k \in IdemKeys : keys'[k] = IF keys[k].slot = slot THEN NoKey ELSE keys[k]
  BY <1>2 DEF KeysWithout
<1>6. \A r \in Roles : assignment'[r] = IF assignment[r].slot = slot THEN NoAssignment
                                        ELSE assignment[r]
  BY <1>2 DEF AssignmentsWithout
<1>7. TablesFit'
  <2>1. provider' \in [Slots -> Provider \cup {NoProvider}]
    BY <1>2 DEF ModelsInv, TablesFit
  <2>2. keys' \in [IdemKeys -> Key \cup {NoKey}]
    BY <1>2 DEF KeysWithout, ModelsInv, TablesFit
  <2>3. assignment' \in [Roles -> Assignment \cup {NoAssignment}]
    BY <1>2 DEF AssignmentsWithout, ModelsInv, TablesFit
  <2> QED
    BY <1>2, <1>3, <2>1, <2>2, <2>3 DEF ModelsInv, TablesFit, Exists
<1>8. EndpointFits'
  BY <1>3 DEF ModelsInv, EndpointFits, NoProvider
<1>9. AssignmentsHaveProviders'
  BY <1>3, <1>6 DEF ModelsInv, TablesFit, AssignmentsHaveProviders, Assignment, Exists
<1>10. KeysFit'
  BY <1>2, <1>3, <1>5 DEF ModelsInv, TablesFit, KeysFit, Key, Exists
<1> QED
  BY <1>4, <1>7, <1>8, <1>9, <1>10 DEF ModelsInv

LEMMA AssignWritesFits ==
    ASSUME ModelsInv, NEW c \in Clients, AssignWrites(c)
    PROVE  ModelsInv'
<1> DEFINE r == client[c]
           now == assignment[r.role]
<1>1. IsRequest(r) /\ RequestFits(r, lapsed)
  BY DEF ModelsInv, ClientsFit
<1>2. /\ r.slot \in Slots /\ r.role \in Roles /\ r.was \in Assignment \cup {NoAssignment}
      /\ UNCHANGED <<provider, created, keys, mode, masterKey, sent, faults, born, lapsed>>
  BY <1>1 DEF AssignWrites, At, RequestFits, IsRequest
<1>3. CASE MayAssign(r)
  <2>1. PICK m \in Models \cup {"own"} : assignment' =
          [assignment EXCEPT ![r.role] = Flush(now, r.was, [slot |-> r.slot, model |-> m])]
    BY <1>3 DEF AssignWrites
  <2> DEFINE new == [slot |-> r.slot, model |-> m]
             row == Flush(now, r.was, new)
  <2>2. now \in Assignment \cup {NoAssignment} /\ new \in Assignment
    BY <1>2 DEF ModelsInv, TablesFit, Assignment
  <2>3. Exists(r.slot) /\ (now = NoAssignment <=> r.was = NoAssignment)
    BY <1>3 DEF MayAssign, MayAssignAny
  <2>4. row \in Assignment /\ (row.slot = r.slot \/ (now \in Assignment /\ row.slot = now.slot))
    BY <1>2, <2>2, <2>3, FlushIsAssignment
  <2>5. now \in Assignment => now # NoAssignment
    BY ProvidersAssumption DEF Assignment, NoAssignment, Slots
  <2>6. Exists(row.slot)
    BY <1>2, <2>3, <2>4, <2>5 DEF ModelsInv, AssignmentsHaveProviders
  <2>7. TablesFit'
    BY <1>2, <2>1, <2>4 DEF ModelsInv, TablesFit, Exists
  <2>8. AssignmentsHaveProviders'
    BY <1>2, <2>1, <2>6 DEF ModelsInv, TablesFit, AssignmentsHaveProviders, Exists
  <2>9. EndpointFits' /\ KeysFit'
    BY <1>2 DEF ModelsInv, EndpointFits, KeysFit, Exists
  <2>10. ClientsFit'
    BY <1>2, <1>3, AnswerKeepsClients DEF AssignWrites, Answers
  <2> QED
    BY <2>7, <2>8, <2>9, <2>10 DEF ModelsInv
<1>4. CASE ~ MayAssign(r)
  <2>1. Answer(c, "error") /\ UNCHANGED <<stored, sent>>
    BY <1>4 DEF AssignWrites, stored
  <2> QED
    BY <2>1, RequestEnds DEF Answers
<1> QED
  BY <1>3, <1>4

LEMMA UnassignFits ==
    ASSUME ModelsInv, NEW c \in Clients, Unassign(c)
    PROVE  ModelsInv'
<1>1. /\ assignment' = [assignment EXCEPT ![client[c].role] = NoAssignment]
      /\ UNCHANGED <<provider, created, keys, mode, masterKey, sent, faults, born, lapsed>>
      /\ Answer(c, "done")
  BY DEF Unassign
<1>2. ClientsFit'
  BY <1>1, AnswerKeepsClients DEF Answers
<1>3. TablesFit'
  BY <1>1 DEF ModelsInv, TablesFit, Exists
<1>4. AssignmentsHaveProviders'
  BY <1>1 DEF ModelsInv, TablesFit, AssignmentsHaveProviders, Exists
<1>5. EndpointFits' /\ KeysFit'
  BY <1>1 DEF ModelsInv, EndpointFits, KeysFit, Exists
<1> QED
  BY <1>2, <1>3, <1>4, <1>5 DEF ModelsInv

LEMMA ModeWritesFits ==
    ASSUME ModelsInv, NEW c \in Clients, ModeWrites(c)
    PROVE  ModelsInv'
<1>1. /\ mode' \in {"none", "mock", "real"}
      /\ UNCHANGED <<provider, created, keys, assignment, masterKey, sent, faults, born, lapsed>>
      /\ Answer(c, "error") \/ Answer(c, "done")
  BY DEF ModeWrites, ModelsInv, TablesFit
<1>2. ClientsFit'
  BY <1>1, AnswerKeepsClients DEF Answers
<1>3. TablesFit' /\ AssignmentsHaveProviders' /\ EndpointFits' /\ KeysFit'
  BY <1>1 DEF ModelsInv, TablesFit, AssignmentsHaveProviders, EndpointFits, KeysFit, Exists
<1> QED
  BY <1>2, <1>3 DEF ModelsInv

LEMMA WriteFailsFits ==
    ASSUME ModelsInv, NEW c \in Clients, WriteFails(c)
    PROVE  ModelsInv'
<1>1. /\ faults' \in 0 .. MaxFaults /\ Answer(c, "error")
      /\ UNCHANGED <<provider, created, keys, assignment, mode, masterKey, sent, born, lapsed>>
  BY ProvidersAssumption DEF WriteFails, ModelsInv, TablesFit
<1>2. ClientsFit'
  BY <1>1, AnswerKeepsClients DEF Answers
<1>3. TablesFit' /\ AssignmentsHaveProviders' /\ EndpointFits' /\ KeysFit'
  BY <1>1 DEF ModelsInv, TablesFit, AssignmentsHaveProviders, EndpointFits, KeysFit, Exists
<1> QED
  BY <1>2, <1>3 DEF ModelsInv

LEMMA KeyExpiresFits ==
    ASSUME ModelsInv, NEW k \in IdemKeys, KeyExpires(k)
    PROVE  ModelsInv'
<1>1. /\ keys[k] \in Key /\ keys' = [keys EXCEPT ![k].expired = TRUE]
      /\ lapsed' = lapsed \cup {k}
      /\ UNCHANGED <<provider, created, assignment, mode, masterKey, client, sent, faults, born>>
  BY DEF KeyExpires, ModelsInv, TablesFit
<1>2. /\ keys'[k] \in Key /\ keys'[k].slot = keys[k].slot /\ keys'[k].print = keys[k].print
      /\ \A j \in IdemKeys : j # k => keys'[j] = keys[j]
  BY <1>1 DEF Key, ModelsInv, TablesFit
<1>3. ClientsFit'
  BY <1>1 DEF ModelsInv, ClientsFit, RequestFits, IsRequest
<1>4. TablesFit'
  BY <1>1, <1>2 DEF ModelsInv, TablesFit, Exists
<1>5. AssignmentsHaveProviders' /\ EndpointFits'
  BY <1>1 DEF ModelsInv, AssignmentsHaveProviders, EndpointFits, Exists
<1>6. KeysFit'
  BY <1>1, <1>2 DEF ModelsInv, KeysFit, KeyExpires, Exists
<1> QED
  BY <1>3, <1>4, <1>5, <1>6 DEF ModelsInv

-----------------------------------------------------------------------------
(* The invariant *)

LEMMA ModelsInit == Init => ModelsInv
<1> SUFFICES ASSUME Init PROVE ModelsInv
  OBVIOUS
<1>1. PICK x \in Contents, a \in {"none", "diagnostic"} :
        provider = [slot \in Slots |->
          IF slot = 1 THEN [NoProvider EXCEPT !.content = x, !.secret = "old", !.active = a]
          ELSE NoProvider]
  BY DEF Init
<1> DEFINE row == [NoProvider EXCEPT !.content = x, !.secret = "old", !.active = a]
<1>2. row \in Provider
  <2>1. /\ row.content = x /\ row.secret = "old" /\ row.active = a
        /\ row.status = "unknown" /\ row.stamp = 0
        /\ row = [f \in {"content", "secret", "active", "status", "stamp"} |-> row[f]]
    BY DEF NoProvider
  <2>2. 0 \in 0 .. MaxOps
    BY ProvidersAssumption
  <2> QED
    BY <2>1, <2>2 DEF Provider, Secrets, Statuses, Endpoints
<1>3. provider \in [Slots -> Provider \cup {NoProvider}]
  BY <1>1, <1>2
<1>4. ClientsFit
  BY NewClientFits DEF Init, ClientsFit
<1>5. born \in [Slots -> Birth]
  BY DEF Init, Birth, Secrets
<1>6. TablesFit
  BY <1>1, <1>3, <1>5, ProvidersAssumption DEF Init, TablesFit, Slots, Exists
<1>7. EndpointFits
  BY <1>1 DEF EndpointFits, NoProvider
<1>8. AssignmentsHaveProviders
  BY DEF Init, AssignmentsHaveProviders
<1>9. KeysFit
  <2>1. \A s \in Slots : born[s][1] = "none"
    BY DEF Init
  <2> QED
    BY <2>1, ProvidersAssumption DEF Init, KeysFit
<1> QED
  BY <1>4, <1>6, <1>7, <1>8, <1>9 DEF ModelsInv

LEMMA ModelsStep == ModelsInv /\ [Next]_vars => ModelsInv'
<1> SUFFICES ASSUME ModelsInv, [Next]_vars PROVE ModelsInv'
  OBVIOUS
<1>1. ASSUME NEW c \in Clients, SendCreate(c) \/ SendOther(c)
      PROVE  ModelsInv'
  BY <1>1, SendsFit
<1>2. ASSUME NEW c \in Clients,
             \/ CreateReads(c) \/ Ask(c) \/ DeleteReads(c) \/ AssignReads(c) \/ ModeReads(c)
             \/ \E op \in {"update", "verify"} : ReadsProvider(c, op) \/ Rereads(c, op)
      PROVE  ModelsInv'
  BY <1>2, ReadsFit
<1>3. ASSUME NEW c \in Clients,
             \/ CreateWrites(c) \/ Activate(c) \/ DeleteWrites(c) \/ AssignWrites(c)
             \/ Unassign(c) \/ ModeWrites(c) \/ WriteFails(c)
             \/ \E op \in {"update", "verify"} : Writes(c, op)
      PROVE  ModelsInv'
  BY <1>3, CreateWritesFits, ActivateFits, DeleteWritesFits, AssignWritesFits, UnassignFits,
     ModeWritesFits, WriteFailsFits, WritesFit
<1>4. ASSUME NEW k \in IdemKeys, KeyExpires(k)
      PROVE  ModelsInv'
  BY <1>4, KeyExpiresFits
<1>5. CASE UNCHANGED vars
  BY <1>5 DEF vars, ModelsInv, ClientsFit, TablesFit, EndpointFits, AssignmentsHaveProviders,
              KeysFit, RequestFits, Exists
<1> QED
  BY <1>1, <1>2, <1>3, <1>4, <1>5 DEF Next

THEOREM ModelsInvHolds == Spec => []ModelsInv
  BY ModelsInit, ModelsStep, PTL DEF Spec

-----------------------------------------------------------------------------
(* What the tables promise *)

\* A set whose members are all the same has one member at most.
LEMMA AtMostOne ==
    ASSUME NEW S, \A s, t \in S : s = t
    PROVE  Cardinality(S) <= 1
<1>1. CASE S = {}
  BY <1>1, FS_EmptySet
<1>2. CASE S # {}
  <2>1. PICK s \in S : S = {s}
    BY <1>2
  <2>2. Cardinality({s}) = 1
    BY FS_Singleton
  <2> QED
    BY <2>1, <2>2
<1> QED
  BY <1>1, <1>2

LEMMA ModelsInvAgrees == ModelsInv => ModelTablesAgree
<1> SUFFICES ASSUME ModelsInv PROVE ModelTablesAgree
  OBVIOUS
<1>1. TypeOK
  BY DEF ModelsInv, ClientsFit, TablesFit, IsRequest, TypeOK
<1>2. OneActiveProvider
  BY AtMostOne DEF ModelsInv, EndpointFits, OneActiveProvider
<1>3. OneProviderPerKey
  <2> SUFFICES ASSUME NEW k \in IdemKeys, k \notin lapsed
               PROVE  Cardinality({slot \in Slots : Exists(slot) /\ born[slot][1] = k}) <= 1
    BY DEF OneProviderPerKey, ModelsInv, KeysFit
  <2> QED
    BY AtMostOne DEF ModelsInv, KeysFit
<1> QED
  BY <1>1, <1>2, <1>3 DEF ModelsInv, ModelTablesAgree

\* Providers, roles and keys refer to one another as the constraints of the tables and the
\* services that write them promise, however requests, retries, expiries and failures overlap:
\* one active endpoint at most, no role without its provider, one provider for a key.
THEOREM TablesOfModelsAgree == Spec => []ModelTablesAgree
  BY ModelsInvHolds, ModelsInvAgrees, PTL

-----------------------------------------------------------------------------
(* What a step never does *)

\* Which rows a step changes, and which columns of them
LEMMA ProviderSteps ==
    ASSUME ModelsInv, [Next]_vars, NEW s \in Slots, provider'[s] # provider[s]
    PROVE  \/ ~ Exists(s) /\ provider'[s].active = "none"
           \/ \E c \in Clients : DeleteWrites(c) /\ provider'[s] = NoProvider
           \/ \E c \in Clients : Activate(c) /\ Exists(client[c].slot)
           \/ \E c \in Clients, op \in {"update", "verify"} :
                /\ Writes(c, op) /\ Exists(s) /\ client[c].slot = s
                /\ provider[s] \in Provider
                /\ provider'[s] = Flush(provider[s], client[c].row, Wanted(c, op))
<1>1. ASSUME NEW c \in Clients, CreateWrites(c)
      PROVE  ~ Exists(s) /\ provider'[s].active = "none"
  <2>0. KeyIsFree(client[c])
    BY <1>1 DEF CreateWrites
  <2>1. /\ created + 1 > created
        /\ provider' = [provider EXCEPT ![created + 1] =
             [NoProvider EXCEPT !.content = client[c].content, !.secret = client[c].secret]]
    BY <1>1, <2>0 DEF CreateWrites, ModelsInv, TablesFit, Slots
  <2>2. s = created + 1
    BY <2>1 DEF ModelsInv, TablesFit
  <2> QED
    BY <2>1, <2>2 DEF NoProvider, ModelsInv, TablesFit
<1>2. ASSUME NEW c \in Clients, NEW op \in {"update", "verify"}, Writes(c, op)
      PROVE  /\ Exists(s) /\ client[c].slot = s /\ provider[s] \in Provider
             /\ provider'[s] = Flush(provider[s], client[c].row, Wanted(c, op))
  <2>1. Exists(client[c].slot)
    BY <1>2 DEF Writes
  <2> QED
    BY <1>2, <2>1, WritesOneRow DEF ModelsInv, TablesFit
<1>3. ASSUME NEW c \in Clients, DeleteWrites(c)
      PROVE  provider'[s] = NoProvider
  BY <1>3 DEF DeleteWrites, ModelsInv, TablesFit
<1>4. ASSUME NEW c \in Clients, Activate(c)
      PROVE  Exists(client[c].slot)
  BY <1>4 DEF Activate, Activated
<1>5. \/ \E c \in Clients : CreateWrites(c)
      \/ \E c \in Clients, op \in {"update", "verify"} : Writes(c, op)
      \/ \E c \in Clients : DeleteWrites(c)
      \/ \E c \in Clients : Activate(c)
  BY DEF Next, vars, SendCreate, SendOther, Send, CreateReads, ReadsProvider, Rereads, Ask,
         DeleteReads, AssignReads, AssignWrites, Unassign, ModeReads, ModeWrites, WriteFails,
         KeyExpires, stored
<1> QED
  BY <1>1, <1>2, <1>3, <1>4, <1>5

LEMMA EndpointStaysStep ==
    ModelsInv /\ [Next]_vars =>
        \A slot \in Slots :
          (provider[slot].active = "diagnostic" /\ provider'[slot].active # "diagnostic")
          => \/ provider'[slot] = NoProvider
             \/ \E s \in Slots \ {slot} : provider'[s].active = "diagnostic"
<1> SUFFICES ASSUME ModelsInv, [Next]_vars, NEW slot \in Slots,
                    provider[slot].active = "diagnostic", provider'[slot].active # "diagnostic"
             PROVE  \/ provider'[slot] = NoProvider
                    \/ \E s \in Slots \ {slot} : provider'[s].active = "diagnostic"
  OBVIOUS
<1>1. Exists(slot)
  BY DEF Exists, NoProvider
<1>2. ASSUME NEW c \in Clients, Activate(c), Exists(client[c].slot)
      PROVE  \E s \in Slots \ {slot} : provider'[s].active = "diagnostic"
  BY <1>2, ActivateMovesTheEndpoint
<1>3. ASSUME NEW c \in Clients, NEW op \in {"update", "verify"}, Writes(c, op),
             provider[slot] \in Provider,
             provider'[slot] = Flush(provider[slot], client[c].row, Wanted(c, op))
      PROVE  FALSE
  BY <1>3, WantedIsRow, FlushIsRow DEF Writes
<1> QED
  BY <1>1, <1>2, <1>3, ProviderSteps

\* A provider that serves the endpoint goes on until another takes over or it is deleted.
THEOREM EndpointAlwaysStaysServed == Spec => EndpointStaysServed
  BY ModelsInvHolds, EndpointStaysStep, PTL DEF Spec, EndpointStaysServed

LEMMA OnlyEditsStep ==
    ModelsInv /\ [Next]_vars =>
        \A slot \in Slots :
          (Exists(slot) /\ provider'[slot] # NoProvider
             /\ <<provider[slot].content, provider[slot].secret>>
                  # <<provider'[slot].content, provider'[slot].secret>>)
          => \E c \in Clients : At(c, "write", "update") /\ client[c].slot = slot
<1> SUFFICES ASSUME ModelsInv, [Next]_vars, NEW slot \in Slots, Exists(slot),
                    provider'[slot] # NoProvider,
                    \/ provider[slot].content # provider'[slot].content
                    \/ provider[slot].secret # provider'[slot].secret
             PROVE  \E c \in Clients : At(c, "write", "update") /\ client[c].slot = slot
  OBVIOUS
<1>1. ASSUME NEW c \in Clients, Activate(c), Exists(client[c].slot)
      PROVE  FALSE
  BY <1>1, ActivateMovesTheEndpoint
<1>2. ASSUME NEW c \in Clients, Writes(c, "verify"), provider[slot] \in Provider,
             provider'[slot] = Flush(provider[slot], client[c].row, Wanted(c, "verify"))
      PROVE  FALSE
  BY <1>2, WantedIsRow, FlushIsRow DEF Writes
<1>3. \A c \in Clients : Writes(c, "update") => At(c, "write", "update")
  BY DEF Writes
<1> QED
  BY <1>1, <1>2, <1>3, ProviderSteps

LEMMA EditsTakeBackStep ==
    ModelsInv /\ [Next]_vars =>
        \A c \in Clients :
          (At(c, "write", "update") /\ client'[c].answer = "done"
             /\ provider[client[c].slot] = client[c].row)
          => provider'[client[c].slot].status = "unknown"
             /\ provider'[client[c].slot].stamp = 0
<1> SUFFICES ASSUME ModelsInv, [Next]_vars, NEW c \in Clients, At(c, "write", "update"),
                    client'[c].answer = "done", provider[client[c].slot] = client[c].row
             PROVE  /\ provider'[client[c].slot].status = "unknown"
                    /\ provider'[client[c].slot].stamp = 0
  OBVIOUS
<1> DEFINE slot == client[c].slot
<1>1. client'[c] # client[c] /\ client[c].pc = "write" /\ client[c].op = "update"
  BY DEF At, ModelsInv, ClientsFit, RequestFits
<1>2. Writes(c, "update") /\ Exists(slot)
  <2>1. ASSUME NEW d \in Clients, NEW a, Answer(d, a)
        PROVE  d = c /\ a = "done"
    <3>1. client' = [client EXCEPT ![d] = [NewClient EXCEPT !.answer = a]]
      BY <2>1 DEF Answer
    <3>2. d = c
      BY <1>1, <3>1 DEF ModelsInv, ClientsFit
    <3> QED
      BY <3>1, <3>2 DEF ModelsInv, ClientsFit, NewClient
  <2>2. ASSUME NEW d \in Clients, NEW r, Continue(d, r)
        PROVE  d = c
    BY <1>1, <2>2 DEF Continue, ModelsInv, ClientsFit
  <2>3. ASSUME NEW d \in Clients, NEW r, Send(d, r)
        PROVE  d = c
    BY <1>1, <2>3 DEF Send, ModelsInv, ClientsFit
  <2>4. ~ \E d \in Clients : SendCreate(d) \/ SendOther(d)
    BY <1>1, <2>3 DEF SendCreate, SendOther, Send
  <2>5. ~ \E d \in Clients : CreateReads(d) \/ DeleteReads(d) \/ AssignReads(d) \/ ModeReads(d)
                              \/ Ask(d)
    BY <1>1, <2>1, <2>2 DEF CreateReads, DeleteReads, AssignReads, ModeReads, Ask, At
  <2>6. ~ \E d \in Clients, op \in {"update", "verify"} : ReadsProvider(d, op) \/ Rereads(d, op)
    BY <1>1, <2>1, <2>2 DEF ReadsProvider, Rereads, At
  <2>7. ~ \E d \in Clients : \/ CreateWrites(d) \/ Activate(d) \/ DeleteWrites(d)
                              \/ AssignWrites(d) \/ Unassign(d) \/ ModeWrites(d) \/ WriteFails(d)
    <3> SUFFICES ASSUME NEW d \in Clients,
                        \/ CreateWrites(d) \/ Activate(d) \/ DeleteWrites(d)
                        \/ AssignWrites(d) \/ Unassign(d) \/ ModeWrites(d) \/ WriteFails(d)
                 PROVE  FALSE
      OBVIOUS
    <3>1. \E a : Answer(d, a)
      BY DEF CreateWrites, Activate, DeleteWrites, AssignWrites, Unassign, ModeWrites, WriteFails
    <3>2. d = c
      BY <2>1, <3>1
    <3>3. WriteFails(c)
      BY <1>1, <3>2 DEF CreateWrites, Activate, DeleteWrites, AssignWrites, Unassign, ModeWrites, At
    <3> QED
      BY <2>1, <3>3 DEF WriteFails
  <2>8. ~ \E k \in IdemKeys : KeyExpires(k)
    BY <1>1 DEF KeyExpires
  <2>9. PICK d \in Clients, op \in {"update", "verify"} : Writes(d, op)
    BY <1>1, <2>4, <2>5, <2>6, <2>7, <2>8 DEF Next, vars
  <2>10. CASE Exists(client[d].slot)
    <3>1. Answer(d, "done")
      BY <2>9, <2>10 DEF Writes
    <3>2. d = c
      BY <2>1, <3>1
    <3> QED
      BY <1>1, <2>9, <2>10, <3>2 DEF Writes, At
  <2>11. CASE ~ Exists(client[d].slot)
    <3>1. Answer(d, "error")
      BY <2>9, <2>11 DEF Writes
    <3> QED
      BY <2>1, <3>1
  <2> QED
    BY <2>10, <2>11
<1>3. /\ provider[slot] \in Provider /\ client[c].row \in Provider /\ slot \in Slots
      /\ provider' = [provider EXCEPT ![slot] =
           Flush(provider[slot], client[c].row, Wanted(c, "update"))]
      /\ Wanted(c, "update") \in Provider
      /\ Wanted(c, "update").status = "unknown" /\ Wanted(c, "update").stamp = 0
  BY <1>2, WritesOneRow, WantedIsRow
<1>4. provider'[slot] = Flush(provider[slot], client[c].row, Wanted(c, "update"))
  BY <1>3 DEF ModelsInv, TablesFit
<1> QED
  BY <1>3, <1>4, FlushIsRow

\* A connection is what its last edit made it, an edit that nothing overlaps takes the outcome
\* of the verification before it back, and what serves goes on until another takes over.
THEOREM ConnectionsAlwaysAsEdited == Spec => ConnectionsAreAsEdited
  BY ModelsInvHolds, OnlyEditsStep, EditsTakeBackStep, EndpointStaysStep, PTL
     DEF Spec, ConnectionsAreAsEdited, OnlyEditsTouchTheConnection, EditsTakeTheOutcomeBack,
         EndpointStaysServed

-----------------------------------------------------------------------------
(* What is read while the tables change *)

Configs == [key : EnvKeys \cup {"none"} \cup Contents, content : {"none", "env"} \cup Contents,
            model : {"none", "own"} \cup Models]
Steady == [mode : BOOLEAN, serving : BOOLEAN, roles : SUBSET Roles]
Reading == [pc : {"none", "config", "mode", "assignments", "providers", "done"},
            how : {"none", "build", "roles"}, config : Configs, mode : {"none", "mock", "real"},
            assigned : [Roles -> Assignment \cup {NoAssignment}], roles : [Roles -> Configs],
            names : [Roles -> Provider \cup {NoProvider}], lost : SUBSET {"config", "mode", "roles"},
            steady : Steady]

\* What a build has read of the connection, before the mock mode is put over it: what serves,
\* if that has stayed, and else a configuration some row or the environment has.
ServedOrEnv(config) ==
    IF Usable(Serving) THEN config = ResolvedProviderConfig(Serving) ELSE config \in EnvConfigs
SomeConfig(config) ==
    \/ config \in EnvConfigs
    \/ config.key \in Contents /\ config.content \in Contents
ConfigFits(x) ==
    x.how = "build" /\ x.pc # "config" /\ x.mode # "mock" =>
        /\ SomeConfig(x.config)
        /\ x.steady.serving /\ "config" \notin x.lost => ServedOrEnv(x.config)

\* A build has its mode once it is past the mode; the mock mode ends it there.
ModeFits(x) ==
    x.how = "build" =>
        /\ x.pc \notin {"config", "mode"} => x.mode # "none"
        /\ x.pc \in {"config", "mode"} => x.mode = "none"
        /\ x.mode = "mock" => x.config.key = "mock" /\ x.pc = "done"
        /\ x.mode # "none" /\ x.steady.mode /\ mode # "none" /\ "mode" \notin x.lost => x.mode = mode

\* What has been read of a role is what there is, where that has stayed.
RolesFit(x) ==
    /\ x.pc # "done" \/ x.mode = "mock" => \A r \in Roles : x.roles[r] = NoConfig
    /\ \A r \in x.steady.roles :
         /\ x.pc = "providers" \/ (x.how = "roles" /\ x.pc = "done") => x.assigned[r] = assignment[r]
         /\ x.how = "roles" /\ x.pc = "done" => x.names[r] = RowOf(assignment[r])
         /\ x.how = "build" /\ x.pc = "done" /\ x.mode = "real" /\ "roles" \notin x.lost
              => x.roles[r] = RoleConfig(assignment[r], RowOf(assignment[r]))

ReadingFits(x) ==
    /\ x \in Reading
    /\ x.pc \in {"config", "mode"} => x.how = "build"
    /\ x.pc # "none" => x.how # "none"
    /\ ConfigFits(x) /\ ModeFits(x) /\ RolesFit(x)

BuildInv == ModelsInv /\ ReadingFits(reading)

LEMMA ServingIsRow == TablesFit => Serving \in Provider \cup {NoProvider}
  BY DEF TablesFit, Serving

LEMMA ResolvedIsConfig ==
    ASSUME NEW row \in Provider \cup {NoProvider}
    PROVE  /\ ResolvedProviderConfig(row) \in Configs
           /\ Usable(row) => /\ ResolvedProviderConfig(row).key = row.secret
                             /\ ResolvedProviderConfig(row).content = row.content
                             /\ row.secret \in Contents /\ row.content \in Contents
           /\ ~ Usable(row) => ResolvedProviderConfig(row) = NoConfig
  BY DEF ResolvedProviderConfig, Usable, Configs, NoConfig, Provider

LEMMA RoleConfigIsConfig ==
    ASSUME NEW a \in Assignment \cup {NoAssignment}, NEW row \in Provider \cup {NoProvider}
    PROVE  /\ RoleConfig(a, row) \in Configs
           /\ a # NoAssignment /\ Usable(row) =>
                 /\ RoleConfig(a, row).key = row.secret /\ RoleConfig(a, row).content = row.content
                 /\ RoleConfig(a, row).model = a.model
                 /\ RoleConfig(a, row) # NoConfig
           /\ ~ (a # NoAssignment /\ Usable(row)) => RoleConfig(a, row) = NoConfig
<1>1. NoConfig \in Configs
  BY DEF NoConfig, Configs
<1>2. CASE a # NoAssignment /\ Usable(row)
  <2>1. RoleConfig(a, row) = [key |-> row.secret, content |-> row.content, model |-> a.model]
    BY <1>2 DEF RoleConfig, ResolvedProviderConfig
  <2>2. row.secret \in Contents /\ row.content \in Contents /\ row.secret # "none"
    BY <1>2, ProvidersAssumption DEF Usable, Provider
  <2>3. a.model \in Models \cup {"own"}
    BY <1>2 DEF Assignment
  <2>4. RoleConfig(a, row).key # NoConfig.key
    BY <2>1, <2>2 DEF NoConfig
  <2> QED
    BY <1>2, <2>1, <2>2, <2>3, <2>4 DEF Configs
<1>3. CASE ~ (a # NoAssignment /\ Usable(row))
  BY <1>1, <1>3 DEF RoleConfig
<1> QED
  BY <1>2, <1>3

LEMMA NoReadingFits == ReadingFits(NoReading)
<1>1. NoConfig \in Configs
  BY DEF NoConfig, Configs
<1>2. /\ NoReading.pc = "none" /\ NoReading.how = "none" /\ NoReading.mode = "none"
      /\ NoReading.steady = [mode |-> TRUE, serving |-> TRUE, roles |-> Roles]
      /\ NoReading.roles = [r \in Roles |-> NoConfig]
      /\ NoReading \in Reading
  BY <1>1 DEF NoReading, Reading, Steady
<1> QED
  BY <1>2 DEF ReadingFits, ConfigFits, ModeFits, RolesFit

\* A reader leaves the tables and the requests alone.
LEMMA ReaderKeepsModels ==
    ASSUME ModelsInv, faults' \in 0 .. MaxFaults,
           UNCHANGED <<provider, created, keys, assignment, mode, masterKey, client, sent, born, lapsed>>
    PROVE  ModelsInv'
<1>1. ClientsFit'
  BY DEF ModelsInv, ClientsFit, RequestFits, IsRequest
<1>2. TablesFit' /\ AssignmentsHaveProviders' /\ EndpointFits' /\ KeysFit'
  BY DEF ModelsInv, TablesFit, AssignmentsHaveProviders, EndpointFits, KeysFit, Exists
<1> QED
  BY <1>1, <1>2 DEF ModelsInv

\* What fits the tables fits them while they stay.
LEMMA FitsStay ==
    ASSUME NEW x, ReadingFits(x), UNCHANGED <<provider, assignment, mode, masterKey>>, reading' = x
    PROVE  ReadingFits(reading)'
  BY DEF ReadingFits, ConfigFits, SomeConfig, ServedOrEnv, ModeFits, RolesFit, Usable, Serving,
         ResolvedProviderConfig, RowOf, RoleConfig

LEMMA ReaderStep ==
    ASSUME BuildInv, NEW lost \in BOOLEAN, NEW x, ReadingFits(x), Reads(x),
           Loses(lost) \/ UNCHANGED faults
    PROVE  BuildInv'
<1>1. faults' \in 0 .. MaxFaults
  BY ProvidersAssumption DEF BuildInv, ModelsInv, TablesFit, Loses
<1>2. ModelsInv'
  BY <1>1, ReaderKeepsModels DEF BuildInv, Reads
<1>3. ReadingFits(reading)'
  BY FitsStay DEF Reads
<1> QED
  BY <1>2, <1>3 DEF BuildInv

LEMMA BeginFits ==
    ASSUME BuildInv, NEW how \in {"build", "roles"}, Begin(how)
    PROVE  BuildInv'
<1> DEFINE x == [NoReading EXCEPT !.how = how, !.pc = IF how = "roles" THEN "assignments" ELSE "config"]
<1>1. NoReading \in Reading /\ NoReading.mode = "none" /\ NoReading.roles = [r \in Roles |-> NoConfig]
  BY NoReadingFits DEF ReadingFits, NoReading
<1>2. x \in Reading /\ x.mode = "none" /\ x.how = how /\ x.roles = [r \in Roles |-> NoConfig]
      /\ x.pc = IF how = "roles" THEN "assignments" ELSE "config"
  BY <1>1 DEF Reading
<1>3. ReadingFits(x)
  BY <1>2 DEF ReadingFits, ConfigFits, ModeFits, RolesFit
<1> QED
  BY <1>3, ReaderStep DEF Begin

LEMMA ReadConfigFits ==
    ASSUME BuildInv, NEW lost \in BOOLEAN, ReadConfig(lost)
    PROVE  BuildInv'
<1>1. PICK env \in EnvConfigs :
        Reads([reading EXCEPT !.pc = "mode", !.config = IF lost THEN env ELSE ModelConfig(Serving, env),
                              !.lost = IF lost THEN @ \cup {"config"} ELSE @])
  BY DEF ReadConfig
<1> DEFINE c == IF lost THEN env ELSE ModelConfig(Serving, env)
           x == [reading EXCEPT !.pc = "mode", !.config = c,
                                !.lost = IF lost THEN @ \cup {"config"} ELSE @]
<1>2. Serving \in Provider \cup {NoProvider}
  BY ServingIsRow DEF BuildInv, ModelsInv
<1>3. env \in Configs
  BY DEF EnvConfigs, Configs, NoConfig, EnvKeys
<1>4. c \in Configs /\ SomeConfig(c) /\ (~ lost => ServedOrEnv(c))
  <2>1. CASE lost \/ ~ Usable(Serving)
    <3>1. c = env
      BY <2>1 DEF ModelConfig
    <3> QED
      BY <1>3, <2>1, <3>1 DEF SomeConfig, ServedOrEnv
  <2>2. CASE ~ lost /\ Usable(Serving)
    <3>1. c = ResolvedProviderConfig(Serving)
      BY <2>2 DEF ModelConfig
    <3> QED
      BY <1>2, <2>2, <3>1, ResolvedIsConfig DEF SomeConfig, ServedOrEnv
  <2> QED
    BY <2>1, <2>2
<1>5. /\ reading \in Reading /\ reading.how = "build" /\ reading.pc = "config"
      /\ reading.mode = "none" /\ RolesFit(reading)
  BY DEF BuildInv, ReadingFits, ModeFits, ReadConfig
<1> HIDE DEF c
<1>6. /\ x \in Reading /\ x.pc = "mode" /\ x.how = "build" /\ x.mode = "none" /\ x.config = c
      /\ x.roles = reading.roles /\ x.steady = reading.steady /\ (lost => "config" \in x.lost)
  BY <1>4, <1>5 DEF Reading
<1> HIDE DEF x
<1>7. ConfigFits(x)
  BY <1>4, <1>6 DEF ConfigFits
<1>8. ModeFits(x) /\ RolesFit(x)
  BY <1>5, <1>6 DEF ModeFits, RolesFit
<1>9. ReadingFits(x)
  BY <1>6, <1>7, <1>8 DEF ReadingFits
<1> QED
  BY <1>1, <1>9, ReaderStep DEF ReadConfig, x, c

LEMMA ReadModeFits ==
    ASSUME BuildInv, NEW lost \in BOOLEAN, ReadMode(lost)
    PROVE  BuildInv'
<1> DEFINE persisted == IF lost THEN "none" ELSE mode
           m == ModeOf(reading.config, persisted)
           x == [reading EXCEPT !.mode = m, !.config = Mocked(@, m),
                   !.pc = IF m = "real" THEN "assignments" ELSE "done",
                   !.lost = IF lost THEN @ \cup {"mode"} ELSE @]
<1>1. /\ reading \in Reading /\ reading.how = "build" /\ reading.pc = "mode"
      /\ reading.mode = "none" /\ RolesFit(reading) /\ ConfigFits(reading)
  BY DEF BuildInv, ReadingFits, ModeFits, ReadMode
<1>2. m \in {"mock", "real"} /\ (~ lost /\ mode # "none" => m = mode)
  BY DEF ModeOf, BuildInv, ModelsInv, TablesFit
<1>3. /\ Mocked(reading.config, m) \in Configs
      /\ m = "mock" => Mocked(reading.config, m).key = "mock"
      /\ m = "real" => Mocked(reading.config, m) = reading.config
  BY <1>1, <1>2 DEF Mocked, Reading, Configs, EnvKeys
<1> HIDE DEF m
<1>4. /\ x \in Reading /\ x.pc = (IF m = "real" THEN "assignments" ELSE "done") /\ x.how = "build"
      /\ x.mode = m /\ x.config = Mocked(reading.config, m)
      /\ x.roles = reading.roles /\ x.steady = reading.steady
      /\ x.lost = IF lost THEN reading.lost \cup {"mode"} ELSE reading.lost
  BY <1>1, <1>2, <1>3 DEF Reading
<1> HIDE DEF x
<1>5. ConfigFits(x)
  BY <1>1, <1>2, <1>3, <1>4 DEF ConfigFits
<1>6. ModeFits(x)
  BY <1>1, <1>2, <1>3, <1>4 DEF ModeFits
<1>7. RolesFit(x)
  BY <1>1, <1>2, <1>4 DEF RolesFit
<1>8. ReadingFits(x)
  BY <1>4, <1>5, <1>6, <1>7 DEF ReadingFits
<1> QED
  BY <1>8, ReaderStep DEF ReadMode, x, m

\* A build that cannot read the roles goes on without.
LEMMA RolesLost ==
    ASSUME BuildInv, reading.how # "roles", reading.pc \in {"assignments", "providers"},
           NEW x, x = [reading EXCEPT !.pc = "done", !.lost = @ \cup {"roles"}]
    PROVE  ReadingFits(x)
<1>1. /\ reading \in Reading /\ ConfigFits(reading) /\ ModeFits(reading) /\ RolesFit(reading)
      /\ reading.how # "none"
  BY DEF BuildInv, ReadingFits
<1>2. /\ x \in Reading /\ x.pc = "done" /\ x.how = reading.how /\ x.mode = reading.mode
      /\ x.config = reading.config /\ x.roles = reading.roles /\ x.steady = reading.steady
      /\ x.lost = reading.lost \cup {"roles"}
  BY <1>1 DEF Reading
<1> QED
  BY <1>1, <1>2 DEF ReadingFits, ConfigFits, ModeFits, RolesFit

LEMMA ReadAssignmentsFits ==
    ASSUME BuildInv, NEW lost \in BOOLEAN, ReadAssignments(lost)
    PROVE  BuildInv'
<1> DEFINE x == [reading EXCEPT !.pc = "providers", !.assigned = assignment]
<1>1. /\ reading \in Reading /\ reading.pc = "assignments" /\ reading.how # "none"
      /\ ConfigFits(reading) /\ ModeFits(reading) /\ RolesFit(reading)
      /\ assignment \in [Roles -> Assignment \cup {NoAssignment}]
  BY DEF BuildInv, ReadingFits, ReadAssignments, ModelsInv, TablesFit
<1>2. /\ x \in Reading /\ x.pc = "providers" /\ x.assigned = assignment /\ x.how = reading.how
      /\ x.mode = reading.mode /\ x.config = reading.config /\ x.roles = reading.roles
      /\ x.steady = reading.steady /\ x.lost = reading.lost
  BY <1>1 DEF Reading
<1> HIDE DEF x
<1>3. ReadingFits(x)
  BY <1>1, <1>2 DEF ReadingFits, ConfigFits, ModeFits, RolesFit
<1>4. CASE ~ lost
  BY <1>3, <1>4, ReaderStep DEF ReadAssignments, x
<1>5. CASE lost /\ reading.how = "roles"
  BY <1>5, NoReadingFits, ReaderStep DEF ReadAssignments
<1>6. CASE lost /\ reading.how # "roles"
  <2> DEFINE y == [reading EXCEPT !.pc = "done", !.lost = @ \cup {"roles"}]
  <2>1. ReadingFits(y)
    BY <1>1, <1>6, RolesLost
  <2>2. Reads(y) /\ Loses(lost)
    BY <1>6 DEF ReadAssignments
  <2> QED
    BY <2>1, <2>2, ReaderStep
<1> QED
  BY <1>4, <1>5, <1>6

LEMMA RowOfIsRow ==
    ASSUME TablesFit, NEW a \in Assignment \cup {NoAssignment}
    PROVE  RowOf(a) \in Provider \cup {NoProvider}
  BY DEF TablesFit, RowOf, Assignment

LEMMA ReadProvidersFits ==
    ASSUME BuildInv, NEW lost \in BOOLEAN, ReadProviders(lost)
    PROVE  BuildInv'
<1> DEFINE names == [r \in Roles |-> RowOf(reading.assigned[r])]
           roles == [r \in Roles |-> RoleConfig(reading.assigned[r], RowOf(reading.assigned[r]))]
           x == [reading EXCEPT !.pc = "done", !.names = names]
           y == [reading EXCEPT !.pc = "done", !.roles = roles]
<1>1. /\ reading \in Reading /\ reading.pc = "providers"
      /\ ConfigFits(reading) /\ ModeFits(reading) /\ RolesFit(reading)
  BY DEF BuildInv, ReadingFits, ReadProviders
<1>2. \A r \in Roles : /\ reading.assigned[r] \in Assignment \cup {NoAssignment}
                       /\ RowOf(reading.assigned[r]) \in Provider \cup {NoProvider}
  BY <1>1, RowOfIsRow DEF Reading, BuildInv, ModelsInv
<1>3. names \in [Roles -> Provider \cup {NoProvider}] /\ roles \in [Roles -> Configs]
  BY <1>2, RoleConfigIsConfig
<1>4. /\ \A r \in Roles : names[r] = RowOf(reading.assigned[r])
      /\ \A r \in Roles : roles[r] = RoleConfig(reading.assigned[r], RowOf(reading.assigned[r]))
      /\ reading.steady.roles \subseteq Roles
  BY <1>1 DEF Reading, Steady
<1> HIDE DEF names, roles
<1>0. reading.how \in {"build", "roles"}
  BY <1>1 DEF BuildInv, ReadingFits, Reading
<1>9. ASSUME NEW r \in reading.steady.roles
      PROVE  /\ reading.assigned[r] = assignment[r] /\ names[r] = RowOf(assignment[r])
             /\ roles[r] = RoleConfig(assignment[r], RowOf(assignment[r]))
  <2>1. reading.assigned[r] = assignment[r] /\ r \in Roles
    BY <1>1, <1>4 DEF RolesFit
  <2>2. names[r] = RowOf(reading.assigned[r])
        /\ roles[r] = RoleConfig(reading.assigned[r], RowOf(reading.assigned[r]))
    BY <1>4, <2>1
  <2> QED
    BY <2>1, <2>2
<1>5. CASE lost /\ reading.how = "roles"
  BY <1>5, NoReadingFits, ReaderStep DEF ReadProviders
<1>6. CASE lost /\ reading.how # "roles"
  <2> DEFINE z == [reading EXCEPT !.pc = "done", !.lost = @ \cup {"roles"}]
  <2>1. ReadingFits(z)
    BY <1>1, <1>6, RolesLost
  <2>2. Reads(z) /\ Loses(lost)
    BY <1>6 DEF ReadProviders
  <2> QED
    BY <2>1, <2>2, ReaderStep
<1>7. CASE ~ lost /\ reading.how = "roles"
  <2>1. /\ x \in Reading /\ x.pc = "done" /\ x.names = names /\ x.how = "roles"
        /\ x.mode = reading.mode /\ x.config = reading.config /\ x.roles = reading.roles
        /\ x.steady = reading.steady /\ x.lost = reading.lost /\ x.assigned = reading.assigned
    BY <1>1, <1>3, <1>7 DEF Reading
  <2>2. Reads(x) /\ Loses(lost)
    BY <1>7 DEF ReadProviders, names
  <2> HIDE DEF x
  <2>3. RolesFit(x)
    BY <1>1, <1>9, <2>1 DEF RolesFit
  <2>4. ReadingFits(x)
    BY <1>1, <2>1, <2>3 DEF ReadingFits, ConfigFits, ModeFits
  <2> QED
    BY <2>2, <2>4, ReaderStep
<1>8. CASE ~ lost /\ reading.how # "roles"
  <2>1. /\ y \in Reading /\ y.pc = "done" /\ y.roles = roles /\ y.how = reading.how
        /\ y.mode = reading.mode /\ y.config = reading.config
        /\ y.steady = reading.steady /\ y.lost = reading.lost
    BY <1>1, <1>3, <1>8 DEF Reading
  <2>2. Reads(y) /\ Loses(lost)
    BY <1>8 DEF ReadProviders, roles
  <2>3. reading.mode # "mock" \/ reading.how # "build"
    BY <1>1 DEF ModeFits
  <2> HIDE DEF y
  <2>4. ConfigFits(y) /\ ModeFits(y)
    BY <1>1, <2>1, <2>3 DEF ConfigFits, ModeFits
  <2>5. RolesFit(y)
    BY <1>0, <1>1, <1>8, <1>9, <2>1, <2>3 DEF RolesFit
  <2>6. ReadingFits(y)
    BY <1>0, <1>8, <2>1, <2>4, <2>5 DEF ReadingFits
  <2> QED
    BY <2>2, <2>6, ReaderStep
<1> QED
  BY <1>5, <1>6, <1>7, <1>8

LEMMA NextKeepsMasterKey == Next => masterKey' = masterKey
  BY DEF Next, SendCreate, SendOther, Send, CreateReads, CreateWrites, ReadsProvider, Rereads, Writes,
         Ask, Activate, DeleteReads, DeleteWrites, AssignReads, AssignWrites, Unassign, ModeReads,
         ModeWrites, WriteFails, KeyExpires, stored

\* The tables change beside a reading: what it has read still fits what stayed.
LEMMA DisturbedFits ==
    ASSUME ReadingFits(reading), masterKey' = masterKey, Disturbed
    PROVE  ReadingFits(reading)'
<1> DEFINE roles == {r \in reading.steady.roles : assignment'[r] = assignment[r]
                                      /\ RowOf(assignment[r])' = RowOf(assignment[r])}
           steady == [mode |-> reading.steady.mode /\ mode' = mode,
                      serving |-> reading.steady.serving /\ Serving' = Serving, roles |-> roles]
<1>1. reading' = [reading EXCEPT !.steady = steady]
  BY DEF Disturbed
<1>2. steady \in Steady /\ steady.roles = roles
      /\ (steady.mode <=> reading.steady.mode /\ mode' = mode)
      /\ (steady.serving <=> reading.steady.serving /\ Serving' = Serving)
  BY DEF ReadingFits, Reading, Steady
<1>3. \A r \in roles : /\ r \in reading.steady.roles /\ assignment'[r] = assignment[r]
                       /\ RowOf(assignment[r])' = RowOf(assignment[r])
  OBVIOUS
<1> HIDE DEF roles, steady
<1>4. /\ reading' \in Reading /\ reading'.pc = reading.pc /\ reading'.how = reading.how
      /\ reading'.mode = reading.mode /\ reading'.config = reading.config
      /\ reading'.roles = reading.roles /\ reading'.names = reading.names
      /\ reading'.assigned = reading.assigned /\ reading'.lost = reading.lost
      /\ reading'.steady = steady
  BY <1>1, <1>2 DEF ReadingFits, Reading
<1>5. ConfigFits(reading)'
  <2>1. Serving' = Serving => \A c : ServedOrEnv(c)' <=> ServedOrEnv(c)
    BY DEF ServedOrEnv, Usable, ResolvedProviderConfig
  <2>2. \A c : SomeConfig(c)' <=> SomeConfig(c)
    BY DEF SomeConfig
  <2> QED
    BY <1>2, <1>4, <2>1, <2>2 DEF ReadingFits, ConfigFits
<1>6. ModeFits(reading)'
  BY <1>2, <1>4 DEF ReadingFits, ModeFits
<1>7. RolesFit(reading)'
  <2>1. ASSUME NEW r \in roles
        PROVE  RoleConfig(assignment[r], RowOf(assignment[r]))'
                 = RoleConfig(assignment[r], RowOf(assignment[r]))
    BY <1>3 DEF RoleConfig, Usable, ResolvedProviderConfig
  <2> QED
    BY <1>2, <1>3, <1>4, <2>1 DEF ReadingFits, RolesFit
<1> QED
  BY <1>4, <1>5, <1>6, <1>7 DEF ReadingFits

LEMMA BuildStarts == BuildInit => BuildInv
  BY ModelsInit, NoReadingFits DEF BuildInit, BuildInv

LEMMA BuildGoesOn == BuildInv /\ [BuildNext]_buildVars => BuildInv'
<1> SUFFICES ASSUME BuildInv, [BuildNext]_buildVars PROVE BuildInv'
  OBVIOUS
<1>1. CASE TablesStep
  <2>1. ModelsInv'
    BY <1>1, ModelsStep DEF TablesStep, BuildInv
  <2>2. ReadingFits(reading)'
    BY <1>1, NextKeepsMasterKey, DisturbedFits DEF TablesStep, BuildInv
  <2> QED
    BY <2>1, <2>2 DEF BuildInv
<1>2. ASSUME NEW how \in {"build", "roles"}, Begin(how)
      PROVE  BuildInv'
  BY <1>2, BeginFits
<1>3. ASSUME NEW lost \in BOOLEAN,
             ReadConfig(lost) \/ ReadMode(lost) \/ ReadAssignments(lost) \/ ReadProviders(lost)
      PROVE  BuildInv'
  BY <1>3, ReadConfigFits, ReadModeFits, ReadAssignmentsFits, ReadProvidersFits
<1>4. CASE UNCHANGED buildVars
  <2>1. ModelsInv'
    BY <1>4, ModelsStep DEF BuildInv, buildVars
  <2>2. ReadingFits(reading)'
    BY <1>4, FitsStay DEF BuildInv, buildVars, vars
  <2> QED
    BY <2>1, <2>2 DEF BuildInv
<1> QED
  BY <1>1, <1>2, <1>3, <1>4 DEF BuildNext

THEOREM BuildInvHolds == BuildSpec => []BuildInv
  BY BuildStarts, BuildGoesOn, PTL DEF BuildSpec

LEMMA MockStays == BuildInv => MockStaysMock
<1> SUFFICES ASSUME BuildInv, Resolved PROVE
      /\ reading.mode = "mock" => ~ AsksTheModel /\ \A r \in Roles : Client(RoleClient(r)) = "mock"
      /\ reading.steady.mode /\ mode # "none" /\ "mode" \notin reading.lost => reading.mode = mode
  BY DEF MockStaysMock
<1>1. ModeFits(reading) /\ RolesFit(reading) /\ reading.mode # "none"
  BY DEF BuildInv, ReadingFits, ModeFits, Resolved
<1>2. reading.mode = "mock" => \A r \in Roles : RoleClient(r) = reading.config
  BY <1>1 DEF RolesFit, RoleClient
<1> QED
  BY <1>1, <1>2 DEF ModeFits, Resolved, AsksTheModel, Client

LEMMA ServingStays == BuildInv => ServingIsUsed
<1> SUFFICES ASSUME BuildInv, Resolved, reading.mode = "real" PROVE
        /\ reading.steady.serving /\ "config" \notin reading.lost => ServedOrEnv(reading.config)
        /\ Client(reading.config) # "mock" <=> AsksTheModel
        /\ AsksTheModel => Available
        /\ Available /\ "mode" \notin reading.lost /\ reading.config.key # "your-key" => ShownModel # NoConfig
  BY DEF ServingIsUsed, ServedOrEnv
<1>1. ConfigFits(reading) /\ SomeConfig(reading.config) /\ reading.config \in Configs
  BY DEF BuildInv, ReadingFits, ConfigFits, Resolved, Reading
<1>2. reading.steady.serving /\ "config" \notin reading.lost => ServedOrEnv(reading.config)
  BY <1>1 DEF ConfigFits, Resolved
<1>3. /\ Client(reading.config) # "mock" <=> AsksTheModel
      /\ AsksTheModel => Available
  BY DEF Client, AsksTheModel, Available
<1>4. ASSUME Available, "mode" \notin reading.lost, reading.config.key # "your-key"
      PROVE  ShownModel # NoConfig
  <2>1. reading.config.key \notin {"none", "your-key"}
    BY <1>4 DEF Available
  <2>2. reading.config.content # "none"
    BY <1>1, <2>1, ProvidersAssumption DEF SomeConfig, EnvConfigs, NoConfig
  <2>3. ShownModel.key = "shown"
    BY <1>1, <2>1, <2>2 DEF ShownModel, Configs
  <2> QED
    BY <2>3 DEF NoConfig
<1> QED
  BY <1>2, <1>3, <1>4

LEMMA RolesStayAssigned == BuildInv => RolesAreAsAssigned
<1> SUFFICES ASSUME BuildInv, NEW r \in reading.steady.roles
             PROVE  LET a == assignment[r]
                        row == RowOf(a)
                    IN /\ Done("build") /\ reading.mode = "real" /\ "roles" \notin reading.lost
                            => /\ RoleClient(r).key = IF a # NoAssignment /\ Usable(row) THEN row.secret
                                                      ELSE reading.config.key
                               /\ a # NoAssignment /\ Usable(row) =>
                                    RoleClient(r).content = row.content /\ RoleClient(r).model = a.model
                       /\ Done("roles")
                            => /\ RoleView(r).source = "assigned" <=> a # NoAssignment
                               /\ a # NoAssignment => RoleView(r).name # "none"
  BY DEF RolesAreAsAssigned
<1> DEFINE a == assignment[r]
           row == RowOf(a)
<1>1. /\ r \in Roles /\ a \in Assignment \cup {NoAssignment} /\ row \in Provider \cup {NoProvider}
      /\ RolesFit(reading)
      /\ a # NoAssignment => row \in Provider
  BY RowOfIsRow DEF BuildInv, ReadingFits, Reading, Steady, ModelsInv, TablesFit, AssignmentsHaveProviders,
                    RowOf, Exists
<1> HIDE DEF row
<1>2. ASSUME Done("build"), reading.mode = "real", "roles" \notin reading.lost
      PROVE  /\ RoleClient(r).key = IF a # NoAssignment /\ Usable(row) THEN row.secret
                                    ELSE reading.config.key
             /\ a # NoAssignment /\ Usable(row) =>
                  RoleClient(r).content = row.content /\ RoleClient(r).model = a.model
  <2>1. reading.roles[r] = RoleConfig(a, row)
    BY <1>1, <1>2 DEF RolesFit, Done, row
  <2> QED
    BY <1>1, <2>1, RoleConfigIsConfig DEF RoleClient
<1>3. ASSUME Done("roles")
      PROVE  /\ RoleView(r).source = "assigned" <=> a # NoAssignment
             /\ a # NoAssignment => RoleView(r).name # "none"
  <2>1. reading.assigned[r] = a /\ reading.names[r] = row
    BY <1>1, <1>3 DEF RolesFit, Done, row
  <2> QED
    BY <1>1, <2>1, ProvidersAssumption DEF RoleView, Provider
<1> QED
  BY <1>2, <1>3 DEF row

\* Whatever requests commit between the statements that a build or a view of the roles is put
\* together from, and whichever of them fails: the mock mode asks no model, and what stays
\* while it is read is what is used and shown.
THEOREM BuildsAlwaysTrue == BuildSpec => []BuildsAreTrue
<1>1. BuildInv => BuildsAreTrue
  BY MockStays, ServingStays, RolesStayAssigned DEF BuildsAreTrue
<1> QED
  BY <1>1, BuildInvHolds, PTL

\* A reader disturbs no table: what holds of the requests holds beside the readers.
THEOREM TablesAgreeBesideReaders == BuildSpec => []ModelTablesAgree
<1>1. BuildInv => ModelTablesAgree
  BY ModelsInvAgrees DEF BuildInv
<1> QED
  BY <1>1, BuildInvHolds, PTL

\* A step of a reader moves no provider and no request.
LEMMA ReaderTouchesNothing ==
    ASSUME BuildInv, [BuildNext]_buildVars, ~ [Next]_vars
    PROVE  UNCHANGED <<provider, client>>
<1>1. \/ \E how \in {"build", "roles"} : Begin(how)
      \/ \E lost \in BOOLEAN :
            ReadConfig(lost) \/ ReadMode(lost) \/ ReadAssignments(lost) \/ ReadProviders(lost)
  BY DEF BuildNext, TablesStep, buildVars
<1> QED
  BY <1>1 DEF Begin, ReadConfig, ReadMode, ReadAssignments, ReadProviders, Reads

\* What a provider connects to, how it was verified and what serves the endpoint change by the
\* requests alone, and as they do without a reader.
THEOREM ConnectionsAsEditedBesideReaders == BuildSpec => ConnectionsAreAsEdited
<1>1. ASSUME BuildInv, [BuildNext]_buildVars, ~ [Next]_vars
      PROVE  \A c \in Clients : At(c, "write", "update") => client'[c].answer # "done"
  BY <1>1, ReaderTouchesNothing DEF At, BuildInv, ModelsInv, ClientsFit, RequestFits
<1>2. BuildInv /\ [BuildNext]_buildVars =>
        \A slot \in Slots :
          (Exists(slot) /\ provider'[slot] # NoProvider
             /\ <<provider[slot].content, provider[slot].secret>>
                  # <<provider'[slot].content, provider'[slot].secret>>)
          => \E c \in Clients : At(c, "write", "update") /\ client[c].slot = slot
  BY ReaderTouchesNothing, OnlyEditsStep DEF BuildInv
<1>3. BuildInv /\ [BuildNext]_buildVars =>
        \A c \in Clients :
          (At(c, "write", "update") /\ client'[c].answer = "done"
             /\ provider[client[c].slot] = client[c].row)
          => provider'[client[c].slot].status = "unknown"
             /\ provider'[client[c].slot].stamp = 0
  BY <1>1, EditsTakeBackStep DEF BuildInv
<1>4. BuildInv /\ [BuildNext]_buildVars =>
        \A slot \in Slots :
          (provider[slot].active = "diagnostic" /\ provider'[slot].active # "diagnostic")
          => \/ provider'[slot] = NoProvider
             \/ \E s \in Slots \ {slot} : provider'[s].active = "diagnostic"
  BY ReaderTouchesNothing, EndpointStaysStep DEF BuildInv
<1> QED
  BY <1>2, <1>3, <1>4, BuildInvHolds, PTL
     DEF BuildSpec, ConnectionsAreAsEdited, OnlyEditsTouchTheConnection, EditsTakeTheOutcomeBack,
         EndpointStaysServed
=============================================================================

--------------------------- MODULE ModelProviders ---------------------------
(***************************************************************************)
(* The configured model providers (application/model_providers.py and its  *)
(* repositories): create under an idempotency key, edit, activate, verify  *)
(* over the network, delete, and the assignment of a provider to an agent  *)
(* role; and the runtime mode (application/model_mode.py).                 *)
(*                                                                         *)
(* A transaction reads rows, decides, and writes.  Its writes are one      *)
(* atomic step, but what it read may have changed by then: no read locks   *)
(* its row.  An UPDATE of the session carries only the columns that differ *)
(* from the row as the session read it, and fails when the row has gone.   *)
(* Primary keys, the unique active endpoint and the foreign keys are       *)
(* checked by the database at the write.                                   *)
(*                                                                         *)
(* The connection of a provider is its content (name, base URL, model) and *)
(* its secret (the encrypted API key); a secret "old" was sealed by a      *)
(* master key this process does not have.  The retired "judge" endpoint,   *)
(* which no request can activate and nothing reads, is left out.           *)
(***************************************************************************)
EXTENDS Naturals, FiniteSets

CONSTANTS
    Clients,       \* threads that serve requests
    IdemKeys,      \* idempotency keys
    Contents,      \* what a provider may be saved with
    Roles,         \* agent roles
    Models,        \* models an assignment may name instead of the provider's own
    MaxProviders,  \* bound: providers ever created, the initial one included
    MaxOps,        \* bound: requests sent
    MaxFaults      \* bound: writes that fail

ASSUME ProvidersAssumption ==
    /\ MaxProviders \in Nat \ {0} /\ MaxOps \in Nat /\ MaxFaults \in Nat
    /\ {"none", "old"} \cap Contents = {}
    /\ {"own", "none"} \cap Models = {}
    /\ "none" \notin IdemKeys

VARIABLES
    provider,      \* model_providers: the row of each number, or NoProvider
    created,       \* numbers of providers given out
    keys,          \* model_provider_idempotency_keys
    assignment,    \* model_role_assignments
    mode,          \* app_settings: the runtime mode, "none" when never set
    masterKey,     \* whether this process has a master key
    client,        \* what each client is doing
    sent, faults,  \* counters of the bounds
    born,          \* history: the key and the fingerprint each provider was created with
    lapsed         \* history: keys that have expired once

requestVars == <<client, sent>>
vars == <<provider, created, keys, assignment, mode, masterKey, client, sent, faults,
          born, lapsed>>

Slots == 1 .. MaxProviders
Secrets == Contents \cup {"none", "old"}
Statuses == {"unknown", "ok", "failed", "timeout"}
Endpoints == {"none", "diagnostic"}

Provider == [content : Contents, secret : Secrets, active : Endpoints,
             status : Statuses, stamp : 0 .. MaxOps]
NoProvider == [content |-> "none", secret |-> "none", active |-> "none",
               status |-> "unknown", stamp |-> 0]

Assignment == [slot : Slots, model : Models \cup {"own"}]
NoAssignment == [slot |-> 0, model |-> "none"]

Key == [slot : Slots, print : Contents \X Secrets, expired : BOOLEAN]
NoKey == [slot |-> 0, print |-> <<"none", "none">>, expired |-> FALSE]

Ops == {"create", "update", "activate", "verify", "delete", "assign", "unassign", "mode"}
Steps == {"idle", "read", "ask", "reread", "write"}

Exists(slot) == provider[slot] # NoProvider

NewClient == [pc |-> "idle", op |-> "none", slot |-> 0, no |-> 0, content |-> "none",
              secret |-> "none", key |-> "none", role |-> "none", row |-> NoProvider, was |-> NoAssignment, answer |-> "none"]

(***************************************************************************)
(* Initial state: one provider of an earlier process, perhaps activated,   *)
(* with a secret that may be unreadable by now                             *)
(***************************************************************************)
Init ==
    /\ \E c \in Contents, a \in {"none", "diagnostic"} :
          provider = [slot \in Slots |->
              IF slot = 1 THEN [NoProvider EXCEPT !.content = c, !.secret = "old", !.active = a]
              ELSE NoProvider]
    /\ created = 1
    /\ keys = [k \in IdemKeys |-> NoKey]
    /\ assignment = [r \in Roles |-> NoAssignment]
    /\ mode = "none"
    /\ masterKey \in BOOLEAN
    /\ client = [c \in Clients |-> NewClient]
    /\ sent = 0 /\ faults = 0
    /\ born = [slot \in Slots |-> <<"none", <<"none", "none">> >>]
    /\ lapsed = {}

(***************************************************************************)
(* Requests                                                                *)
(***************************************************************************)
Send(c, request) ==
    /\ client[c].pc = "idle" /\ sent < MaxOps
    /\ sent' = sent + 1
    /\ client' = [client EXCEPT ![c] = request]
    /\ UNCHANGED <<provider, created, keys, assignment, mode, masterKey, faults, born, lapsed>>

Request(op) == [NewClient EXCEPT !.op = op, !.no = sent + 1, !.pc = "read"]

\* a secret may only be given when there is a master key to seal it with
Given(secret) == secret \in Contents => masterKey

SendCreate(c) ==
    \E k \in IdemKeys, x \in Contents, s \in Contents \cup {"none"} :
        /\ s \in {"none", x} /\ Given(s)
        /\ Send(c, [Request("create") EXCEPT !.key = k, !.content = x, !.secret = s])

\* what else a request carries is chosen at the step that uses it first
SendOther(c) ==
    \/ \E op \in {"update", "activate", "verify", "delete"}, slot \in 1 .. created :
          Send(c, [Request(op) EXCEPT !.slot = slot,
                                      !.pc = IF op = "activate" THEN "write" ELSE "read"])
    \/ \E r \in Roles, slot \in 1 .. created :
          Send(c, [Request("assign") EXCEPT !.role = r, !.slot = slot])
    \/ \E r \in Roles : Send(c, [Request("unassign") EXCEPT !.role = r])
    \/ Send(c, Request("mode"))

(***************************************************************************)
(* Steps of a request                                                      *)
(***************************************************************************)
At(c, pc, op) == client[c].pc = pc /\ client[c].op = op
Answer(c, a) == client' = [client EXCEPT ![c] = [NewClient EXCEPT !.answer = a]]
Continue(c, r) == client' = [client EXCEPT ![c] = r]

stored == <<provider, created, keys, assignment, mode, masterKey, faults, born, lapsed>>

\* what a session writes of a row: the columns that it changed since it read the row
Flush(row, read, new) == [f \in DOMAIN row |-> IF new[f] = read[f] THEN row[f] ELSE new[f]]

\* create looks its key up: a replay, another payload, an expired key or a new one
CreateReads(c) ==
    LET r == client[c]
        k == keys[r.key]
    IN /\ At(c, "read", "create")
       /\ IF k # NoKey /\ k.print # <<r.content, r.secret>> THEN Answer(c, "key_reused")
          ELSE IF k # NoKey /\ ~ k.expired THEN Answer(c, "replayed")
          ELSE Continue(c, [r EXCEPT !.pc = "write", !.slot = k.slot])
       /\ UNCHANGED <<stored, sent>>

\* Mutant: the key is written over whatever row is there.
KeyIsFreeAlways(r) == TRUE
\* the insert of the key: only a row found expired has been deleted before
KeyIsFree(r) == r.slot # 0 \/ keys[r.key] = NoKey

\* the provider and its key are inserted together, or the primary key refuses both
CreateWrites(c) ==
    LET r == client[c] IN
    /\ At(c, "write", "create")
    /\ created < MaxProviders
    /\ IF KeyIsFree(r)
       THEN /\ created' = created + 1
            /\ provider' = [provider EXCEPT ![created'] =
                  [NoProvider EXCEPT !.content = r.content, !.secret = r.secret]]
            /\ keys' = [keys EXCEPT ![r.key] =
                  [slot |-> created', print |-> <<r.content, r.secret>>, expired |-> FALSE]]
            /\ born' = [born EXCEPT ![created'] = <<r.key, <<r.content, r.secret>> >>]
            /\ Answer(c, "created")
       ELSE Answer(c, "error") /\ UNCHANGED <<provider, created, keys, born>>
    /\ UNCHANGED <<assignment, mode, masterKey, sent, faults, lapsed>>

\* update and verify read the provider, and read it again before they write
ReadsProvider(c, op) ==
    LET r == client[c] IN
    /\ At(c, "read", op)
    /\ IF ~ Exists(r.slot) THEN Answer(c, "not_found")
       ELSE Continue(c, [r EXCEPT !.row = provider[r.slot],
                            !.pc = IF op = "verify" THEN "ask" ELSE "reread"])
    /\ UNCHANGED <<stored, sent>>

\* the network is asked with the connection as it was read; without a readable secret nothing
\* is asked.  The request keeps the outcome where the secret was.
Ask(c) ==
    LET r == client[c] IN
    /\ At(c, "ask", "verify")
    /\ \E outcome \in IF masterKey /\ r.row.secret \in Contents
                      THEN {"ok", "failed", "timeout"} ELSE {"failed"} :
          Continue(c, [r EXCEPT !.pc = "reread", !.secret = outcome])
    /\ UNCHANGED <<stored, sent>>

\* the secrets an update may store: the one it read first when the request leaves it alone, or
\* the one that came with the content, or none
NewSecrets(r, content) == {r.row.secret, "none"} \cup {s \in {content} : Given(s)}

Rereads(c, op) ==
    LET r == client[c]
        again == [r EXCEPT !.row = provider[r.slot], !.pc = "write"]
    IN /\ At(c, "reread", op)
       /\ IF ~ Exists(r.slot) THEN Answer(c, "not_found")
          ELSE IF op = "verify" THEN Continue(c, again)
          ELSE \E x \in Contents : \E s \in NewSecrets(r, x) :
                  Continue(c, [again EXCEPT !.content = x, !.secret = s])
       /\ UNCHANGED <<stored, sent>>

\* Mutant: an edit leaves the outcome of the last verification.
EditKeepsStatus(r) == [r.row EXCEPT !.content = r.content, !.secret = r.secret]
\* an edit takes the outcome of the last verification back
Edited(r) == [EditKeepsStatus(r) EXCEPT !.status = "unknown", !.stamp = 0]
Verified(r) == [r.row EXCEPT !.status = r.secret, !.stamp = r.no]

\* Mutant: the whole row is written as it was read.
WriteCopy(c, new) ==
    provider' = [provider EXCEPT ![client[c].slot] = new]
WriteRow(c, new) ==
    provider' = [provider EXCEPT ![client[c].slot] = Flush(@, client[c].row, new)]

Writes(c, op) ==
    LET r == client[c] IN
    /\ At(c, "write", op)
    /\ IF Exists(r.slot)
       THEN WriteRow(c, IF op = "verify" THEN Verified(r) ELSE Edited(r)) /\ Answer(c, "done")
       ELSE Answer(c, "error") /\ UNCHANGED provider
    /\ UNCHANGED <<created, keys, assignment, mode, masterKey, sent, faults, born, lapsed>>

\* Mutant: the others keep the endpoint.
ActivatedToo(slot) ==
    [s \in Slots |-> [provider[s] EXCEPT !.active =
        IF s = slot /\ Exists(s) THEN "diagnostic" ELSE @]]
\* Mutant: the endpoint is taken from the others before the provider is looked up.
ActivatedFirst(slot) ==
    [s \in Slots |-> [provider[s] EXCEPT !.active =
        IF s = slot /\ Exists(s) THEN "diagnostic" ELSE IF @ = "diagnostic" THEN "none" ELSE @]]
\* one transaction frees the endpoint and gives it to the provider; a provider that is not
\* there rolls it back
Activated(slot) ==
    IF Exists(slot) THEN ActivatedFirst(slot) ELSE provider

Activate(c) ==
    LET r == client[c] IN
    /\ At(c, "write", "activate")
    /\ provider' = Activated(r.slot)
    /\ Answer(c, IF Exists(r.slot) THEN "done" ELSE "not_found")
    /\ UNCHANGED <<created, keys, assignment, mode, masterKey, sent, faults, born, lapsed>>

DeleteReads(c) ==
    LET r == client[c] IN
    /\ At(c, "read", "delete")
    /\ IF ~ Exists(r.slot) THEN Answer(c, "not_found")
       ELSE Continue(c, [r EXCEPT !.pc = "write"])
    /\ UNCHANGED <<stored, sent>>

\* Mutant: the keys of a provider stay, and name no provider.
KeysUnset(slot) == [k \in IdemKeys |-> IF keys[k].slot = slot THEN [keys[k] EXCEPT !.slot = 0]
                                      ELSE keys[k]]
\* Mutant: the idempotency keys of a provider outlive it.
KeysKept(slot) == keys
KeysWithout(slot) == [k \in IdemKeys |-> IF keys[k].slot = slot THEN NoKey ELSE keys[k]]

\* Mutant: nothing removes the assignments of a provider.
AssignmentsKept(slot) == assignment
AssignmentsWithout(slot) ==
    [r \in Roles |-> IF assignment[r].slot = slot THEN NoAssignment ELSE assignment[r]]

\* its idempotency keys, the provider, and by the foreign key its assignments
DeleteWrites(c) ==
    LET r == client[c] IN
    /\ At(c, "write", "delete")
    /\ keys' = KeysWithout(r.slot)
    /\ provider' = [provider EXCEPT ![r.slot] = NoProvider]
    /\ assignment' = AssignmentsWithout(r.slot)
    /\ Answer(c, "done")
    /\ UNCHANGED <<created, mode, masterKey, sent, faults, born, lapsed>>

\* assign reads the provider and the role's row
AssignReads(c) ==
    LET r == client[c] IN
    /\ At(c, "read", "assign")
    /\ IF ~ Exists(r.slot) THEN Answer(c, "not_found")
       ELSE Continue(c, [r EXCEPT !.pc = "write", !.was = assignment[r.role]])
    /\ UNCHANGED <<stored, sent>>

\* Mutant: an assignment names a provider without asking for its row.
MayAssignAny(r) == (assignment[r.role] = NoAssignment) <=> (r.was = NoAssignment)
\* an insert that meets a row, an update that misses it, or a provider that is gone by now
\* end in the database's error
MayAssign(r) == Exists(r.slot) /\ MayAssignAny(r)

AssignWrites(c) ==
    LET r == client[c]
        now == assignment[r.role]
    IN /\ At(c, "write", "assign")
       /\ IF MayAssign(r)
          THEN /\ \E m \in Models \cup {"own"} : assignment' = [assignment EXCEPT
                      ![r.role] = Flush(now, r.was, [slot |-> r.slot, model |-> m])]
               /\ Answer(c, "done")
          ELSE Answer(c, "error") /\ UNCHANGED assignment
       /\ UNCHANGED <<provider, created, keys, mode, masterKey, sent, faults, born, lapsed>>

\* clearing an assignment succeeds whether or not there is one
Unassign(c) ==
    LET r == client[c] IN
    /\ At(c, "read", "unassign")
    /\ assignment' = [assignment EXCEPT ![r.role] = NoAssignment]
    /\ Answer(c, "done")
    /\ UNCHANGED <<provider, created, keys, mode, masterKey, sent, faults, born, lapsed>>

\* the mode is one row, inserted once and overwritten from then on
ModeReads(c) ==
    /\ At(c, "read", "mode")
    /\ Continue(c, [client[c] EXCEPT !.pc = "write", !.content = mode])
    /\ UNCHANGED <<stored, sent>>

ModeWrites(c) ==
    LET r == client[c] IN
    /\ At(c, "write", "mode")
    /\ IF r.content = "none" /\ mode # "none"
       THEN Answer(c, "error") /\ UNCHANGED mode
       ELSE /\ \E m \in {"mock", "real"} : mode' = IF m = r.content THEN mode ELSE m
            /\ Answer(c, "done")
    /\ UNCHANGED <<provider, created, keys, assignment, masterKey, sent, faults, born, lapsed>>

(***************************************************************************)
(* The database refuses a write, and a day goes by                         *)
(***************************************************************************)
WriteFails(c) ==
    /\ client[c].pc = "write" /\ faults < MaxFaults
    /\ faults' = faults + 1
    /\ Answer(c, "error")
    /\ UNCHANGED <<provider, created, keys, assignment, mode, masterKey, sent, born, lapsed>>

KeyExpires(k) ==
    /\ keys[k] # NoKey /\ ~ keys[k].expired
    /\ keys' = [keys EXCEPT ![k].expired = TRUE]
    /\ lapsed' = lapsed \cup {k}
    /\ UNCHANGED <<provider, created, assignment, mode, masterKey, client, sent, faults, born>>

Next ==
    \/ \E c \in Clients :
          \/ SendCreate(c) \/ SendOther(c)
          \/ CreateReads(c) \/ CreateWrites(c)
          \/ \E op \in {"update", "verify"} :
                ReadsProvider(c, op) \/ Rereads(c, op) \/ Writes(c, op)
          \/ Ask(c) \/ Activate(c)
          \/ DeleteReads(c) \/ DeleteWrites(c)
          \/ AssignReads(c) \/ AssignWrites(c) \/ Unassign(c)
          \/ ModeReads(c) \/ ModeWrites(c)
          \/ WriteFails(c)
    \/ \E k \in IdemKeys : KeyExpires(k)

Spec == Init /\ [][Next]_vars

(***************************************************************************)
(* Properties                                                              *)
(***************************************************************************)

\* Every variable stays within its type
TypeOK ==
    /\ provider \in [Slots -> Provider \cup {NoProvider}]
    /\ created \in Slots
    /\ keys \in [IdemKeys -> Key \cup {NoKey}]
    /\ assignment \in [Roles -> Assignment \cup {NoAssignment}]
    /\ mode \in {"none", "mock", "real"} /\ masterKey \in BOOLEAN
    /\ \A c \in Clients : client[c].pc \in Steps /\ client[c].op \in Ops \cup {"none"}
    /\ sent \in 0 .. MaxOps /\ faults \in 0 .. MaxFaults
    /\ \A slot \in Slots : slot > created => ~ Exists(slot)

\* The diagnostic endpoint belongs to one provider at most (uq_model_providers_active_endpoint)
OneActiveProvider ==
    Cardinality({slot \in Slots : provider[slot].active = "diagnostic"}) <= 1

\* A provider that serves the endpoint goes on until another that exists takes over or it is
\* deleted itself: activating a provider that was deleted meanwhile leaves the old one.
EndpointStaysServed ==
    [][\A slot \in Slots :
          (provider[slot].active = "diagnostic" /\ provider'[slot].active # "diagnostic")
          => \/ provider'[slot] = NoProvider
             \/ \E s \in Slots \ {slot} : provider'[s].active = "diagnostic"]_vars

\* A role is never assigned to a provider that is gone, however a deletion and an assignment
\* overlap (the foreign key and the clean-up of delete)
AssignmentsHaveProviders ==
    \A r \in Roles : assignment[r] # NoAssignment => Exists(assignment[r].slot)

\* A key that has not expired has made one provider at most, whatever retries overlap, and its
\* row names the provider that was created with it and with that payload.
OneProviderPerKey ==
    \A k \in IdemKeys :
        /\ k \notin lapsed =>
              Cardinality({slot \in Slots : Exists(slot) /\ born[slot][1] = k}) <= 1
        /\ keys[k] # NoKey =>
              Exists(keys[k].slot) /\ born[keys[k].slot] = <<k, keys[k].print>>

\* Providers, roles and keys refer to one another as the constraints of the
\* tables and the services that write them promise.
ModelTablesAgree ==
    /\ TypeOK
    /\ OneActiveProvider
    /\ AssignmentsHaveProviders
    /\ OneProviderPerKey

\* Verifying, activating and assigning never change what a provider connects to: only an edit
\* that is about to answer does, though they write rows that they read before.
OnlyEditsTouchTheConnection ==
    [][\A slot \in Slots :
          (Exists(slot) /\ provider'[slot] # NoProvider
             /\ <<provider[slot].content, provider[slot].secret>>
                  # <<provider'[slot].content, provider'[slot].secret>>)
          => \E c \in Clients : At(c, "write", "update") /\ client[c].slot = slot]_vars

\* An edit that nothing overlaps leaves no outcome of a verification behind: a provider whose
\* edit was the last word is not shown as verified.
EditsTakeTheOutcomeBack ==
    [][\A c \in Clients :
          (At(c, "write", "update") /\ client'[c].answer = "done"
             /\ provider[client[c].slot] = client[c].row)
          => provider'[client[c].slot].status = "unknown"
             /\ provider'[client[c].slot].stamp = 0]_vars

\* A connection is what its last edit made it, and is not called verified for
\* what an earlier one was; the one that serves does so until another takes over.
ConnectionsAreAsEdited ==
    OnlyEditsTouchTheConnection /\ EditsTakeTheOutcomeBack /\ EndpointStaysServed
=============================================================================

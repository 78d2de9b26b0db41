----------------------------- MODULE ModelBuilds -----------------------------
(***************************************************************************)
(* What is made of the tables of ModelProviders: the model a Run is built  *)
(* with (build of api/v1/dependencies.py over resolve_runtime_mode and     *)
(* resolve_role_llm_configs), what GET /model/config says of it, and the   *)
(* roles as list_role_views shows them.                                    *)
(*                                                                         *)
(* The providers, the mode, the assignments and the providers again are    *)
(* read by four statements, and requests commit between them; nothing      *)
(* that cannot be read stops a reader, it falls back.                      *)
(***************************************************************************)
EXTENDS ModelProviders

VARIABLE reading    \* a build, or a view of the roles

\* A configuration: the key a client presents, the connection it belongs to, and the model.
\* The environment has no key, the mock key, a key, or the placeholder of the example file.
NoConfig == [key |-> "none", content |-> "none", model |-> "none"]
EnvKeys == {"mock", "env", "your-key"}
EnvConfigs == {NoConfig} \cup {[key |-> k, content |-> "env", model |-> "own"] : k \in EnvKeys}

\* steady: what has not changed since the reading began; lost: what could not be read
NoReading ==
    [pc |-> "none", how |-> "none", config |-> NoConfig, mode |-> "none", assigned |-> [r \in Roles |-> NoAssignment], roles |-> [r \in Roles |-> NoConfig],
     names |-> [r \in Roles |-> NoProvider], lost |-> {},
     steady |-> [mode |-> TRUE, serving |-> TRUE, roles |-> Roles]]

BuildInit == Init /\ reading = NoReading

-----------------------------------------------------------------------------
(* The rules *)

\* the provider of the diagnostic endpoint, of which there is one at most
Serving ==
    LET active == {s \in Slots : provider[s].active = "diagnostic"}
    IN IF active = {} THEN NoProvider ELSE provider[CHOOSE s \in active : TRUE]

\* _resolved_provider_config: a provider without a key, or with one this process cannot
\* decrypt, is as good as none
Usable(row) == row # NoProvider /\ row.secret \in Contents /\ masterKey
ResolvedProviderConfig(row) ==
    IF Usable(row) THEN [key |-> row.secret, content |-> row.content, model |-> "own"] ELSE NoConfig

\* resolve_model_config: the active provider, or else the environment
ModelConfig(row, env) == IF Usable(row) THEN ResolvedProviderConfig(row) ELSE env

\* _resolve_mode_and_source
ModeOf(config, persisted) ==
    IF persisted # "none" THEN persisted
    ELSE IF config.key \in {"none", "mock"} THEN "mock" ELSE "real"

\* Mutant: the mock mode leaves the key in the configuration.
MockedNothing(config, m) == config
\* resolve_runtime_mode: the mock mode puts its own key over the one there is
Mocked(config, m) == IF m = "mock" THEN [config EXCEPT !.key = "mock"] ELSE config

\* Mutant: the model of the assignment is ignored.
RoleConfigOwn(a, row) == ResolvedProviderConfig(row)
\* resolve_role_llm_configs
RoleConfig(a, row) ==
    IF a # NoAssignment /\ Usable(row) THEN [ResolvedProviderConfig(row) EXCEPT !.model = a.model]
    ELSE NoConfig

\* build_llm_from_config: without a key a client is a mock, whatever the mode
Client(config) == IF config.key = "none" THEN "mock" ELSE config.key

\* build_coordinator: a role without a configuration of its own takes the default
RoleClient(r) == IF reading.roles[r] # NoConfig THEN reading.roles[r] ELSE reading.config

\* _resolve_availability
Available ==
    "mode" \in reading.lost \/ reading.mode = "mock" \/ reading.config.key \notin {"none", "mock"}

\* _model_endpoint_resource: a placeholder is not a configuration
ShownModel ==
    IF reading.config.key \in {"none", "your-key"} \/ reading.config.content = "none"
      THEN NoConfig ELSE [reading.config EXCEPT !.key = "shown"]

\* make_plain_reply_generator: the sample, or a question to the model
AsksTheModel == reading.mode # "mock" /\ reading.config.key \notin {"none", "mock"}

\* list_role_views: the assignment as it is, whether or not the provider can be used; a
\* provider that has gone has no name
RoleView(r) ==
    LET a == reading.assigned[r]
        row == reading.names[r]
    IN IF a = NoAssignment THEN [source |-> "default", name |-> "none", model |-> "none"]
       ELSE [source |-> "assigned", name |-> row.content,
             model |-> IF a.model # "own" THEN a.model ELSE row.content]

-----------------------------------------------------------------------------
(* A reading *)

\* a statement fails
Loses(lost) == IF lost THEN faults < MaxFaults /\ faults' = faults + 1 ELSE UNCHANGED faults
Reads(next) == reading' = next /\ UNCHANGED <<provider, created, keys, assignment, mode, masterKey,
                                               client, sent, born, lapsed>>

\* a Run is built, or the roles are listed; a call of the main agent, a plain reply and GET
\* /model/config read no further than the mode
Begin(how) ==
    /\ reading.pc = "none" /\ sent < MaxOps
    /\ Reads([NoReading EXCEPT !.how = how, !.pc = IF how = "roles" THEN "assignments" ELSE "config"])
    /\ UNCHANGED faults

ReadConfig(lost) ==
    /\ reading.pc = "config"
    /\ Loses(lost)
    /\ \E env \in EnvConfigs :
         Reads([reading EXCEPT !.pc = "mode", !.config = IF lost THEN env ELSE ModelConfig(Serving, env),
                               !.lost = IF lost THEN @ \cup {"config"} ELSE @])

\* the roles are looked up for a real diagnosis only
ReadMode(lost) ==
    LET persisted == IF lost THEN "none" ELSE mode
        m == ModeOf(reading.config, persisted)
    IN /\ reading.pc = "mode"
       /\ Loses(lost)
       /\ Reads([reading EXCEPT !.mode = m, !.config = Mocked(@, m),
                   !.pc = IF m = "real" THEN "assignments" ELSE "done",
                   !.lost = IF lost THEN @ \cup {"mode"} ELSE @])

\* a list of the roles that cannot be read is an error, a build goes on without
ReadAssignments(lost) ==
    /\ reading.pc = "assignments"
    /\ Loses(lost)
    /\ Reads(IF ~lost THEN [reading EXCEPT !.pc = "providers", !.assigned = assignment]
             ELSE IF reading.how = "roles" THEN NoReading
             ELSE [reading EXCEPT !.pc = "done", !.lost = @ \cup {"roles"}])

RowOf(a) == IF a = NoAssignment THEN NoProvider ELSE provider[a.slot]
ReadProviders(lost) ==
    /\ reading.pc = "providers"
    /\ Loses(lost)
    /\ Reads(IF lost THEN IF reading.how = "roles" THEN NoReading
                          ELSE [reading EXCEPT !.pc = "done", !.lost = @ \cup {"roles"}]
             ELSE IF reading.how = "roles"
               THEN [reading EXCEPT !.pc = "done",
                       !.names = [r \in Roles |-> RowOf(reading.assigned[r])]]
             ELSE [reading EXCEPT !.pc = "done",
                     !.roles = [r \in Roles |-> RoleConfig(reading.assigned[r],
                                                           RowOf(reading.assigned[r]))]])

\* The tables go on beside it; a reading takes the place of one request.
Disturbed ==
    reading' = [reading EXCEPT !.steady =
        [mode |-> @.mode /\ mode' = mode, serving |-> @.serving /\ Serving' = Serving,
         roles |-> {r \in @.roles : assignment'[r] = assignment[r]
                                      /\ RowOf(assignment[r])' = RowOf(assignment[r])}]]
TablesStep ==
    /\ Next
    /\ reading.pc # "none" => sent' < MaxOps
    /\ Disturbed

BuildNext ==
    \/ TablesStep
    \/ \E how \in {"build", "roles"} : Begin(how)
    \/ \E lost \in BOOLEAN :
          ReadConfig(lost) \/ ReadMode(lost) \/ ReadAssignments(lost) \/ ReadProviders(lost)

buildVars == <<vars, reading>>
BuildSpec == BuildInit /\ [][BuildNext]_buildVars

-----------------------------------------------------------------------------
(* What is built and shown *)

Resolved == reading.how = "build" /\ reading.pc \notin {"config", "mode"}
Done(how) == reading.pc = "done" /\ reading.how = how

\* In the mock mode no client presents a key, and a mode that a person chose is the mode
\* of all that is built while it stays, unless it could not be read.
MockStaysMock ==
    Resolved =>
        /\ reading.mode = "mock" =>
             ~AsksTheModel /\ \A r \in Roles : Client(RoleClient(r)) = "mock"
        /\ reading.steady.mode /\ mode # "none" /\ "mode" \notin reading.lost => reading.mode = mode

\* What serves while a Run is built is what it is built with, and else the environment is; a
\* real mode that is called available, a plain reply and a Run agree on whether there is a
\* model to ask, and the model that is shown is it.
ServingIsUsed ==
    Resolved /\ reading.mode = "real" =>
        /\ reading.steady.serving /\ "config" \notin reading.lost =>
             IF Usable(Serving) THEN reading.config = ResolvedProviderConfig(Serving)
             ELSE reading.config \in EnvConfigs
        /\ Client(reading.config) # "mock" <=> AsksTheModel
        /\ AsksTheModel => Available
        /\ Available /\ "mode" \notin reading.lost /\ reading.config.key # "your-key" => ShownModel # NoConfig

\* A role whose assignment and provider stay is built with them, where they can be used,
\* and is shown with the provider and the model it is assigned.
RolesAreAsAssigned ==
    \A r \in reading.steady.roles :
        LET a == assignment[r]
            row == RowOf(a)
        IN /\ Done("build") /\ reading.mode = "real" /\ "roles" \notin reading.lost
                => /\ RoleClient(r).key = IF a # NoAssignment /\ Usable(row) THEN row.secret
                                          ELSE reading.config.key
                   /\ a # NoAssignment /\ Usable(row) =>
                        RoleClient(r).content = row.content /\ RoleClient(r).model = a.model
           /\ Done("roles")
                => /\ RoleView(r).source = "assigned" <=> a # NoAssignment
                   /\ a # NoAssignment => RoleView(r).name # "none"

(* However requests change providers, roles and mode between the           *)
(* statements that a build or a view is put together from, and whichever   *)
(* of them fails: the mock mode asks no model, and what stays while it is  *)
(* read is what is used and shown.                                         *)
BuildsAreTrue == MockStaysMock /\ ServingIsUsed /\ RolesAreAsAssigned
=============================================================================

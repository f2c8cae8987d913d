-------------------------- MODULE SourceConnections --------------------------
(***************************************************************************)
(* Source connections: the file the API keeps them in                      *)
(* (common/connection_registry.py, api_service/routers/connections.py) and *)
(* the edge runtime that runs a connector task for each enabled one        *)
(* (edge_ingest/main.py, settings.py, connectors/__init__.py).             *)
(*                                                                         *)
(* The API answers each request without giving up its thread; it changes   *)
(* its memory and then rewrites the file.  The edge reads the file every   *)
(* few seconds, twice in a cycle that finds a change.  Of a definition it  *)
(* matters whether it is complete, which is what activation_errors asks,   *)
(* and which request it came from.                                         *)
(***************************************************************************)
EXTENDS Integers, FiniteSets

CONSTANTS
    Connections,  \* connection ids
    MaxRequests,  \* bound: requests that change the registry
    MaxOutages,   \* bound: failed writes, restarts, connectors that end
    Absent

ASSUME SourceConnectionsAssumption == {MaxRequests, MaxOutages} \subseteq Nat /\ Absent \notin Connections

VARIABLES
    registry,   \* connection-registry.json: a definition or Absent for each id
    apiMemory,  \* ConnectionRegistry._connections of the API process, or Absent when it is down
    requests,   \* requests so far
    outages,    \* outages so far
    edgePc,     \* reconcile_connectors: read, cancel, build, wait
    signature,  \* last_signature; none is {}, for the legacy sources have one
    seen,       \* signature of the cycle
    running,    \* the sources whose connector runs
    ended,      \* history: those whose connector has ended since it was started
    raced,      \* history: what was built, if anything, is not what the cycle had seen
    permitted   \* history: connections enabled by a request and not disabled by one since

apiVars == <<registry, apiMemory, requests, permitted>>
edgeVars == <<edgePc, signature, seen, running, ended, raced>>
connectionVars == <<apiVars, edgeVars, outages>>

States == {"configured", "enabled", "disabled", "retired"}
Definitions ==
    [state : States, enabled : BOOLEAN, version : Nat, complete : BOOLEAN, request : Nat]
Registries == [Connections -> Definitions \cup {Absent}]

\* _legacy_sources: what runs when no connection of the registry is enabled.
Legacy == [id |-> Absent, version |-> 1, request |-> 0]
Sources == [id : Connections, version : 1..MaxRequests, request : 0..MaxRequests] \cup {Legacy}

ConnectionsTypeOK ==
    /\ registry \in Registries
    /\ apiMemory \in Registries \cup {Absent}
    /\ requests \in 0..MaxRequests /\ outages \in 0..MaxOutages
    /\ edgePc \in {"read", "cancel", "build", "wait"}
    /\ {signature, seen} \subseteq SUBSET {<<s.id, s.version>> : s \in Sources}
    /\ running \subseteq Sources /\ ended \subseteq Sources \ running /\ raced \in BOOLEAN
    /\ permitted \subseteq Connections

ConnectionsInit ==
    /\ registry = [c \in Connections |-> Absent]
    /\ apiMemory = registry
    /\ requests = 0 /\ outages = 0
    /\ edgePc = "read" /\ signature = {} /\ seen = {}
    /\ running = {} /\ ended = {} /\ raced = FALSE
    /\ permitted = {}
-----------------------------------------------------------------------------
(* The API. *)

\* connection_from_dict raises for an enabled definition that is not complete, and _load with it.
Loadable(file) ==
    \A c \in Connections : file[c] # Absent /\ file[c].enabled => file[c].complete

\* A request has changed the memory; _persist writes all of it, or raises and the change stays.
Persist(changed) ==
    /\ apiMemory' = changed
    /\ requests' = requests + 1
    /\ \/ registry' = changed /\ UNCHANGED outages
       \/ outages < MaxOutages /\ outages' = outages + 1 /\ UNCHANGED registry
    /\ UNCHANGED edgeVars

RegistryRequest == apiMemory # Absent /\ requests < MaxRequests

\* Mutant of Put: an edit keeps the version.
PutSameVersion(c, incoming) ==
    LET old == apiMemory[c]
    IN  Persist([apiMemory EXCEPT ![c] =
            IF old = Absent THEN incoming
            ELSE [incoming EXCEPT !.version = old.version, !.state = old.state, !.enabled = old.enabled]])

\* Mutant of Put: the incoming definition says whether it is enabled.
PutAsGiven(c, incoming) ==
    LET old == apiMemory[c]
    IN  Persist([apiMemory EXCEPT ![c] =
            IF old = Absent THEN incoming ELSE [incoming EXCEPT !.version = old.version + 1]])

\* put: what is stored already keeps its state and gets the next version.
Put(c, incoming) ==
    LET old == apiMemory[c]
    IN  Persist([apiMemory EXCEPT ![c] =
            IF old = Absent THEN incoming
            ELSE [incoming EXCEPT !.version = old.version + 1, !.state = old.state, !.enabled = old.enabled]])

\* The route POST /connections, also for an id that exists: put validates what was sent, which
\* only says that it is enabled if the caller does.
CreateConnection(c, complete, enabled) ==
    /\ RegistryRequest
    /\ enabled => complete
    /\ Put(c, [state |-> IF enabled THEN "enabled" ELSE "configured", enabled |-> enabled,
               version |-> 1, complete |-> complete, request |-> requests + 1])
    /\ permitted' = IF enabled /\ apiMemory[c] = Absent THEN permitted \cup {c} ELSE permitted

\* The route PUT /connections/{id}: put validates it in the state it has.
UpdateConnection(c, complete) ==
    /\ RegistryRequest
    /\ apiMemory[c] # Absent
    /\ apiMemory[c].enabled => complete
    /\ Put(c, [apiMemory[c] EXCEPT !.complete = complete, !.request = requests + 1])
    /\ UNCHANGED permitted

\* The memory with a connection in another state.
Switched(c, enabled, state) ==
    [apiMemory EXCEPT ![c] = [apiMemory[c] EXCEPT !.enabled = enabled, !.state = state]]

\* set_enabled(id, True).
EnableConnection(c) ==
    /\ RegistryRequest
    /\ apiMemory[c] # Absent /\ apiMemory[c].state # "retired" /\ apiMemory[c].complete
    /\ Persist(Switched(c, TRUE, "enabled"))
    /\ permitted' = permitted \cup {c}

\* The connection is no longer to run; that holds from when the file says so.
Withdraw(c, state) ==
    /\ RegistryRequest
    /\ apiMemory[c] # Absent
    /\ Persist(Switched(c, FALSE, state))
    /\ permitted' = IF registry' = apiMemory' THEN permitted \ {c} ELSE permitted

DisableConnection(c) == Withdraw(c, "disabled") /\ apiMemory[c].state # "retired"
RetireConnection(c) == Withdraw(c, "retired")
RestoreConnection(c) == Withdraw(c, "configured")

\* The API process ends and is started again; without a readable file it does not start.
RestartApi ==
    /\ outages < MaxOutages
    /\ outages' = outages + 1
    /\ apiMemory' = IF Loadable(registry) THEN registry ELSE Absent
    /\ UNCHANGED <<registry, requests, permitted, edgeVars>>
-----------------------------------------------------------------------------
(* The edge runtime. *)

Source(c) == [id |-> c, version |-> registry[c].version, request |-> registry[c].request]

\* source_connections: every call reads the file.
Configured ==
    LET on == {c \in Connections : registry[c] # Absent /\ registry[c].enabled}
    IN  IF on = {} THEN {Legacy} ELSE {Source(c) : c \in on}

\* What of the sources a signature tells apart.
SignatureOf(sources) == {<<s.id, s.version>> : s \in sources}

ReadConfigured ==
    /\ edgePc = "read"
    /\ IF Loadable(registry) /\ SignatureOf(Configured) # signature
       THEN edgePc' = "cancel" /\ seen' = SignatureOf(Configured)
       ELSE edgePc' = "wait" /\ UNCHANGED seen
    /\ UNCHANGED <<apiVars, outages, signature, running, ended, raced>>

\* The tasks are cancelled and awaited; the API goes on meanwhile.
CancelTasks ==
    /\ edgePc = "cancel"
    /\ running' = {} /\ ended' = {}
    /\ edgePc' = "build"
    /\ UNCHANGED <<apiVars, outages, signature, seen, raced>>

\* build_connector_tasks reads the file again; if that raises, the next cycle tries again.
BuildTasks ==
    /\ edgePc = "build"
    /\ IF Loadable(registry)
       THEN running' = Configured /\ raced' = (SignatureOf(Configured) # seen) /\ signature' = seen
       ELSE raced' = TRUE /\ UNCHANGED <<running, signature>>
    /\ edgePc' = "wait"
    /\ UNCHANGED <<apiVars, outages, seen, ended>>

Sleep ==
    /\ edgePc = "wait"
    /\ edgePc' = "read"
    /\ UNCHANGED <<apiVars, outages, signature, seen, running, ended, raced>>

\* A connector returns or raises; _supervise_connector does not start it again.
ConnectorEnds(s) ==
    /\ s \in running /\ outages < MaxOutages
    /\ running' = running \ {s} /\ ended' = ended \cup {s}
    /\ outages' = outages + 1
    /\ UNCHANGED <<apiVars, edgePc, signature, seen, raced>>

RestartEdge ==
    /\ outages < MaxOutages
    /\ outages' = outages + 1
    /\ edgePc' = "read" /\ signature' = {} /\ seen' = {}
    /\ running' = {} /\ ended' = {} /\ raced' = FALSE
    /\ UNCHANGED apiVars

Reconcile == ReadConfigured \/ CancelTasks \/ BuildTasks \/ Sleep

ConnectionsNext ==
    \/ \E c \in Connections, complete, enabled \in BOOLEAN : CreateConnection(c, complete, enabled)
    \/ \E c \in Connections, complete \in BOOLEAN : UpdateConnection(c, complete)
    \/ \E c \in Connections : EnableConnection(c) \/ DisableConnection(c)
    \/ \E c \in Connections : RetireConnection(c) \/ RestoreConnection(c)
    \/ RestartApi \/ RestartEdge \/ \E s \in running : ConnectorEnds(s)
    \/ Reconcile

ConnectionsSpec == ConnectionsInit /\ [][ConnectionsNext]_connectionVars

\* The supervisor task loops for ever.
ConnectionsFairness == WF_connectionVars(Reconcile)
-----------------------------------------------------------------------------
(* A connection the file enables has been enabled by a request since the last one that disabled,
   retired or restored it and was answered with success: no edit, restart or failed write in
   between brings it back. *)
EnabledByRequest ==
    \A c \in Connections : registry[c] # Absent /\ registry[c].enabled => c \in permitted

(* Once requests, restarts and failures are over, the edge runs exactly the definitions the file
   enables, as last edited, but for connectors that ended, which nothing starts again.  Exceptions:
   a file that cannot be loaded, and one that changed, or could not be read, while the old
   connectors were being cancelled, and whose signature is again the one kept. *)
EdgeFollowsRegistry ==
    <>[](\/ ~Loadable(registry)
         \/ raced /\ signature = SignatureOf(Configured)
         \/ running \cup ended = Configured)
=============================================================================

---------------------------- MODULE HttpFrontend ----------------------------
(***************************************************************************)
(* Dynamo's HTTP frontend: HttpFrontend.run from its checks to the end of  *)
(* the server, and, for a dynamic engine, the two tasks run_watcher        *)
(* spawns.  The model watcher changes the model manager's catalog and then *)
(* sends an update on a bounded channel; the endpoint enabler receives the *)
(* updates and sets the process-wide endpoint flags from the catalog as it *)
(* finds it by then.  Source: frontend-startup-main-http.rs.  The watcher, *)
(* the manager, the HTTP service and discovery are outside the repository; *)
(* setting the flag of an endpoint a card names is taken not to fail, and   *)
(* the metrics update of an added card, which nothing here reads, is left  *)
(* out.                                                                    *)
(***************************************************************************)
EXTENDS Naturals, Sequences, FiniteSets

CONSTANTS
  Configs,        \* start-up configurations, records of Booleans
  Models,         \* model cards that may come and go
  Units,          \* single model types (chat, completions, ...)
  UnitsOf,        \* [Models -> SUBSET Units], a card's model_type
  EndpointTypes,  \* endpoints that have a process-wide flag
  EndpointsOf,    \* [Units -> SUBSET EndpointTypes], as_endpoint_types...
  Batch,          \* the endpoint type an in-process engine does not enable
  ChannelSize,    \* capacity of the update channel (32 in the code)
  MaxChanges      \* bound: changes of the catalog

(***************************************************************************)
(* The last line is a fact about as_endpoint_types_with_anthropic that     *)
(* update_http_endpoints relies on: no two single model types share an     *)
(* endpoint.  Without it the removal of a model would retract an endpoint  *)
(* that a model of another type needs.                                     *)
(***************************************************************************)
ASSUME FrontendAssumption ==
  /\ UnitsOf \in [Models -> SUBSET Units]
  /\ EndpointsOf \in [Units -> SUBSET EndpointTypes]
  /\ MaxChanges \in Nat
  /\ \A u, v \in Units : u # v => EndpointsOf[u] \cap EndpointsOf[v] = {}

VARIABLES
  config,    \* the configuration the frontend was started with
  phase,     \* where run stands
  traces,    \* request trace registrations held (ActiveInput)
  shutdown,  \* the runtime's primary token is cancelled
  catalog,   \* models the model manager serves
  unsent,    \* update the watcher has yet to send, or <<>>
  updates,   \* the update channel
  unchecked, \* units of a removed card the enabler has yet to look at
  vacated,   \* units the enabler found without a model, about to be retracted
  enabled,   \* endpoint flags of the HTTP service
  changes    \* changes of the catalog so far

frontendVars == <<config, phase, traces, shutdown, catalog, unsent, updates,
                  unchecked, vacated, enabled, changes>>

Updates == {"Added", "Removed"} \X Models

FrontendTypeOK ==
  /\ config \in Configs
  /\ phase \in {"run", "initialise", "build", "start", "serve", "abort",
                "drain", "rejected", "failed", "returned"}
  /\ traces \in 0..1 /\ shutdown \in BOOLEAN
  /\ catalog \subseteq Models
  /\ unsent \in Updates \cup {<<>>} /\ updates \in Seq(Updates)
  /\ unchecked \subseteq Units /\ vacated \subseteq Units
  /\ enabled \subseteq EndpointTypes
  /\ changes \in 0..MaxChanges

FrontendInit ==
  /\ config \in Configs
  /\ phase = "run" /\ traces = 0 /\ shutdown = FALSE
  /\ catalog = {} /\ unsent = <<>> /\ updates = <<>>
  /\ unchecked = {} /\ vacated = {} /\ enabled = {} /\ changes = 0

tasks == <<catalog, unsent, updates, unchecked, vacated, enabled, changes>>

(***************************************************************************)
(* HttpFrontend.run.  A configuration says whether the engine is dynamic,  *)
(* which plugins are installed, whether the router is a KV router, whether *)
(* validate_config accepts the policy, and whether the TLS paths given are *)
(* complete and exist.                                                     *)
(***************************************************************************)
Refused(c) ==
  \/ c.classifier /\ ~c.kv
  \/ c.custom /\ ~c.dynamic
  \/ ~c.policy

Check ==
  /\ phase = "run"
  /\ IF Refused(config) THEN phase' = "rejected" /\ UNCHANGED traces
                        ELSE phase' = "initialise" /\ traces' = traces + 1
  /\ UNCHANGED <<config, shutdown, tasks>>

Initialise ==
  /\ phase = "initialise"
  /\ phase' = IF config.tls THEN "build" ELSE "abort"
  /\ UNCHANGED <<config, traces, shutdown, tasks>>

\* The service is built; an in-process engine, whose model never comes or
\* goes, then enables every model endpoint but Batch.  Any of this may fail.
Build ==
  /\ phase = "build"
  /\ \/ phase' = "abort" /\ UNCHANGED enabled
     \/ /\ phase' = IF config.dynamic THEN "start" ELSE "serve"
        /\ enabled' = IF config.dynamic THEN {} ELSE EndpointTypes \ {Batch}
  /\ UNCHANGED <<config, traces, shutdown, catalog, unsent, updates,
                 unchecked, vacated, changes>>

\* run_watcher: the watch is opened and the two tasks spawned, or it fails.
RunWatcher ==
  /\ phase = "start"
  /\ phase' \in {"serve", "abort"}
  /\ UNCHANGED <<config, traces, shutdown, tasks>>

\* http_service.run returns: its port is taken or the primary token is
\* cancelled.  The runtime is shut down in either case.
ServerExits ==
  /\ phase = "serve"
  /\ phase' = "drain"
  /\ shutdown' = TRUE
  /\ UNCHANGED <<config, traces, tasks>>

CancelPrimary ==
  /\ ~shutdown /\ phase # "rejected"
  /\ shutdown' = TRUE
  /\ UNCHANGED <<config, phase, traces, tasks>>

\* However run_with_router_plugins ends, the trace sinks are drained.
Drain ==
  /\ phase \in {"abort", "drain"}
  /\ phase' = IF phase = "abort" THEN "failed" ELSE "returned"
  /\ traces' = traces - 1
  /\ UNCHANGED <<config, shutdown, tasks>>

(***************************************************************************)
(* The watcher: it changes the catalog before it emits the update, and     *)
(* waits while the channel is full.                                        *)
(***************************************************************************)
Watching == config.dynamic /\ phase \in {"serve", "drain", "returned"}

Change(kind, m) ==
  /\ Watching /\ ~shutdown /\ unsent = <<>> /\ changes < MaxChanges
  /\ kind = "Added" <=> m \notin catalog
  /\ catalog' = IF kind = "Added" THEN catalog \cup {m} ELSE catalog \ {m}
  /\ unsent' = <<kind, m>>
  /\ changes' = changes + 1
  /\ UNCHANGED <<config, phase, traces, shutdown, updates, unchecked, vacated,
                 enabled>>

Send ==
  /\ unsent # <<>> /\ Len(updates) < ChannelSize
  /\ updates' = Append(updates, unsent)
  /\ unsent' = <<>>
  /\ UNCHANGED <<config, phase, traces, shutdown, catalog, unchecked, vacated,
                 enabled, changes>>

(***************************************************************************)
(* The enabler: update_http_endpoints.  For a removal each unit of the     *)
(* card is looked up in the live catalog, one after the other and here in  *)
(* any order, and the flags of those without a model are cleared after the *)
(* last, while the watcher goes on changing the catalog.                   *)
(***************************************************************************)
Types(units) == UNION {EndpointsOf[u] : u \in units}
HasModelsOfType(unit) == \E m \in catalog : unit \in UnitsOf[m]
\* Mutant: the units of the removed card are retracted unseen.
VacatedUnseen(unit) == TRUE
Vacated(unit) == ~HasModelsOfType(unit)
NextUpdate(kind) ==
  /\ unchecked = {} /\ vacated = {}
  /\ updates # <<>> /\ Head(updates)[1] = kind
  /\ updates' = Tail(updates)

Added ==
  /\ NextUpdate("Added")
  /\ enabled' = enabled \cup Types(UnitsOf[Head(updates)[2]])
  /\ UNCHANGED <<config, phase, traces, shutdown, catalog, unsent, unchecked,
                 vacated, changes>>

Removed ==
  /\ NextUpdate("Removed")
  /\ unchecked' = UnitsOf[Head(updates)[2]]
  /\ UNCHANGED <<config, phase, traces, shutdown, catalog, unsent, vacated,
                 enabled, changes>>

CheckUnit(unit) ==
  /\ unit \in unchecked
  /\ unchecked' = unchecked \ {unit}
  /\ vacated' = IF Vacated(unit) THEN vacated \cup {unit} ELSE vacated
  /\ UNCHANGED <<config, phase, traces, shutdown, catalog, unsent, updates,
                 enabled, changes>>

Retract ==
  /\ unchecked = {} /\ vacated # {}
  /\ enabled' = enabled \ Types(vacated)
  /\ vacated' = {}
  /\ UNCHANGED <<config, phase, traces, shutdown, catalog, unsent, updates,
                 unchecked, changes>>

FrontendNext ==
  \/ Check \/ Initialise \/ Build \/ RunWatcher \/ ServerExits \/ Drain
  \/ CancelPrimary
  \/ \E kind \in {"Added", "Removed"}, m \in Models : Change(kind, m)
  \/ Send \/ Added \/ Removed \/ Retract
  \/ \E unit \in Units : CheckUnit(unit)

FrontendSpec == FrontendInit /\ [][FrontendNext]_frontendVars

----------------------------------------------------------------------------
(***************************************************************************)
(* Whenever the enabler has caught up, the flags of a dynamic frontend are *)
(* exactly those of the models the catalog holds: a removal handled        *)
(* late, after the same or another model of its type came back, or between *)
(* the looks at two units of its card, neither hides a live model nor      *)
(* leaves a vacated endpoint answering.                                    *)
(***************************************************************************)
CaughtUp == unsent = <<>> /\ updates = <<>> /\ unchecked = {} /\ vacated = {}
EndpointsFollowCatalog ==
  /\ FrontendTypeOK
  /\ config.dynamic /\ CaughtUp =>
       enabled = Types(UNION {UnitsOf[m] : m \in catalog})
=============================================================================

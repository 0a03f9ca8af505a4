------------------------- MODULE EndpointLifecycle -------------------------
(***************************************************************************)
(* The endpoints of one Dynamo runtime, from EndpointConfigBuilder's       *)
(* start_with_registration to the cleanup task it spawns, and the sleep    *)
(* and wake calls of Endpoint that take an instance out of discovery and   *)
(* put it back.  Sources: frontend-startup-main-endpoint.rs and the v1.5.0 *)
(* file frontend-startup-release-endpoint.rs.                              *)
(*                                                                         *)
(* Every await of the code is a point where another task runs, so each     *)
(* action below is the code between two awaits.  The request plane server, *)
(* the discovery plane and the graceful shutdown tracker are outside the   *)
(* repository: they are sets and a counter, and a call to one of the first *)
(* two may fail without an effect.                                         *)
(***************************************************************************)
EXTENDS Integers, FiniteSets

CONSTANTS
  Endpoints,    \* endpoints of the runtime; one connection id serves them all
  Graceful,     \* those with graceful_shutdown = true
  Checked,      \* those with a health_check_payload
  Local,        \* those whose engine is in the local endpoint registry
  Builds,       \* [release, fixedPort, canary]: v1.5.0's build_transport_type
                \* instead of main's, DYN_TCP_RPC_PORT set to a port, and
                \* SystemHealth.health_check_enabled()
  MaxFaults,    \* bound: calls to the outside that fail
  MaxCalls      \* bound: sleep and wake calls

ASSUME EndpointAssumption ==
  IsFiniteSet(Endpoints) /\ MaxFaults \in Nat /\ MaxCalls \in Nat

VARIABLES
  build,      \* the build and its configuration
  bound,      \* the TCP request plane server has bound its address
  step,       \* where start_with_registration, then its cleanup task, stands
  closing,    \* endpoints whose shutdown token is cancelled
  stopping,   \* the runtime's endpoint shutdown token is cancelled
  handlers,   \* endpoints the request plane server dispatches to
  targets,    \* health check targets of SystemHealth
  tracker,    \* count of the graceful shutdown tracker
  published,  \* endpoints whose instance is in the discovery plane
  call,       \* sleep or wake call in flight on each endpoint
  faults,     \* outside calls that failed so far
  calls,      \* sleep and wake calls made so far
  refused,    \* history: instances the cleanup could not withdraw
  strays      \* history: instances a wake published while the endpoint was
              \* not serving: before its start ended or after its withdrawal

endpointVars == <<build, bound, step, closing, stopping, handlers, targets,
                  tracker, published, call, faults, calls, refused, strays>>
entryVars == <<published, refused, strays>>

EndpointTypeOK ==
  /\ build \in Builds /\ bound \in BOOLEAN /\ stopping \in BOOLEAN
  /\ step \in [Endpoints -> {"idle", "server", "transport", "register",
                             "discover", "rollback", "failed", "serving",
                             "remove", "done"}]
  /\ {closing, handlers, targets, published, refused, strays} \subseteq SUBSET Endpoints
  /\ tracker \in Int
  /\ call \in [Endpoints -> {"none", "sleep", "wake", "sleeping", "waking"}]
  /\ faults \in 0..MaxFaults /\ calls \in 0..MaxCalls

EndpointInit ==
  /\ build \in Builds /\ bound = FALSE /\ stopping = FALSE
  /\ step = [e \in Endpoints |-> "idle"]
  /\ closing = {} /\ handlers = {} /\ targets = {} /\ published = {}
  /\ refused = {} /\ strays = {}
  /\ tracker = 0
  /\ call = [e \in Endpoints |-> "none"]
  /\ faults = 0 /\ calls = 0

\* A call to the outside fails: the bounded number of faults is the model's.
Fault == faults < MaxFaults /\ faults' = faults + 1

\* The discovery plane drops the instance, however it got there.
Unpublish(e) ==
  /\ published' = published \ {e} /\ refused' = refused \ {e}
  /\ strays' = strays \ {e}

MoveTo(e, there) == step' = [step EXCEPT ![e] = there]

(***************************************************************************)
(* build_transport_type.  main initialises the TCP server before it reads  *)
(* the bound address.  v1.5.0 skips that when a fixed port is configured,  *)
(* but `unwrap_or(get_actual_tcp_rpc_port()?)` evaluates its argument, so  *)
(* the lookup of the bound port still fails while nothing is bound.        *)
(***************************************************************************)
InitialisesServer == ~(build.release /\ build.fixedPort)
TransportBuilt == IF InitialisesServer THEN bound' = TRUE
                                       ELSE bound /\ UNCHANGED bound
TransportRefused ==
  /\ ~bound /\ UNCHANGED bound
  /\ IF InitialisesServer THEN Fault ELSE UNCHANGED faults

(***************************************************************************)
(* start_with_registration.                                                *)
(***************************************************************************)
StartEndpoint(e) ==
  /\ step[e] = "idle"
  /\ \/ /\ MoveTo(e, "server")
        /\ closing' = IF stopping THEN closing \cup {e} ELSE closing  \* child_token
        /\ UNCHANGED faults
     \/ Fault /\ MoveTo(e, "failed") /\ UNCHANGED closing         \* add_metrics
  /\ UNCHANGED <<build, bound, stopping, handlers, targets, tracker, entryVars,
                 call, calls>>

RequestPlaneServer(e) ==
  /\ step[e] = "server"
  /\ \/ bound' = TRUE /\ MoveTo(e, "transport") /\ UNCHANGED faults
     \/ ~bound /\ Fault /\ MoveTo(e, "failed") /\ UNCHANGED bound
  /\ UNCHANGED <<build, closing, stopping, handlers, targets, tracker, entryVars, call,
                 calls>>

\* The transport is built and the health check target registered, or the
\* endpoint is refused because the canary would have no engine to call, or
\* the handler refuses the target's notifier.
CanaryWithoutEngine(e) == e \in Checked /\ build.canary /\ e \notin Local
Prepare(e) ==
  /\ step[e] = "transport"
  /\ TransportBuilt
  /\ IF CanaryWithoutEngine(e)
     THEN MoveTo(e, "failed") /\ UNCHANGED <<targets, faults>>
     ELSE /\ targets' = targets \cup ({e} \cap Checked)
          /\ \/ MoveTo(e, "register") /\ UNCHANGED faults
             \/ e \in Checked /\ Fault /\ MoveTo(e, "failed")
  /\ UNCHANGED <<build, closing, stopping, handlers, tracker, entryVars, call, calls>>

RegisterEndpoint(e) ==
  /\ step[e] = "register"
  /\ \/ /\ handlers' = handlers \cup {e}
        /\ tracker' = IF e \in Graceful THEN tracker + 1 ELSE tracker
        /\ MoveTo(e, "discover")
        /\ UNCHANGED faults
     \/ Fault /\ MoveTo(e, "failed") /\ UNCHANGED <<handlers, tracker>>
  /\ UNCHANGED <<build, bound, closing, stopping, targets, entryVars, call, calls>>

\* discovery.register: the last step of a start that succeeds.
Discover(e) ==
  /\ step[e] = "discover"
  /\ \/ /\ published' = published \cup {e} /\ strays' = strays \ {e}
        /\ MoveTo(e, "serving")
        /\ UNCHANGED <<faults, refused>>
     \/ Fault /\ MoveTo(e, "rollback") /\ UNCHANGED entryVars
  /\ UNCHANGED <<build, bound, closing, stopping, handlers, targets, tracker, call,
                 calls>>

\* The handler leaves the server; the result of that call is ignored.
Untrack(e) == tracker' = IF e \in Graceful THEN tracker - 1 ELSE tracker
RemoveHandler(e) ==
  \/ handlers' = handlers \ {e} /\ UNCHANGED faults
  \/ Fault /\ UNCHANGED handlers

\* Mutant: a failed registration keeps its place in the shutdown tracker.
RollbackTracked(e) ==
  /\ step[e] = "rollback"
  /\ RemoveHandler(e)
  /\ MoveTo(e, "failed")
  /\ UNCHANGED <<build, bound, closing, stopping, targets, tracker, entryVars, call,
                 calls>>

Rollback(e) ==
  /\ step[e] = "rollback"
  /\ RemoveHandler(e)
  /\ Untrack(e)
  /\ MoveTo(e, "failed")
  /\ UNCHANGED <<build, bound, closing, stopping, targets, entryVars, call, calls>>

(***************************************************************************)
(* Shutdown: StartedEndpoint.shutdown cancels one endpoint's token, the    *)
(* runtime's shutdown cancels them all; the cleanup task then withdraws    *)
(* the instance, removes the handler and releases the tracker, in this     *)
(* order and whatever the calls answer.                                    *)
(***************************************************************************)
Shutdown(e) ==
  /\ step[e] = "serving" /\ e \notin closing
  /\ closing' = closing \cup {e}
  /\ UNCHANGED <<build, bound, step, stopping, handlers, targets, tracker, entryVars,
                 call, faults, calls>>

RuntimeStops ==
  /\ ~stopping
  /\ stopping' = TRUE
  /\ closing' = {e \in Endpoints : step[e] # "idle"} \cup closing
  /\ UNCHANGED <<build, bound, step, handlers, targets, tracker, entryVars, call,
                 faults, calls>>

\* Mutant: the cleanup leaves the instance in discovery.
WithdrawForgotten(e) ==
  /\ step[e] = "serving" /\ e \in closing
  /\ MoveTo(e, "remove")
  /\ UNCHANGED <<build, bound, closing, stopping, handlers, targets, tracker, entryVars,
                 call, faults, calls>>

Withdraw(e) ==
  /\ step[e] = "serving" /\ e \in closing
  /\ \/ Unpublish(e) /\ UNCHANGED faults
     \/ /\ Fault /\ refused' = refused \cup ({e} \cap published)
        /\ UNCHANGED <<published, strays>>
  /\ MoveTo(e, "remove")
  /\ UNCHANGED <<build, bound, closing, stopping, handlers, targets, tracker, call,
                 calls>>

Remove(e) ==
  /\ step[e] = "remove"
  /\ RemoveHandler(e)
  /\ Untrack(e)
  /\ MoveTo(e, "done")
  /\ UNCHANGED <<build, bound, closing, stopping, targets, entryVars, call, calls>>

(***************************************************************************)
(* Endpoint.unregister_endpoint_instance ("sleep") and                     *)
(* register_endpoint_instance ("wake"): the transport is built, then       *)
(* discovery is called.  Neither looks at where the start or the cleanup   *)
(* of the endpoint stands.                                                 *)
(***************************************************************************)
Call(e, kind) ==
  /\ call[e] = "none" /\ calls < MaxCalls
  /\ call' = [call EXCEPT ![e] = kind]
  /\ calls' = calls + 1
  /\ UNCHANGED <<build, bound, step, closing, stopping, handlers, targets, tracker,
                 entryVars, faults>>

Return(e) == call' = [call EXCEPT ![e] = "none"]

CallTransport(e) ==
  /\ call[e] \in {"sleep", "wake"}
  /\ \/ /\ TransportBuilt
        /\ call' = [call EXCEPT ![e] =
                      IF @ = "sleep" THEN "sleeping" ELSE "waking"]
        /\ UNCHANGED faults
     \/ TransportRefused /\ Return(e)
  /\ UNCHANGED <<build, step, closing, stopping, handlers, targets, tracker, entryVars,
                 calls>>

CallDiscovery(e) ==
  /\ call[e] \in {"sleeping", "waking"}
  /\ Return(e)
  /\ \/ call[e] = "sleeping" /\ Unpublish(e) /\ UNCHANGED faults
     \/ /\ call[e] = "waking"
        /\ published' = published \cup {e}
        /\ strays' = IF step[e] = "serving" THEN strays ELSE strays \cup {e}
        /\ UNCHANGED <<refused, faults>>
     \/ Fault /\ UNCHANGED entryVars
  /\ UNCHANGED <<build, bound, step, closing, stopping, handlers, targets, tracker, calls>>

Step(e) ==
  \/ RequestPlaneServer(e) \/ Prepare(e) \/ RegisterEndpoint(e)
  \/ Discover(e) \/ Rollback(e) \/ Withdraw(e) \/ Remove(e)
Caller(e) == CallTransport(e) \/ CallDiscovery(e)

EndpointNext ==
  \/ RuntimeStops
  \/ \E e \in Endpoints :
       \/ StartEndpoint(e) \/ Shutdown(e) \/ Step(e) \/ Caller(e)
       \/ \E kind \in {"sleep", "wake"} : Call(e, kind)

\* The executor runs every ready task and the outside answers every call.
EndpointFairness == \A e \in Endpoints : WF_endpointVars(Step(e)) /\ WF_endpointVars(Caller(e))

EndpointSpec == EndpointInit /\ [][EndpointNext]_endpointVars /\ EndpointFairness

----------------------------------------------------------------------------
(***************************************************************************)
(* An instance a router can find is one the server dispatches to, through  *)
(* failed starts, sleep, wake and cleanup, and is gone when the cleanup is *)
(* done.  There are two exceptions: discovery itself refused the           *)
(* withdrawal, of which the cleanup only warns, or the instance was        *)
(* published by a wake that came to discovery before the start had ended   *)
(* or after the cleanup's withdrawal.  (start_with_registration, its       *)
(* cleanup task, register_endpoint_instance)                               *)
(***************************************************************************)
PublishedIsServed ==
  /\ EndpointTypeOK
  /\ \A e \in published :
       \/ e \in handlers /\ step[e] # "done"
       \/ e \in refused /\ step[e] = "done"
       \/ e \in strays

(***************************************************************************)
(* A runtime shutdown drains: the tracker the runtime waits on returns to  *)
(* zero and every endpoint that was starting or serving ends, on every     *)
(* failing path of start_with_registration and of the cleanup task.        *)
(***************************************************************************)
ShutdownDrains ==
  stopping ~> /\ tracker = 0
              /\ \A e \in Endpoints : step[e] \in {"idle", "failed", "done"}

(***************************************************************************)
(* The cleanup task "unregisters on cancellation" (main endpoint.rs:271):  *)
(* with no failed call, an endpoint whose task is done is not published.   *)
(***************************************************************************)
CleanupUnregisters ==
  faults = 0 => \A e \in Endpoints : step[e] = "done" => e \notin published
=============================================================================

------------------------------ MODULE MCDynamo ------------------------------
(***************************************************************************)
(* Three concurrent parts of a Dynamo process side by side: the warmup     *)
(* tasks (SpeculativePrefill), the endpoints of a runtime                  *)
(* (EndpointLifecycle) and the HTTP frontend (HttpFrontend).  A behaviour  *)
(* is one of a single part, chosen in DynamoInit; the variables of the     *)
(* others keep the value of one of their initial states.                   *)
(***************************************************************************)
EXTENDS SpeculativePrefill, EndpointLifecycle, HttpFrontend, TLC

CONSTANTS w1, w2, p1, p2

VARIABLE component

dynamoVars == <<component, vars, endpointVars, frontendVars>>

----------------------------------------------------------------------------
(* Two requests on two preprocessors that share the admission semaphore.   *)
MCWarmups == {w1, w2}
MCPreprocessors == {p1, p2}
MCOwnerOf == (w1 :> p1) @@ (w2 :> p2)

(* Two health checked endpoints: a tracked one with a local engine, and    *)
(* one that is not tracked and has none, which the canary refuses.  Main   *)
(* with the canary, v1.5.0 with a fixed port without.                      *)
MCEndpoints == {"generate", "embed"}
MCGraceful == {"generate"}
MCChecked == {"generate", "embed"}
MCLocal == {"generate"}
Main == [release |-> FALSE, fixedPort |-> FALSE, canary |-> TRUE]
MCBuilds == {Main, [release |-> TRUE, fixedPort |-> TRUE, canary |-> FALSE]}

(* A base model, an adapter of the same type, and an embedding model that  *)
(* also chats; every start-up configuration.                               *)
MCConfigs == [dynamic : BOOLEAN, classifier : BOOLEAN, kv : BOOLEAN,
              custom : BOOLEAN, policy : BOOLEAN, tls : BOOLEAN]
MCModels == {"base", "adapter", "both"}
MCUnits == {"Chat", "Embedding"}
MCUnitsOf == [m \in MCModels |-> IF m = "both" THEN MCUnits ELSE {"Chat"}]
MCEndpointTypes == {"Chat", "Responses", "Embedding", "Batch"}
MCEndpointsOf == [u \in MCUnits |-> IF u = "Chat" THEN {"Chat", "Responses"}
                                                  ELSE {"Embedding"}]

----------------------------------------------------------------------------
DynamoInit ==
  /\ component \in {"prefill", "endpoint", "frontend"}
  /\ Init /\ EndpointInit /\ FrontendInit
  /\ component # "endpoint" => build = Main
  /\ component # "frontend" => config = [c \in DOMAIN config |-> FALSE]

InPrefill(action) ==
  /\ component = "prefill" /\ action
  /\ UNCHANGED <<component, endpointVars, frontendVars>>
InEndpoint(action) ==
  /\ component = "endpoint" /\ action
  /\ UNCHANGED <<component, vars, frontendVars>>

DynamoNext ==
  \/ InPrefill(Next)
  \/ InEndpoint(EndpointNext)
  \/ component = "frontend" /\ FrontendNext
     /\ UNCHANGED <<component, vars, endpointVars>>

\* The fairness of the parts, each for the behaviours that are its own.
DynamoFairness ==
  /\ \A w \in Warmups :
       /\ WF_dynamoVars(InPrefill(Task(w)))
       /\ WF_dynamoVars(InPrefill(Timeout(w)))
       /\ WF_dynamoVars(InPrefill(GraceExpires(w)))
  /\ \A e \in Endpoints :
       /\ WF_dynamoVars(InEndpoint(Step(e)))
       /\ WF_dynamoVars(InEndpoint(Caller(e)))

DynamoSpec == DynamoInit /\ [][DynamoNext]_dynamoVars /\ DynamoFairness
=============================================================================

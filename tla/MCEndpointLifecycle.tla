------------------------ MODULE MCEndpointLifecycle ------------------------
(* One tracked and health checked endpoint of main, whose callers wake it  *)
(* whenever they like.                                                     *)
EXTENDS EndpointLifecycle

MCEndpoints == {"generate"}
MCBuilds == {[release |-> FALSE, fixedPort |-> FALSE, canary |-> TRUE]}
=============================================================================

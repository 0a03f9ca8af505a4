--------------------------- MODULE MCEpochMetrics ---------------------------
(* Without a sidecar the process start and the creation times are exported  *)
(* or not; with one they are not, so that it is the only witness.  Its      *)
(* window either has a request or a scrape that fails.                      *)
EXTENDS EpochMetrics

MCPlain == [identity : {FALSE}, processStart : BOOLEAN, created : BOOLEAN,
            requests : {2}, drains : {5}, faults : {1}]
Sidecar(requests, faulty) ==
  [identity |-> TRUE, processStart |-> FALSE, created |-> FALSE,
   requests |-> requests, drains |-> 4, faults |-> faulty]
MCSettings == MCPlain \cup {Sidecar(1, 0), Sidecar(0, 1)}
=============================================================================

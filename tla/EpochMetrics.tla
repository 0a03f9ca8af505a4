---------------------------- MODULE EpochMetrics ----------------------------
(***************************************************************************)
(* EpochMetrics (dynamo_metrics.py) measures one replay epoch of a server  *)
(* that keeps serving, may restart, and is watched by an identity sidecar  *)
(* (metrics_identity.py).  Two tasks of one event loop scrape: main, at    *)
(* the start and in the drain, and the sampler in between.  Every request  *)
(* of a scrape is an await, so server steps fall between any two of them.  *)
(***************************************************************************)
EXTENDS Integers, Sequences, FiniteSets, SequencesExt

CONSTANTS
    Settings,       \* the configurations of the window and the server
                    \* with the bounds they are checked with: requests the
                    \* server gets, drain scrapes (the drain deadline may come
                    \* earlier), HTTP requests that fail for no other reason
    MaxRestarts,    \* bound: restarts of the server, and of the sidecar
    MaxSamples,     \* bound: scrapes of the sampler
    None

ASSUME EpochConstants ==
    /\ Settings \subseteq [identity : BOOLEAN, processStart : BOOLEAN, created : BOOLEAN,
                            requests : Nat, drains : Nat \ {0}, faults : Nat]
    /\ {MaxRestarts, MaxSamples} \subseteq Nat
    /\ None \notin Int

VARIABLES
    settings,   \* identity_url given; process start and _created exported
    server,     \* the server process: generation, running, finished; begun is its history
    monitor,    \* the sidecar: its monitor_id and the generation it has pinned
    faults,     \* failed requests so far
    pc,         \* where main is
    task,       \* the sampler task
    stop,       \* _stop_sampling is set
    scrape,     \* the scrape each task is in
    samples, identities, errors,    \* _samples, _identity_samples, _errors
    before, after,                  \* _before and _after
    quiet, previous, drains,        \* the drain loop
    result

externalVars == <<server, monitor, faults>>
logVars == <<samples, identities, errors>>
drainVars == <<quiet, previous, drains>>
vars == <<settings, externalVars, pc, task, stop, scrape, logVars, before, after, drainVars, result>>

Tasks == {"main", "sampler"}
NoScrape == [stage |-> "none", phase |-> "none", first |-> None, metrics |-> None]
NotStarted == [reported |-> FALSE]

(* _scrape begins: bracketed by identities if there is a sidecar. *)
Begin(phase) ==
    [NoScrape EXCEPT !.stage = IF settings.identity THEN "first" ELSE "get", !.phase = phase]

Init ==
    /\ settings \in Settings
    /\ server = [generation |-> 0, running |-> 0, finished |-> 0, begun |-> 0]
    /\ monitor = [id |-> 0, pinned |-> 0]
    /\ faults = 0
    /\ pc = "before" /\ task = "none" /\ stop = FALSE
    /\ scrape = [t \in Tasks |-> IF t = "main" THEN Begin("before") ELSE NoScrape]
    /\ samples = <<>> /\ identities = <<>> /\ errors = FALSE
    /\ before = None /\ after = None
    /\ quiet = 0 /\ previous = None /\ drains = 0
    /\ result = NotStarted

---------------------------------------------------------------------------
(***************************************************************************)
(* The server and its sidecar, which nobody here controls.  A server       *)
(* publishes the end of a request in its gauge and its counter at once: no *)
(* report could allow for a counter that follows after the drain has seen  *)
(* three quiet intervals, as its limitations say (dynamo_metrics.py:151).  *)
(***************************************************************************)
RequestBegins ==
    /\ server.begun < settings.requests
    /\ server' = [server EXCEPT !.begun = @ + 1, !.running = @ + 1]
    /\ UNCHANGED monitor

RequestEnds ==
    /\ server.running > 0
    /\ server' = [server EXCEPT !.running = @ - 1, !.finished = @ + 1]
    /\ UNCHANGED monitor

ServerRestarts ==
    /\ server.generation < MaxRestarts
    /\ server' = [server EXCEPT !.generation = @ + 1, !.running = 0, !.finished = 0]
    /\ UNCHANGED monitor

(* ProcessMonitor pins what it finds when it starts. *)
MonitorRestarts ==
    /\ settings.identity /\ monitor.id < MaxRestarts
    /\ monitor' = [id |-> monitor.id + 1, pinned |-> server.generation]
    /\ UNCHANGED server

(* Nothing looks at the server once the window is closed. *)
Environment ==
    /\ pc # "done"
    /\ RequestBegins \/ RequestEnds \/ ServerRestarts \/ MonitorRestarts
    /\ UNCHANGED <<settings, faults, pc, task, stop, scrape, logVars, before, after, drainVars, result>>

(* A sidecar that answers for whatever process is there. *)
SnapshotUnpinned == monitor.id

(* snapshot() answers only while it sees what it has pinned. *)
Snapshot == IF server.generation = monitor.pinned THEN monitor.id ELSE None

Metrics(phase) ==
    [phase |-> phase, generation |-> server.generation, count |-> server.finished,
     running |-> server.running, begun |-> server.begun]

(* A request is answered, or fails like any HTTP request may. *)
Reply(value, got) ==
    \/ got = value /\ UNCHANGED faults
    \/ faults < settings.faults /\ got = None /\ faults' = faults + 1

(* A drain and a start that only ask for an answer. *)
IdleUnchecked(s) == s # None

---------------------------------------------------------------------------
(***************************************************************************)
(* What _report computes from the samples.                                 *)
(***************************************************************************)
Start(s) == IF settings.processStart THEN s.generation ELSE None
Created(s) == IF settings.created THEN s.generation ELSE None
Idle(s) == s # None /\ s.running = 0

(* A check of the first two samples only. *)
ProcessRestartedAtOnce(rows) == Len(rows) > 1 /\ Start(rows[2]) # Start(rows[1])

ProcessRestarted(rows) == \E i \in DOMAIN rows : Start(rows[i]) # Start(rows[1])

IdentityValues(ids) == {ids[i].first : i \in DOMAIN ids} \cup {ids[i].last : i \in DOMAIN ids}

Delta(rows) ==
    CASE \E i \in DOMAIN rows : Created(rows[i]) # Created(rows[1]) -> None
      [] \E i \in 2..Len(rows) : rows[i].count < rows[i - 1].count -> None
      [] OTHER -> rows[Len(rows)].count - rows[1].count

(* A verdict that overlooks the failed requests. *)
ReportIgnoresErrors(last, log, drained) ==
    LET ids == log.ids
        boundaries == before # None /\ last # None
        identityObservable == ids # <<>> /\ None \notin IdentityValues(ids)
        restarted == ProcessRestarted(log.rows) \/ Cardinality(IdentityValues(ids) \ {None}) > 1
        observable == IF settings.identity THEN identityObservable
                      ELSE log.rows # <<>> /\ settings.processStart
    IN [reported |-> TRUE, restarted |-> restarted, drained |-> drained,
        delta |-> IF boundaries /\ ~restarted /\ (settings.identity => identityObservable)
                  THEN Delta(log.rows) ELSE None,
        valid |-> boundaries /\ Idle(before) /\ drained /\ observable /\ ~restarted]

(* log holds the samples, the identities and whether there were errors. *)
Report(last, log, drained) ==
    LET ids == log.ids
        boundaries == before # None /\ last # None
        identityObservable == ids # <<>> /\ None \notin IdentityValues(ids)
        restarted == ProcessRestarted(log.rows) \/ Cardinality(IdentityValues(ids) \ {None}) > 1
        observable == IF settings.identity THEN identityObservable
                      ELSE log.rows # <<>> /\ settings.processStart
    IN [reported |-> TRUE, restarted |-> restarted, drained |-> drained,
        delta |-> IF boundaries /\ ~restarted /\ (settings.identity => identityObservable)
                  THEN Delta(log.rows) ELSE None,
        valid |-> boundaries /\ Idle(before) /\ drained /\ observable /\ ~restarted /\ ~log.errors]

(* A scrape of main is over: the window opens, or the drain looks at it. *)
DrainLooks(m, log) ==
    LET counters == IF m = None THEN None ELSE m.count
        calm == IF Idle(m) /\ counters = previous THEN quiet + 1 ELSE 0
    IN /\ after' = m
       /\ quiet' = calm /\ previous' = counters /\ drains' = drains + 1
       /\ \/ /\ pc' = "done"        \* quiet, or past the deadline
             /\ result' = Report(m, log, calm >= 3)
          \/ /\ calm < 3 /\ drains + 1 < settings.drains
             /\ pc' = "pause"
             /\ UNCHANGED result
       /\ UNCHANGED <<before, task>>

Scraped(t, m, log) ==
    CASE t = "sampler" ->
            task' = "waiting" /\ UNCHANGED <<pc, before, after, drainVars, result>>
      [] pc = "before" ->
            /\ before' = m /\ pc' = "body" /\ task' = "waiting"
            /\ UNCHANGED <<after, drainVars, result>>
      [] OTHER -> DrainLooks(m, log)

FirstIdentity(t) ==
    /\ scrape[t].stage = "first"
    /\ \E got \in 0..MaxRestarts \cup {None} :
          /\ Reply(Snapshot, got)
          /\ scrape' = [scrape EXCEPT ![t].stage = "get", ![t].first = got]
          /\ errors' = (errors \/ got = None)
    /\ UNCHANGED <<settings, server, monitor, pc, task, stop, samples, identities,
                   before, after, drainVars, result>>

Get(t) ==
    /\ scrape[t].stage = "get"
    /\ \E got \in {Metrics(scrape[t].phase), None} :
          /\ Reply(Metrics(scrape[t].phase), got)
          /\ errors' = (errors \/ got = None)
          /\ samples' = IF got = None THEN samples ELSE Append(samples, got)
          /\ IF settings.identity
             THEN /\ scrape' = [scrape EXCEPT ![t].stage = "last", ![t].metrics = got]
                  /\ UNCHANGED <<pc, task, before, after, drainVars, result>>
             ELSE /\ scrape' = [scrape EXCEPT ![t] = NoScrape]
                  /\ Scraped(t, got, [rows |-> samples', ids |-> identities, errors |-> errors'])
    /\ UNCHANGED <<settings, server, monitor, stop, identities>>

LastIdentity(t) ==
    /\ scrape[t].stage = "last"
    /\ \E got \in 0..MaxRestarts \cup {None} :
          /\ Reply(Snapshot, got)
          /\ errors' = (errors \/ got = None)
          /\ identities' = Append(identities, [first |-> scrape[t].first, last |-> got])
          /\ scrape' = [scrape EXCEPT ![t] = NoScrape]
          /\ Scraped(t, scrape[t].metrics, [rows |-> samples, ids |-> identities', errors |-> errors'])
    /\ UNCHANGED <<settings, server, monitor, stop, samples>>

(***************************************************************************)
(* _sample_loop.                                                           *)
(***************************************************************************)
SamplerScrapes ==
    /\ task = "waiting" /\ ~stop
    /\ Cardinality({i \in DOMAIN samples : samples[i].phase = "during"}) < MaxSamples
    /\ task' = "scraping"
    /\ scrape' = [scrape EXCEPT !["sampler"] = Begin("during")]
    /\ UNCHANGED <<settings, externalVars, pc, stop, logVars, before, after, drainVars, result>>

SamplerEnds ==
    /\ task = "waiting" /\ stop
    /\ task' = "ended"
    /\ UNCHANGED <<settings, externalVars, pc, stop, scrape, logVars, before, after, drainVars, result>>

(* The sampler is cancelled; a bracket it has begun is recorded as incomplete. *)
AbortSampler ==
    /\ task' = "ended"
    /\ identities' = IF settings.identity /\ scrape["sampler"].stage # "none"
                     THEN Append(identities, [first |-> scrape["sampler"].first, last |-> None])
                     ELSE identities

(***************************************************************************)
(* __aexit__: stop the sampler, then scrape until the server is quiet.     *)
(***************************************************************************)
BodyEnds ==
    /\ pc = "body"
    /\ stop' = TRUE /\ pc' = "stopping"
    /\ UNCHANGED <<settings, externalVars, task, scrape, logVars, before, after, drainVars, result>>

SamplerJoined ==
    /\ pc = "stopping" /\ task = "ended"
    /\ pc' = "drain"
    /\ scrape' = [scrape EXCEPT !["main"] = Begin("drain")]
    /\ UNCHANGED <<settings, externalVars, task, stop, logVars, before, after, drainVars, result>>

(* A timeout that leaves the sampler running. *)
SamplerStopTimeoutLeavesTask ==
    /\ pc = "stopping" /\ task # "ended"
    /\ errors' = TRUE
    /\ pc' = "drain"
    /\ scrape' = [scrape EXCEPT !["main"] = Begin("drain")]
    /\ UNCHANGED <<settings, externalVars, task, stop, samples, identities, before, after,
                   drainVars, result>>

SamplerStopTimeout ==
    /\ pc = "stopping" /\ task # "ended"
    /\ AbortSampler
    /\ errors' = TRUE
    /\ pc' = "drain"
    /\ scrape' = [main |-> Begin("drain"), sampler |-> NoScrape]
    /\ UNCHANGED <<settings, externalVars, stop, samples, before, after, drainVars, result>>

(* A drain that waits for an idle server before it looks at its deadline. *)
DrainAgainOnceIdle ==
    /\ pc = "pause" /\ Idle(after)
    /\ pc' = "drain"
    /\ scrape' = [scrape EXCEPT !["main"] = Begin("drain")]
    /\ UNCHANGED <<settings, externalVars, task, stop, logVars, before, after, drainVars, result>>

DrainAgain ==
    /\ pc = "pause"
    /\ pc' = "drain"
    /\ scrape' = [scrape EXCEPT !["main"] = Begin("drain")]
    /\ UNCHANGED <<settings, externalVars, task, stop, logVars, before, after, drainVars, result>>

(* Cancelled outside the body: the client is closed and nothing is reported. *)
Cancel ==
    /\ pc \in {"before", "stopping", "drain", "pause"}
    /\ pc' = "done"
    /\ AbortSampler
    /\ scrape' = [t \in Tasks |-> NoScrape]
    /\ UNCHANGED <<settings, externalVars, stop, samples, errors, before, after, drainVars, result>>

Done == pc = "done" /\ UNCHANGED vars

Client ==
    \/ \E t \in Tasks : FirstIdentity(t) \/ Get(t) \/ LastIdentity(t)
    \/ SamplerEnds
    \/ BodyEnds \/ SamplerJoined \/ SamplerStopTimeout \/ DrainAgain

Next == Environment \/ Client \/ SamplerScrapes \/ Cancel \/ Done

(* HTTP requests and the drain have timeouts, and the replay body ends. *)
Spec == Init /\ [][Next]_vars /\ WF_vars(Client)

---------------------------------------------------------------------------
(***************************************************************************)
(* Properties.                                                             *)
(***************************************************************************)

(***************************************************************************)
(* Boundaries that are reported valid enclose one server process: no       *)
(* restart lies between the first and the last sample, also not inside an  *)
(* HTTP answer or between two scrapes.  ("Bracketing also catches a        *)
(* restart while Prometheus serves its response.")                         *)
(***************************************************************************)
ValidIsOneProcess ==
    (result.reported /\ result.valid) =>
        \A i \in DOMAIN samples : samples[i].generation = samples[1].generation

(***************************************************************************)
(* With valid boundaries the reported delta is the work of the epoch:      *)
(* every request that began in the window ended in it and was counted, and *)
(* none that began before it was.  (idle_before, drained, _delta)          *)
(***************************************************************************)
ValidDeltaIsTheWork ==
    (result.reported /\ result.valid) =>
        LET first == samples[1]
            last == Last(samples)
        IN /\ result.delta = last.begun - first.begun
           /\ first.running = 0 /\ last.running = 0

Rank == [before |-> 0, during |-> 1, drain |-> 2]

(***************************************************************************)
(* The sampler is out of the way before the drain starts: samples and      *)
(* brackets never mix, although a scrape may be under way when the body    *)
(* ends.  ("Finish an active identity bracket before starting the drain.") *)
(***************************************************************************)
SamplesInOrder ==
    /\ \A i, j \in DOMAIN samples : i < j => Rank[samples[i].phase] =< Rank[samples[j].phase]
    /\ pc \in {"drain", "pause", "done"} => scrape["sampler"].stage = "none"

(* A scrape that was cut short can never be part of a valid report. *)
CutShortIsInvalid ==
    (result.reported /\ result.valid) =>
        /\ settings.identity => Len(identities) = Len(samples)
        /\ samples[1].phase = "before" /\ Last(samples).phase = "drain"

(***************************************************************************)
(* A valid report is about one process and whole scrapes, and the sampler  *)
(* never wrote into the drain's brackets.                                  *)
(***************************************************************************)
ReportIsSound == ValidIsOneProcess /\ SamplesInOrder /\ CutShortIsInvalid

(* The window closes. *)
WindowCloses == <>(pc = "done")
=============================================================================

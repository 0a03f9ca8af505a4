------------------------------ MODULE Headroom ------------------------------
(***************************************************************************)
(* The discrete-event simulation of dynamo_headroom.py: one GPU serves     *)
(* requests and, when no request is ready, prepares announced prefixes     *)
(* into a shared LRU cache of prompt blocks.  A workload is not fixed:     *)
(* each turn a workflow starts is any turn of the given sets, so a         *)
(* behaviour is the run of one policy on one workload.                     *)
(***************************************************************************)
EXTENDS Integers, Sequences, FiniteSets, FiniteSetsExt

CONSTANTS
    Workflows,      \* the workflow identifiers
    Blocks,         \* the names of prompt blocks
    Arrival,        \* arrival_ms of each workflow
    TurnsOf,        \* number of turns of each workflow
    FirstTurns, LaterTurns, \* the turns a workload may hold, as validate() admits them
    Policies,       \* the policies under study, of off, eager, future_timing
    CacheBlocks, Budget, Chunk, PrefillMs, HorizonMs   \* the workload's numbers

Turns ==
    [prompt : Seq(Blocks), generated : Seq(Blocks), wait : Nat, decode : Nat \ {0},
     intent : Seq(Blocks), updates : Seq([at : Nat, cancel : BOOLEAN, prefix : Seq(Blocks)])]

(* validate(): requests and preparations fit, updates are ordered and in time. *)
Valid(t) ==
    /\ t \in Turns
    /\ Len(t.prompt) > 0
    /\ Len(t.prompt) + Len(t.generated) =< CacheBlocks
    /\ Len(t.intent) =< CacheBlocks
    /\ \A u \in DOMAIN t.updates :
          /\ t.updates[u].at =< t.wait /\ Len(t.updates[u].prefix) =< CacheBlocks
          /\ \A v \in 1..u : t.updates[v].at =< t.updates[u].at

ASSUME HeadroomConstants ==
    /\ IsFiniteSet(Workflows) /\ Workflows # {}
    /\ Arrival \in [Workflows -> Nat] /\ TurnsOf \in [Workflows -> Nat \ {0}]
    /\ {CacheBlocks, Budget, Chunk, PrefillMs, HorizonMs} \subseteq Nat \ {0}
    /\ Policies \subseteq {"off", "eager", "future_timing"}
    /\ \A t \in FirstTurns : Valid(t) /\ t.intent = <<>> /\ t.updates = <<>>
    /\ \A t \in LaterTurns : Valid(t)

VARIABLES
    policy,
    now,        \* the simulated time
    open,       \* events of this instant are being applied
    events,     \* the heap, a set of events
    serial,     \* serial numbers given to events so far
    lru,        \* keys of the cache, least recently used first
    kind,       \* kind[key] of every key in the cache
    queue,      \* requests that are ready
    gpu,        \* the running job, or Idle
    intents,    \* the announced prefix of each workflow, or NoIntent
    order,      \* workflows in the order of their first intent
    state,      \* status, turn and turn index of each workflow
    stats

cacheVars == <<lru, kind>>
heapVars == <<events, serial>>
vars == <<policy, now, open, heapVars, cacheVars, queue, gpu, intents, order, state, stats>>

Idle == [kind |-> "idle"]
NoIntent == [active |-> FALSE, keys |-> <<>>]
Busy == gpu # Idle
Running(w) == state[w].status = "running"

(* block_keys: a key stands for a block and everything before it. *)
BlockKeys(blocks) == [i \in DOMAIN blocks |-> SubSeq(blocks, 1, i)]

(***************************************************************************)
(* The event heap.  Ties go by EVENT_ORDER, then by serial number.         *)
(***************************************************************************)
EventOrder == [finished |-> 0, update |-> 1, ready |-> 2, arrival |-> 3,
               deadline |-> 4, wake |-> 5]

Before(e, f) ==
    \/ e.at < f.at
    \/ /\ e.at = f.at
       /\ \/ EventOrder[e.action] < EventOrder[f.action]
          \/ e.action = f.action /\ e.serial < f.serial

First(e) == e \in events /\ \A f \in events : f = e \/ Before(e, f)

At(at, action) == [at |-> at, serial |-> 0, action |-> action]
For(at, action, w) == [at |-> at, serial |-> 0, action |-> action, workflow |-> w]
NoEvent == [action |-> "none"]

(* event(): each of the new events gets the next serial number; only the *)
(* order of these numbers matters, so they may have gaps.                *)
Stamped(new, from) ==
    {[new[n] EXCEPT !.serial = from + n] : n \in {n \in DOMAIN new : new[n] # NoEvent}}

Push(evs, new) ==
    /\ events' = evs \cup Stamped(new, serial)
    /\ serial' = serial + Len(new)

ObservationEnd == Max({Arrival[w] : w \in Workflows}) + HorizonMs

(***************************************************************************)
(* The cache.                                                              *)
(***************************************************************************)
Cached(key, kinds) == key \in DOMAIN kinds /\ kinds[key] # "pending"

CachedPrefix(keys, kinds) ==
    Max({0} \cup {n \in 1..Len(keys) : \A i \in 1..n : Cached(keys[i], kinds)})

InSeq(x, s) == \E i \in DOMAIN s : s[i] = x

(* How many keys the cache would hold too many. *)
Excess(keys) ==
    Len(lru) + Cardinality({i \in DOMAIN keys : keys[i] \notin DOMAIN kind}) - CacheBlocks

(* An eviction that forgets which keys it is making room for. *)
SurvivorsUnprotected(keys) == {i \in DOMAIN lru : i > Excess(keys)}

Rank(i, S) == Cardinality({j \in S : j =< i})

(* reserve(): evict the oldest keys that are not asked for, add, touch. *)
Survivors(keys) ==
    LET free == {i \in DOMAIN lru : ~InSeq(lru[i], keys)}
    IN {i \in DOMAIN lru : i \in free => Rank(i, free) > Excess(keys)}

(* The entries of a sequence at some of its positions. *)
Pick(s, S) == [n \in 1..Cardinality(S) |-> s[CHOOSE i \in S : Rank(i, S) = n]]

Reserve(keys, kinds) ==
    LET kept == {i \in Survivors(keys) : ~InSeq(lru[i], keys)}
    IN /\ lru' = Pick(lru, kept) \o keys
       /\ kind' = [k \in {lru[i] : i \in kept} \cup {keys[i] : i \in DOMAIN keys} |->
                      IF k \in DOMAIN kinds THEN kinds[k] ELSE "pending"]

SetKinds(keys, to) ==
    [k \in DOMAIN kind |-> IF InSeq(k, keys) THEN to ELSE kind[k]]

---------------------------------------------------------------------------
(* run() starts with the arrival and the deadline of every listed workflow. *)
Arrivals(ws) ==
    Stamped([n \in DOMAIN ws |-> For(Arrival[ws[n]], "arrival", ws[n])]
            \o [n \in DOMAIN ws |-> For(Arrival[ws[n]] + HorizonMs, "deadline", ws[n])], 0)

Init ==
    /\ policy \in Policies
    /\ now = 0 /\ open = FALSE
    /\ \E ws \in [1..Cardinality(Workflows) -> Workflows] :
          /\ \A i, j \in DOMAIN ws : i < j => ws[i] # ws[j]
          /\ events = Arrivals(ws) /\ serial = 2 * Len(ws)
    /\ lru = <<>> /\ kind = << >>
    /\ queue = <<>> /\ gpu = Idle
    /\ intents = [w \in Workflows |-> NoIntent] /\ order = <<>>
    /\ state = [w \in Workflows |-> [status |-> "running", index |-> 0, turn |-> NoIntent]]
    /\ stats = [computed |-> 0, useful |-> 0, obsolete |-> 0, late |-> 0]

(* schedule_wakeup: future timing wakes up when the last moment to begin comes. *)
BeginAt(intent, kinds) ==
    intent.readyAt - (Len(intent.keys) - CachedPrefix(intent.keys, kinds)) * PrefillMs

Wakeup(intent, kinds) ==
    LET at == Max({now, intent.eligibleAt, BeginAt(intent, kinds)})
    IN IF policy = "future_timing" /\ intent.active /\ now < at /\ at < intent.readyAt
       THEN At(at, "wake") ELSE NoEvent

(* Future timing that does not wait for the last revision. *)
NewIntentAtOnce(t, index) ==
    [keys |-> BlockKeys(t.intent), index |-> index, revision |-> 0, active |-> TRUE,
     readyAt |-> now + t.wait, eligibleAt |-> now,
     willCancel |-> policy = "future_timing" /\ \E u \in DOMAIN t.updates : t.updates[u].cancel]

NewIntent(t, index) ==
    [keys |-> BlockKeys(t.intent), index |-> index, revision |-> 0, active |-> TRUE,
     readyAt |-> now + t.wait,
     eligibleAt |-> IF policy = "future_timing"
                    THEN now + Max({0} \cup {t.updates[u].at : u \in DOMAIN t.updates})
                    ELSE now,
     willCancel |-> policy = "future_timing" /\ \E u \in DOMAIN t.updates : t.updates[u].cancel]

Updates(w, index, t) ==
    [u \in DOMAIN t.updates |->
        [at |-> now + t.updates[u].at, serial |-> 0, action |-> "update", workflow |-> w, index |-> index,
         update |-> t.updates[u]]]

(* start_turn(w, index): the tool wait begins, announced when it is not the first. *)
StartTurn(w, index, evs, kinds) ==
    \E t \in IF index = 0 THEN FirstTurns ELSE LaterTurns :
        LET ready == For(now + t.wait, "ready", w)
            intent == NewIntent(t, index)
        IN /\ state' = [state EXCEPT ![w].index = index, ![w].turn = t]
           /\ IF index = 0
              THEN /\ Push(evs, <<ready>>)
                   /\ UNCHANGED <<intents, order>>
              ELSE /\ Push(evs, <<ready>> \o Updates(w, index, t) \o <<Wakeup(intent, kinds)>>)
                   /\ intents' = [intents EXCEPT ![w] = intent]
                   /\ order' = IF InSeq(w, order) THEN order ELSE Append(order, w)

---------------------------------------------------------------------------
(***************************************************************************)
(* run(): all events of an instant are applied, then dispatch() chooses.   *)
(***************************************************************************)
Advance ==
    /\ ~open
    /\ \E e \in events :
          /\ First(e) /\ e.at =< ObservationEnd
          /\ now' = e.at
    /\ open' = TRUE
    /\ UNCHANGED <<policy, heapVars, cacheVars, queue, gpu, intents, order, state, stats>>

(* e is popped to be handled. *)
Due(e, action) == open /\ e.action = action /\ e.at = now /\ First(e)

Popped(e) == events' = events \ {e} /\ UNCHANGED serial

Arrive ==
    /\ \E e \in events : Due(e, "arrival") /\ StartTurn(e.workflow, 0, events \ {e}, kind)
    /\ UNCHANGED <<policy, now, open, cacheVars, queue, gpu, stats>>

Deactivate(w) == intents' = [intents EXCEPT ![w].active = FALSE]

(* A deadline that only withdraws the announcement. *)
DeadlineKeepsRunning ==
    /\ \E e \in events : Due(e, "deadline") /\ Popped(e) /\ Deactivate(e.workflow)
    /\ UNCHANGED <<policy, now, open, cacheVars, queue, gpu, order, state, stats>>

Deadline ==
    /\ \E e \in events :
          /\ Due(e, "deadline") /\ Popped(e)
          /\ IF Running(e.workflow)
             THEN /\ state' = [state EXCEPT ![e.workflow].status = "timeout"]
                  /\ Deactivate(e.workflow)
             ELSE UNCHANGED <<state, intents>>
    /\ UNCHANGED <<policy, now, open, cacheVars, queue, gpu, order, stats>>

Ready ==
    /\ \E e \in events :
          /\ Due(e, "ready") /\ Popped(e)
          /\ IF Running(e.workflow)
             THEN Deactivate(e.workflow) /\ queue' = Append(queue, e.workflow)
             ELSE UNCHANGED <<intents, queue>>
    /\ UNCHANGED <<policy, now, open, cacheVars, gpu, order, state, stats>>

Revise(e) ==
    LET w == e.workflow
        revised == [intents[w] EXCEPT !.revision = @ + 1]
    IN IF ~Running(w) \/ intents[w] = NoIntent \/ intents[w].index # e.index
       THEN Popped(e) /\ UNCHANGED <<intents, state>>
       ELSE IF e.update.cancel
       THEN /\ intents' = [intents EXCEPT ![w] = [revised EXCEPT !.active = FALSE]]
            /\ state' = [state EXCEPT ![w].status = "cancelled"]
            /\ Popped(e)
       ELSE LET intent == [revised EXCEPT !.keys = BlockKeys(e.update.prefix)]
            IN /\ intents' = [intents EXCEPT ![w] = intent]
               /\ Push(events \ {e}, <<Wakeup(intent, kind)>>)
               /\ UNCHANGED state

Update ==
    /\ \E e \in events : Due(e, "update") /\ Revise(e)
    /\ UNCHANGED <<policy, now, open, cacheVars, queue, gpu, order, stats>>

Wake ==
    /\ \E e \in events : Due(e, "wake") /\ Popped(e)
    /\ UNCHANGED <<policy, now, open, cacheVars, queue, gpu, intents, order, state, stats>>

(* A preparation is over: its blocks count even if nobody wants them any more. *)
Obsolete(job) ==
    state[job.workflow].status \in {"cancelled", "timeout"}
        \/ intents[job.workflow].revision # job.revision

PreparationFinished ==
    /\ \E e \in events : Due(e, "finished") /\ Popped(e)
    /\ gpu.kind = "speculative"
    /\ kind' = SetKinds(gpu.computed, "speculative")
    /\ stats' = [stats EXCEPT
           !.obsolete = @ + IF Obsolete(gpu) THEN Len(gpu.computed) ELSE 0,
           !.late = @ + IF now > intents[gpu.workflow].readyAt THEN Len(gpu.computed) ELSE 0]
    /\ gpu' = Idle
    /\ UNCHANGED <<policy, now, open, lru, queue, intents, order, state>>

RequestFinished ==
    /\ gpu.kind = "demand"
    /\ kind' = SetKinds(gpu.keys, "ordinary")
    /\ gpu' = Idle
    /\ \E e \in events :
          /\ Due(e, "finished")
          /\ LET w == gpu.workflow
                 index == state[w].index
             IN IF ~Running(w)
                THEN Popped(e) /\ UNCHANGED <<intents, order, state>>
                ELSE IF index + 1 = TurnsOf[w]
                THEN /\ state' = [state EXCEPT ![w].status = "completed"]
                     /\ Popped(e) /\ UNCHANGED <<intents, order>>
                ELSE StartTurn(w, index + 1, events \ {e}, kind')
    /\ UNCHANGED <<policy, now, open, lru, queue, stats>>

---------------------------------------------------------------------------
(***************************************************************************)
(* dispatch(): the oldest ready request of a running workflow, else the    *)
(* first intent that deserves a chunk of preparation.                      *)
(***************************************************************************)
InstantDone == open /\ \A e \in events : e.at > now

(* A dispatch that serves requests of workflows that are over. *)
RunnableAll == DOMAIN queue

Runnable == {i \in DOMAIN queue : Running(queue[i])}

(* A request that leaves the prepared blocks it used marked as prepared. *)
StartRequestKeepsKinds(w) ==
    LET t == state[w].turn
        prompt == BlockKeys(t.prompt)
        hit == SubSeq(prompt, 1, CachedPrefix(prompt, kind))
        fresh == {i \in DOMAIN hit : kind[hit[i]] = "speculative"}
        keys == BlockKeys(t.prompt \o t.generated)
        cost == (Len(prompt) - Len(hit)) * PrefillMs + t.decode
    IN /\ stats' = [stats EXCEPT !.useful = @ + Cardinality(fresh)]
       /\ Reserve(keys, kind)
       /\ gpu' = [kind |-> "demand", workflow |-> w, keys |-> keys]
       /\ Push(events, <<At(now + cost, "finished")>>)

StartRequest(w) ==
    LET t == state[w].turn
        prompt == BlockKeys(t.prompt)
        hit == SubSeq(prompt, 1, CachedPrefix(prompt, kind))
        fresh == {i \in DOMAIN hit : kind[hit[i]] = "speculative"}
        keys == BlockKeys(t.prompt \o t.generated)
        cost == (Len(prompt) - Len(hit)) * PrefillMs + t.decode
    IN /\ stats' = [stats EXCEPT !.useful = @ + Cardinality(fresh)]
       /\ Reserve(keys, SetKinds(hit, "ordinary"))
       /\ gpu' = [kind |-> "demand", workflow |-> w, keys |-> keys]
       /\ Push(events, <<At(now + cost, "finished")>>)

DispatchRequest ==
    /\ InstantDone
    /\ ~Busy
    /\ open' = FALSE
    /\ \E n \in Runnable :
          /\ \A m \in Runnable : n =< m
          /\ StartRequest(queue[n]) /\ queue' = SubSeq(queue, n + 1, Len(queue))
    /\ UNCHANGED <<policy, now, intents, order, state>>

(* What dispatch() still has to compute for the intent of w, in order. *)
Missing(w) ==
    LET keys == intents[w].keys
    IN SubSeq(keys, CachedPrefix(keys, kind) + 1, Len(keys))

Wanted(w) == intents[w].active /\ Running(w) /\ Missing(w) # <<>>

InTime(w) ==
    \/ policy = "eager"
    \/ /\ policy = "future_timing"
       /\ ~intents[w].willCancel
       /\ now >= intents[w].eligibleAt
       /\ now >= BeginAt(intents[w], kind)

Remaining == Budget - stats.computed

Candidates == {i \in DOMAIN order : Wanted(order[i]) /\ InTime(order[i])}

(* Intents that are passed over because it is too early get another wakeup. *)
TooEarly(w) ==
    /\ Wanted(w) /\ policy = "future_timing" /\ ~intents[w].willCancel
    /\ now >= intents[w].eligibleAt /\ now < BeginAt(intents[w], kind)

(* A dispatch that passes over an early intent without another wakeup. *)
RescheduledNever(passed) == <<>>

Rescheduled(passed) ==
    [n \in DOMAIN passed |->
        IF TooEarly(passed[n]) THEN Wakeup(intents[passed[n]], kind) ELSE NoEvent]

StartPreparation(w, wakeups) ==
    LET keys == intents[w].keys
        cached == CachedPrefix(keys, kind)
        count == Min({Len(keys) - cached, Remaining, Chunk})
    IN /\ Reserve(SubSeq(keys, 1, cached + count), kind)
       /\ stats' = [stats EXCEPT !.computed = @ + count]
       /\ gpu' = [kind |-> "speculative", workflow |-> w, revision |-> intents[w].revision,
                  computed |-> SubSeq(keys, cached + 1, cached + count)]
       /\ Push(events, wakeups \o <<At(now + count * PrefillMs, "finished")>>)

DispatchPreparation ==
    /\ InstantDone
    /\ ~Busy
    /\ Runnable = {}
    /\ policy # "off" /\ Remaining > 0
    /\ open' = FALSE
    /\ queue' = <<>>
    /\ \E n \in Candidates :
          /\ \A m \in Candidates : n =< m
          /\ StartPreparation(order[n], Rescheduled(SubSeq(order, 1, n - 1)))
    /\ UNCHANGED <<policy, now, intents, order, state>>

DispatchNothing ==
    /\ InstantDone
    /\ \/ Busy /\ UNCHANGED <<queue, heapVars>>
       \/ /\ ~Busy /\ Runnable = {}
          /\ policy = "off" \/ Remaining =< 0 \/ Candidates = {}
          /\ queue' = <<>>
          /\ Push(events, IF policy # "off" /\ Remaining > 0 THEN Rescheduled(order) ELSE <<>>)
    /\ open' = FALSE
    /\ UNCHANGED <<policy, now, cacheVars, gpu, intents, order, state, stats>>

(* The run is over; a workflow that still runs is reported as timed out. *)
Over == ~open /\ \A e \in events : e.at > ObservationEnd

Finished == Over /\ UNCHANGED vars

Next ==
    \/ Advance
    \/ Arrive \/ Deadline \/ Ready \/ Update \/ Wake
    \/ PreparationFinished \/ RequestFinished
    \/ DispatchRequest \/ DispatchPreparation \/ DispatchNothing
    \/ Finished

(* run() is a loop that nothing interrupts. *)
Spec == Init /\ [][Next]_vars /\ WF_vars(Next)

---------------------------------------------------------------------------
(***************************************************************************)
(* Properties.                                                             *)
(***************************************************************************)

(* The clock, the workflows, the jobs and the counters keep their types. *)
TypeOK ==
    /\ now \in 0..ObservationEnd /\ open \in BOOLEAN
    /\ \A w \in Workflows :
          /\ state[w].status \in {"running", "completed", "cancelled", "timeout"}
          /\ state[w].index \in 0..(TurnsOf[w] - 1)
    /\ gpu.kind \in {"idle", "demand", "speculative"}
    /\ \A k \in DOMAIN kind : kind[k] \in {"pending", "ordinary", "speculative"}
    /\ \A i \in DOMAIN queue : queue[i] \in Workflows
    /\ stats \in [computed : Nat, useful : Nat, obsolete : Nat, late : Nat]

(***************************************************************************)
(* The cache holds each key once and never more than its capacity, also    *)
(* while a whole request is reserved; a reservation is outstanding only    *)
(* for the running job, and no block of the running job is evicted, so its *)
(* end never brings one back beyond the capacity.  (reserve, finished)     *)
(***************************************************************************)
JobKeys ==
    CASE gpu.kind = "demand" -> gpu.keys
      [] gpu.kind = "speculative" -> gpu.computed
      [] OTHER -> <<>>

CacheSound ==
    /\ Len(lru) =< CacheBlocks
    /\ \A i, j \in DOMAIN lru : lru[i] = lru[j] => i = j
    /\ DOMAIN kind = {lru[i] : i \in DOMAIN lru}
    /\ \A k \in DOMAIN kind : kind[k] = "pending" => InSeq(k, JobKeys)
    /\ \A i \in DOMAIN JobKeys : JobKeys[i] \in DOMAIN kind

(***************************************************************************)
(* A prepared block is useful at most once: blocks that were used and the  *)
(* blocks that still wait for a use never exceed what was computed, which  *)
(* stays within the common budget.  (unconsumed_speculative_blocks)        *)
(***************************************************************************)
SpeculationBalances ==
    /\ stats.useful + Cardinality({k \in DOMAIN kind : kind[k] = "speculative"})
          + (IF gpu.kind = "speculative" THEN Len(gpu.computed) ELSE 0)
          =< stats.computed
    /\ stats.computed =< Budget
    /\ stats.obsolete =< stats.computed /\ stats.late =< stats.computed

(***************************************************************************)
(* Every value has its type, and blocks are counted once, in the cache and *)
(* in the budget.  (Cache, run_policy)                                     *)
(***************************************************************************)
BlocksAccounted == TypeOK /\ CacheSound /\ SpeculationBalances

(***************************************************************************)
(* Future timing knows when revisions and cancellations come, so its work  *)
(* in progress is never overtaken by one.  (eligible_at, will_cancel)      *)
(***************************************************************************)
FutureTimingNeverOvertaken ==
    (policy = "future_timing" /\ gpu.kind = "speculative") =>
        /\ state[gpu.workflow].status # "cancelled"
        /\ intents[gpu.workflow].revision = gpu.revision

(***************************************************************************)
(* After every dispatch an idle GPU leaves nothing behind: no ready        *)
(* request of a running workflow, and for every prefix worth preparing an  *)
(* event not later than the moment it should begin.  (dispatch,            *)
(* schedule_wakeup)                                                        *)
(***************************************************************************)
NoLostWork ==
    (~open /\ ~Busy) =>
        /\ Runnable = {}
        /\ (policy # "off" /\ Remaining > 0) =>
              \A w \in Workflows :
                  (Wanted(w) /\ (policy = "eager" \/ ~intents[w].willCancel)) =>
                      \E e \in events :
                          e.at =< Max({intents[w].eligibleAt, BeginAt(intents[w], kind)})

(***************************************************************************)
(* A workflow that was cancelled, timed out or completed stays so and is   *)
(* never given the GPU again.  (test_cancelled_inflight_work_...)          *)
(***************************************************************************)
NeverRevived ==
    [][/\ \A w \in Workflows : ~Running(w) => state'[w].status = state[w].status
       /\ (gpu' # gpu /\ gpu' # Idle) => Running(gpu'.workflow)]_vars

(* The run ends with every workflow decided, and each is decided once. *)
RunSettles == NeverRevived /\ <>(Over /\ \A w \in Workflows : ~Running(w))
=============================================================================

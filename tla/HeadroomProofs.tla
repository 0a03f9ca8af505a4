--------------------------- MODULE HeadroomProofs ---------------------------
(***************************************************************************)
(* Theorems about the headroom simulation, for any number of workflows,    *)
(* turns and revisions, any cache, budget and chunk, and every policy.     *)
(***************************************************************************)
EXTENDS Headroom, SequenceTheorems, FiniteSetTheorems, WellFoundedInduction, TLAPS

Keys == Seq(Blocks)

(* What block_keys gives, and what fits in the cache. *)
KeyLists ==
    {keys \in Seq(Keys) : Len(keys) =< CacheBlocks /\ \A i \in DOMAIN keys : Len(keys[i]) = i}

Revisions == [at : Nat, cancel : BOOLEAN, prefix : Seq(Blocks)]
Fitting == {r \in Revisions : Len(r.prefix) =< CacheBlocks}

Statuses == {"running", "completed", "cancelled", "timeout"}
ValidTurns == {t \in Turns : Valid(t)}
States == [status : Statuses, index : Nat, turn : ValidTurns \cup {NoIntent}]

Intents == [keys : KeyLists, index : Nat, revision : Nat, active : BOOLEAN,
            readyAt : Nat, eligibleAt : Nat, willCancel : BOOLEAN]

Unannounced == [active : {FALSE}, keys : {<<>>}]

WorkEvents == [at : Nat, serial : Nat, action : {"arrival", "ready", "deadline"},
               workflow : Workflows]
UpdateEvents == [at : Nat, serial : Nat, action : {"update"}, workflow : Workflows,
                 index : Nat, update : Fitting]
OtherEvents == [at : Nat, serial : Nat, action : {"finished", "wake"}]
Events == WorkEvents \cup UpdateEvents \cup OtherEvents

DemandJobs == [kind : {"demand"}, workflow : Workflows, keys : Seq(Keys)]
PreparationJobs == [kind : {"speculative"}, workflow : Workflows, revision : Nat,
                    computed : Seq(Keys)]

Stats == [computed : Nat, useful : Nat, obsolete : Nat, late : Nat]
Kinds == {"pending", "ordinary", "speculative"}

TypeInv ==
    /\ policy \in Policies
    /\ now \in 0..ObservationEnd /\ open \in BOOLEAN
    /\ events \subseteq Events /\ serial \in Nat
    /\ queue \in Seq(Workflows) /\ order \in Seq(Workflows)
    /\ gpu \in {Idle} \cup DemandJobs \cup PreparationJobs
    /\ intents \in [Workflows -> Intents \cup Unannounced]
    /\ state \in [Workflows -> States]
    /\ stats \in Stats

Started(w) == state[w].turn \in ValidTurns
Announced(w) == intents[w] \in Intents

(* The turns a workflow is in, and what has been announced for it. *)
TurnInv ==
    \A w \in Workflows :
        /\ state[w].index =< TurnsOf[w] - 1
        /\ ~Started(w) => state[w].index = 0
        /\ Announced(w) => intents[w].index =< state[w].index /\ InSeq(w, order)

(* What the heap tells about a workflow. *)
Foretold(e) ==
    /\ now =< e.at
    /\ e.action = "arrival" => ~Started(e.workflow)
    /\ e.action = "ready" => Started(e.workflow)
    /\ e.action = "update" =>
          /\ Announced(e.workflow)
          /\ 1 =< e.index /\ e.index =< state[e.workflow].index
          /\ policy = "future_timing" /\ e.index = intents[e.workflow].index
                => e.at =< intents[e.workflow].eligibleAt

HeapInv ==
    /\ \A e \in events : Foretold(e)
    /\ \A e, f \in events :
          e.action = "arrival" /\ f.action = "arrival" /\ e.workflow = f.workflow => e = f

WorkInv ==
    /\ \A i \in DOMAIN queue : Started(queue[i])
    /\ gpu.kind = "demand" => Started(gpu.workflow)
    /\ gpu.kind = "speculative" => Announced(gpu.workflow)

(* Future timing: the moment to begin is an event, work in progress is not revised. *)
EligibleInv ==
    policy = "future_timing" =>
        \A w \in Workflows :
            Announced(w) /\ now < intents[w].eligibleAt
                => \E e \in events : e.at = intents[w].eligibleAt

OvertakenInv ==
    policy = "future_timing" /\ gpu.kind = "speculative" =>
        /\ state[gpu.workflow].status # "cancelled"
        /\ intents[gpu.workflow].revision = gpu.revision
        /\ \A e \in events :
              e.action = "update" /\ e.workflow = gpu.workflow
                  => e.index # intents[gpu.workflow].index

HeadroomInv == TypeInv /\ TurnInv /\ HeapInv /\ WorkInv /\ EligibleInv /\ OvertakenInv

(***************************************************************************)
(* Numbers and sets of numbers                                             *)
(***************************************************************************)

\* A set of naturals that is not empty has a least element.
LEMMA LeastNatural ==
  ASSUME NEW T, T \subseteq Nat, T # {}
  PROVE  \E m \in T : \A y \in T : m =< y
<1> DEFINE R == OpToRel(<, Nat)
<1>1. IsWellFoundedOn(R, Nat)
  BY NatLessThanWellFounded
<1>2. \A x, y \in Nat : x < y => <<x, y>> \in R
  BY DEF OpToRel
<1> HIDE DEF R
<1>0. T \subseteq Nat /\ T # {}
  OBVIOUS
<1>3. PICK m \in T : \A y \in T : ~(<<y, m>> \in R)
  BY <1>0, <1>1, WFMin
<1>4. ASSUME NEW y \in T PROVE m =< y
  <2>1. m \in Nat /\ y \in Nat
    BY <1>0
  <2>2. ~(y < m)
    BY <2>1, <1>2, <1>3
  <2> QED BY <2>1, <2>2
<1> QED BY <1>4

\* A set that has 0 and, with a number, the next one, has them all.
LEMMA NaturalInduction ==
  ASSUME NEW S, 0 \in S, \A n \in Nat : n \in S => n + 1 \in S
  PROVE  Nat \subseteq S
<1> SUFFICES ASSUME Nat \ S # {} PROVE FALSE
  OBVIOUS
<1>1. PICK m \in Nat \ S : \A y \in Nat \ S : m =< y
  BY LeastNatural
<1>2. m # 0 /\ m - 1 \in Nat /\ (m - 1) + 1 = m
  BY <1>1
<1>3. m - 1 \in S
  BY <1>1, <1>2
<1> QED BY <1>1, <1>2, <1>3

\* A bounded set of naturals has its maximum.
LEMMA MaxOfBounded ==
  ASSUME NEW S, S \subseteq Nat, S # {}, NEW b \in Nat, \A x \in S : x =< b
  PROVE  Max(S) \in S /\ \A x \in S : x =< Max(S)
<1> DEFINE T == {k \in Nat : \A x \in S : x =< k}
<1>1. PICK m \in T : \A k \in T : m =< k
  <2>1. b \in T
    OBVIOUS
  <2> HIDE DEF T
  <2>2. T \subseteq Nat
    BY DEF T
  <2> QED BY <2>1, <2>2, LeastNatural
<1>2. m \in S
  <2> SUFFICES ASSUME m \notin S PROVE FALSE
    OBVIOUS
  <2>1. \A x \in S : x =< m - 1
    BY <1>1
  <2>2. m - 1 \in Nat
    <3>1. PICK x : x \in S
      OBVIOUS
    <3>2. x \in Nat /\ x =< m - 1 /\ m \in Nat
      BY <1>1, <2>1, <3>1
    <3> QED BY <3>2
  <2> QED BY <1>1, <2>1, <2>2
<1>3. \E x \in S : \A y \in S : x >= y
  BY <1>1, <1>2
<1>4. Max(S) \in S /\ \A y \in S : Max(S) >= y
  BY <1>3, Zenon DEF Max
<1> QED BY <1>4

\* The numbers of a finite sequence are bounded.
LEMMA FiniteBounded ==
  ASSUME NEW n \in Nat, NEW f \in [1..n -> Nat]
  PROVE  \E b \in Nat : \A i \in 1..n : f[i] =< b
<1> DEFINE S == {m \in Nat : \A g \in [1..m -> Nat] : \E b \in Nat : \A i \in 1..m : g[i] =< b}
<1>1. 0 \in S
  OBVIOUS
<1>2. ASSUME NEW m \in Nat, m \in S PROVE m + 1 \in S
  <2>1. ASSUME NEW g \in [1..(m + 1) -> Nat]
        PROVE  \E b \in Nat : \A i \in 1..(m + 1) : g[i] =< b
    <3> DEFINE h == [i \in 1..m |-> g[i]]
    <3>1. h \in [1..m -> Nat]
      OBVIOUS
    <3>2. PICK b \in Nat : \A i \in 1..m : h[i] =< b
      BY <1>2, <3>1
    <3>3. g[m + 1] \in Nat /\ b + g[m + 1] \in Nat
      OBVIOUS
    <3>4. \A i \in 1..m : g[i] =< b /\ g[i] \in Nat
      BY <3>2
    <3>5. \A i \in 1..(m + 1) : i = m + 1 \/ i \in 1..m
      OBVIOUS
    <3>6. \A i \in 1..(m + 1) : g[i] =< b + g[m + 1]
      BY <3>3, <3>4, <3>5
    <3> QED BY <3>3, <3>6
  <2>2. m + 1 \in Nat
    OBVIOUS
  <2> QED BY <2>1, <2>2
<1> HIDE DEF S
<1>3. Nat \subseteq S
  BY <1>1, <1>2, NaturalInduction
<1> QED BY <1>3 DEF S

\* The observation ends at some time.
LEMMA ObservationEnds == ObservationEnd \in Nat
<1> DEFINE S == {Arrival[w] : w \in Workflows}
<1>0. Arrival \in [Workflows -> Nat] /\ Workflows # {} /\ HorizonMs \in Nat /\ IsFiniteSet(Workflows)
  BY HeadroomConstants
<1>1. PICK n \in Nat : ExistsBijection(1..n, Workflows)
  BY <1>0, FS_NatBijection
<1>2. PICK g : g \in Surjection(1..n, Workflows)
  BY <1>1 DEF ExistsBijection, Bijection
<1>3. g \in [1..n -> Workflows] /\ \A w \in Workflows : \E i \in 1..n : g[i] = w
  BY <1>2 DEF Surjection
<1>4. PICK b \in Nat : \A i \in 1..n : [j \in 1..n |-> Arrival[g[j]]][i] =< b
  <2>1. [j \in 1..n |-> Arrival[g[j]]] \in [1..n -> Nat]
    BY <1>0, <1>3
  <2> QED BY <2>1, FiniteBounded
<1>5. \A x \in S : x =< b
  BY <1>3, <1>4
<1>6. S \subseteq Nat /\ S # {}
  BY <1>0
<1>7. Max(S) \in Nat
  BY <1>5, <1>6, MaxOfBounded
<1> QED BY <1>0, <1>7 DEF ObservationEnd

(***************************************************************************)
(* Events                                                                  *)
(***************************************************************************)
Heap == Seq(Events \cup {NoEvent})

(* e is event f with a serial number. *)
Copies(e, f) ==
    /\ e \in Events /\ e.at = f.at /\ e.action = f.action
    /\ f.action \in {"arrival", "ready", "deadline", "update"} => e.workflow = f.workflow
    /\ f.action = "update" => e.index = f.index /\ e.update = f.update

\* The action of an event tells what it carries.
LEMMA EventKinds ==
  ASSUME NEW e \in Events
  PROVE  /\ e.at \in Nat /\ e.serial \in Nat
         /\ e.action \in {"arrival", "ready", "deadline", "update", "finished", "wake"}
         /\ e.action \in {"arrival", "ready", "deadline"} => e \in WorkEvents /\ e.workflow \in Workflows
         /\ e.action = "update" => /\ e \in UpdateEvents /\ e.workflow \in Workflows
                                   /\ e.index \in Nat /\ e.update \in Fitting
         /\ e # NoEvent
  BY DEF Events, WorkEvents, UpdateEvents, OtherEvents, NoEvent

\* A serial number changes nothing else.
LEMMA Numbered ==
  ASSUME NEW f \in Events, NEW s \in Nat
  PROVE  Copies([f EXCEPT !.serial = s], f)
<1>1. CASE f \in WorkEvents
  BY <1>1 DEF Events, WorkEvents, Copies
<1>2. CASE f \in UpdateEvents
  BY <1>2 DEF Events, UpdateEvents, Copies
<1>3. CASE f \in OtherEvents
  BY <1>3 DEF Events, OtherEvents, Copies
<1> QED BY <1>1, <1>2, <1>3 DEF Events

\* The heap gains a copy of each event that is pushed, and nothing else.
LEMMA Pushed ==
  ASSUME NEW evs, NEW new \in Heap, serial \in Nat, Push(evs, new)
  PROVE  /\ serial' \in Nat
         /\ evs \subseteq events'
         /\ \A e \in events' : e \in evs \/ \E n \in DOMAIN new : new[n] \in Events /\ Copies(e, new[n])
         /\ \A n \in DOMAIN new : new[n] \in Events => \E e \in events' : Copies(e, new[n])
<1>1. Len(new) \in Nat /\ DOMAIN new = 1..Len(new)
  BY DEF Heap
<1>2. \A n \in DOMAIN new : new[n] \in Events \cup {NoEvent}
  BY DEF Heap
<1>3. events' = evs \cup Stamped(new, serial) /\ serial' = serial + Len(new)
  BY DEF Push
<1>4. \A n \in DOMAIN new : serial + n \in Nat
  BY <1>1
<1>5. \A n \in DOMAIN new : new[n] \in Events
        => Copies([new[n] EXCEPT !.serial = serial + n], new[n]) /\ new[n] # NoEvent
  BY <1>4, Numbered, EventKinds
<1>6. \A e \in Stamped(new, serial) : \E n \in DOMAIN new :
         new[n] # NoEvent /\ e = [new[n] EXCEPT !.serial = serial + n]
  BY DEF Stamped
<1>7. \A n \in DOMAIN new : new[n] # NoEvent
        => [new[n] EXCEPT !.serial = serial + n] \in Stamped(new, serial)
  BY DEF Stamped
<1>8. serial' \in Nat /\ evs \subseteq events'
  BY <1>1, <1>3
<1>9. ASSUME NEW e \in events', e \notin evs
      PROVE  \E n \in DOMAIN new : new[n] \in Events /\ Copies(e, new[n])
  <2>1. PICK n \in DOMAIN new : new[n] # NoEvent /\ e = [new[n] EXCEPT !.serial = serial + n]
    BY <1>3, <1>6, <1>9
  <2>2. new[n] \in Events
    BY <1>2, <2>1
  <2> QED BY <1>5, <2>1, <2>2
<1>10. ASSUME NEW n \in DOMAIN new, new[n] \in Events PROVE \E e \in events' : Copies(e, new[n])
  BY <1>3, <1>5, <1>7, <1>10
<1> QED BY <1>8, <1>9, <1>10

\* The events that are pushed.
LEMMA EventsMade ==
  /\ \A at \in Nat, w \in Workflows, a \in {"arrival", "ready", "deadline"} :
        For(at, a, w) \in Events /\ For(at, a, w).at = at
          /\ For(at, a, w).action = a /\ For(at, a, w).workflow = w
  /\ \A at \in Nat, a \in {"finished", "wake"} :
        At(at, a) \in Events /\ At(at, a).at = at /\ At(at, a).action = a
  BY DEF For, At, Events, WorkEvents, OtherEvents

\* The first event is not later than any other, and an update comes before
\* the readiness of the same moment.
LEMMA FirstIsEarliest ==
  ASSUME NEW e \in events, events \subseteq Events, First(e)
  PROVE  \A f \in events : e.at =< f.at
<1>1. \A f \in events : f.at \in Nat
  BY EventKinds
<1> QED BY <1>1 DEF First, Before

(***************************************************************************)
(* Prefixes and the moments they are prepared                              *)
(***************************************************************************)

\* The cached prefix is a prefix, all of it in the cache.
LEMMA PrefixCached ==
  ASSUME NEW X, NEW keys \in Seq(X), NEW kinds
  PROVE  /\ CachedPrefix(keys, kinds) \in 0..Len(keys)
         /\ \A i \in 1..CachedPrefix(keys, kinds) : Cached(keys[i], kinds)
<1> DEFINE S == {0} \cup {n \in 1..Len(keys) : \A i \in 1..n : Cached(keys[i], kinds)}
<1>1. Len(keys) \in Nat
  OBVIOUS
<1>2. S \subseteq Nat /\ S # {} /\ \A x \in S : x =< Len(keys)
  BY <1>1
<1>3. CachedPrefix(keys, kinds) = Max(S)
  BY DEF CachedPrefix
<1>6. \A m \in S : m \in 0..Len(keys) /\ \A i \in 1..m : Cached(keys[i], kinds)
  BY <1>1
<1> HIDE DEF S
<1>4. Max(S) \in S
  BY <1>1, <1>2, MaxOfBounded
<1>5. Max(S) \in 0..Len(keys) /\ \A i \in 1..Max(S) : Cached(keys[i], kinds)
  BY <1>4, <1>6
<1> QED BY <1>3, <1>5

\* block_keys gives as many keys as there are blocks, each longer than the last.
LEMMA BlockKeysFit ==
  ASSUME NEW blocks \in Seq(Blocks), Len(blocks) =< CacheBlocks
  PROVE  BlockKeys(blocks) \in KeyLists /\ Len(BlockKeys(blocks)) = Len(blocks)
<1>1. Len(blocks) \in Nat /\ DOMAIN blocks = 1..Len(blocks)
  OBVIOUS
<1>2. \A i \in 1..Len(blocks) : SubSeq(blocks, 1, i) \in Keys /\ Len(SubSeq(blocks, 1, i)) = i
  <2> TAKE i \in 1..Len(blocks)
  <2> QED BY <1>1, SubSeqProperties DEF Keys
<1>3. BlockKeys(blocks) = [i \in 1..Len(blocks) |-> SubSeq(blocks, 1, i)]
  BY <1>1 DEF BlockKeys
<1>4. BlockKeys(blocks) \in [1..Len(blocks) -> Keys]
  BY <1>2, <1>3
<1>5. BlockKeys(blocks) \in Seq(Keys) /\ Len(BlockKeys(blocks)) = Len(blocks)
  BY <1>1, <1>4, IsASeq, LenProperties
<1> QED BY <1>1, <1>2, <1>3, <1>5 DEF KeyLists

\* The latest of three moments.
LEMMA MaxOfThree ==
  ASSUME NEW a \in Int, NEW b \in Int, NEW c \in Int
  PROVE  /\ Max({a, b, c}) \in {a, b, c}
         /\ a =< Max({a, b, c}) /\ b =< Max({a, b, c}) /\ c =< Max({a, b, c})
<1>1. \E x \in {a, b, c} : \A y \in {a, b, c} : x >= y
  OBVIOUS
<1>2. Max({a, b, c}) \in {a, b, c} /\ \A y \in {a, b, c} : Max({a, b, c}) >= y
  BY <1>1, Zenon DEF Max
<1> QED BY <1>2

\* The least of three numbers.
LEMMA MinOfThree ==
  ASSUME NEW a \in Int, NEW b \in Int, NEW c \in Int
  PROVE  /\ Min({a, b, c}) \in {a, b, c}
         /\ Min({a, b, c}) =< a /\ Min({a, b, c}) =< b /\ Min({a, b, c}) =< c
<1>1. \E x \in {a, b, c} : \A y \in {a, b, c} : x =< y
  OBVIOUS
<1>2. Min({a, b, c}) \in {a, b, c} /\ \A y \in {a, b, c} : Min({a, b, c}) =< y
  BY <1>1, Zenon DEF Min
<1> QED BY <1>2

\* The moment to begin is a number, before the prefix is needed.
LEMMA BeginsBefore ==
  ASSUME NEW intent \in Intents, NEW kinds
  PROVE  /\ BeginAt(intent, kinds) \in Int
         /\ BeginAt(intent, kinds) =< intent.readyAt
         /\ CachedPrefix(intent.keys, kinds) # Len(intent.keys)
              => BeginAt(intent, kinds) < intent.readyAt
<1> DEFINE c == CachedPrefix(intent.keys, kinds)
           missing == Len(intent.keys) - c
<1>1. intent.keys \in Seq(Keys) /\ intent.readyAt \in Nat
  BY DEF Intents, KeyLists
<1>2. c \in 0..Len(intent.keys) /\ Len(intent.keys) \in Nat
  BY <1>1, PrefixCached
<1>3. missing \in Nat /\ (c # Len(intent.keys) => missing > 0)
  BY <1>2
<1>4. PrefillMs \in Nat /\ PrefillMs > 0
  BY HeadroomConstants
<1>5. BeginAt(intent, kinds) = intent.readyAt - missing * PrefillMs
  BY DEF BeginAt
<1> HIDE DEF missing
<1>6. missing * PrefillMs \in Nat /\ (missing > 0 => missing * PrefillMs > 0)
  BY <1>3, <1>4
<1> QED BY <1>1, <1>3, <1>5, <1>6

\* A wakeup is later than now.
LEMMA WakesLater ==
  ASSUME NEW intent \in Intents, NEW kinds, now \in Nat
  PROVE  \/ Wakeup(intent, kinds) = NoEvent
         \/ /\ Wakeup(intent, kinds) \in Events
            /\ now < Wakeup(intent, kinds).at /\ Wakeup(intent, kinds).action = "wake"
<1> DEFINE at == Max({now, intent.eligibleAt, BeginAt(intent, kinds)})
<1>1. intent.eligibleAt \in Nat /\ BeginAt(intent, kinds) \in Int
  BY BeginsBefore DEF Intents
<1>2. at \in Int /\ (now < at => at \in Nat)
  <2> DEFINE b == BeginAt(intent, kinds)
             a == intent.eligibleAt
  <2>1. a \in Int /\ b \in Int /\ now \in Int
    BY <1>1
  <2> HIDE DEF a, b
  <2>2. Max({now, a, b}) \in {now, a, b}
    BY <2>1, MaxOfThree
  <2>3. Max({now, a, b}) \in Int
    BY <2>1, <2>2
  <2> QED BY <2>3 DEF a, b
<1>3. Wakeup(intent, kinds) = IF policy = "future_timing" /\ intent.active /\ now < at /\ at < intent.readyAt
                              THEN At(at, "wake") ELSE NoEvent
  BY Zenon DEF Wakeup
<1> HIDE DEF at
<1> QED BY <1>2, <1>3, EventsMade

(***************************************************************************)
(* A turn starts                                                           *)
(***************************************************************************)

\* What is announced for a turn: future timing begins with the last revision.
LEMMA IntentMade ==
  ASSUME NEW t \in ValidTurns, NEW index \in Nat, now \in Nat
  PROVE  /\ NewIntent(t, index) \in Intents
         /\ NewIntent(t, index).index = index
         /\ policy = "future_timing" =>
              /\ \A u \in DOMAIN t.updates : now + t.updates[u].at =< NewIntent(t, index).eligibleAt
              /\ now < NewIntent(t, index).eligibleAt =>
                    \E u \in DOMAIN t.updates : NewIntent(t, index).eligibleAt = now + t.updates[u].at
<1> DEFINE S == {0} \cup {t.updates[u].at : u \in DOMAIN t.updates}
<1>1. t \in Turns /\ Valid(t)
  BY DEF ValidTurns
<1>2. t.wait \in Nat /\ t.intent \in Seq(Blocks) /\ t.updates \in Seq(Revisions)
  BY <1>1 DEF Turns, Revisions
<1>3. \A u \in DOMAIN t.updates : t.updates[u].at \in Nat
  <2>1. \A u \in DOMAIN t.updates : t.updates[u] \in Revisions
    BY <1>2
  <2>2. \A x \in Revisions : x.at \in Nat
    BY DEF Revisions
  <2> QED BY <2>1, <2>2
<1>4. Len(t.intent) =< CacheBlocks /\ \A u \in DOMAIN t.updates : t.updates[u].at =< t.wait
  BY <1>1 DEF Valid
<1>5. S \subseteq Nat /\ S # {} /\ \A x \in S : x =< t.wait
  BY <1>2, <1>3, <1>4
<1>6. \A u \in DOMAIN t.updates : t.updates[u].at \in S
  OBVIOUS
<1>7. \A x \in S : x = 0 \/ \E u \in DOMAIN t.updates : x = t.updates[u].at
  OBVIOUS
<1> HIDE DEF S
<1>8. Max(S) \in S /\ \A x \in S : x =< Max(S)
  BY <1>2, <1>5, MaxOfBounded
<1>9. Max(S) \in Nat
  BY <1>5, <1>8
<1> DEFINE will == policy = "future_timing" /\ \E u \in DOMAIN t.updates : t.updates[u].cancel
           eligible == IF policy = "future_timing" THEN now + Max(S) ELSE now
<1>10. will \in BOOLEAN /\ eligible \in Nat /\ now + t.wait \in Nat
  BY <1>2, <1>9
<1>11. NewIntent(t, index) =
          [keys |-> BlockKeys(t.intent), index |-> index, revision |-> 0, active |-> TRUE,
           readyAt |-> now + t.wait, eligibleAt |-> eligible, willCancel |-> will]
  BY Zenon DEF NewIntent, S
<1>12. BlockKeys(t.intent) \in KeyLists
  BY <1>2, <1>4, BlockKeysFit
<1> HIDE DEF will
<1>13. /\ NewIntent(t, index) \in Intents
       /\ NewIntent(t, index).index = index /\ NewIntent(t, index).eligibleAt = eligible
  <2> HIDE DEF eligible
  <2> QED BY <1>10, <1>11, <1>12 DEF Intents
<1>14. ASSUME policy = "future_timing"
       PROVE  /\ \A u \in DOMAIN t.updates : now + t.updates[u].at =< eligible
              /\ now < eligible => \E u \in DOMAIN t.updates : eligible = now + t.updates[u].at
  <2>1. eligible = now + Max(S)
    BY <1>14
  <2>2. \A u \in DOMAIN t.updates : now + t.updates[u].at =< eligible
    BY <1>3, <1>6, <1>8, <1>9, <2>1
  <2>3. now < eligible => Max(S) # 0
    BY <2>1, <1>9
  <2> QED BY <1>7, <1>8, <2>1, <2>2, <2>3
<1> HIDE DEF eligible
<1> QED BY <1>13, <1>14

\* Events in a list of three parts.
LEMMA ThreeParts ==
  ASSUME NEW r \in Events, NEW U \in Seq(Events), NEW k \in Events \cup {NoEvent}
  PROVE  LET new == <<r>> \o U \o <<k>>
         IN /\ new \in Heap
            /\ \A n \in DOMAIN new : new[n] = r \/ new[n] = k \/ \E u \in DOMAIN U : new[n] = U[u]
            /\ \A u \in DOMAIN U : \E n \in DOMAIN new : new[n] = U[u]
<1> DEFINE X == Events \cup {NoEvent}
           new == <<r>> \o U \o <<k>>
<1>1. Len(U) \in Nat /\ U \in Seq(X) /\ \A u \in 1..Len(U) : U[u] \in Events
  BY SeqMonotonic
<1>2. new \in Seq(X) /\ Len(new) = Len(U) + 2
  BY <1>1
<1>3. new[1] = r /\ new[Len(U) + 2] = k /\ \A u \in 1..Len(U) : new[u + 1] = U[u]
  BY <1>1
<1>4. DOMAIN new = 1..(Len(U) + 2) /\ DOMAIN U = 1..Len(U)
  BY <1>1, <1>2
<1> HIDE DEF new
<1>5. \A n \in 1..(Len(U) + 2) : n = 1 \/ n = Len(U) + 2 \/ (n - 1 \in 1..Len(U) /\ (n - 1) + 1 = n)
  BY <1>1
<1>6. \A u \in 1..Len(U) : u + 1 \in 1..(Len(U) + 2)
  BY <1>1
<1>7. \A n \in DOMAIN new : new[n] = r \/ new[n] = k \/ \E u \in DOMAIN U : new[n] = U[u]
  <2> TAKE n \in DOMAIN new
  <2>1. CASE n = 1 \/ n = Len(U) + 2
    BY <1>3, <2>1
  <2>2. CASE n - 1 \in 1..Len(U) /\ (n - 1) + 1 = n
    BY <1>3, <1>4, <2>2
  <2> QED BY <1>4, <1>5, <2>1, <2>2
<1>8. \A u \in DOMAIN U : \E n \in DOMAIN new : new[n] = U[u]
  BY <1>3, <1>4, <1>6
<1> QED BY <1>2, <1>7, <1>8 DEF new, Heap

\* The events of a turn that was announced.
LEMMA TurnForetold ==
  ASSUME NEW w \in Workflows, NEW t \in ValidTurns, NEW index \in Nat, NEW evs, NEW kinds,
         now \in Nat, serial \in Nat,
         Push(evs, <<For(now + t.wait, "ready", w)>> \o Updates(w, index, t)
                      \o <<Wakeup(NewIntent(t, index), kinds)>>)
  PROVE  /\ serial' \in Nat
         /\ evs \subseteq events'
         /\ \A e \in events' : e \in evs \/
              /\ e \in Events /\ now =< e.at
              /\ \/ e.action = "ready" /\ e.workflow = w
                 \/ e.action = "wake"
                 \/ /\ e.action = "update" /\ e.workflow = w /\ e.index = index
                    /\ \E u \in DOMAIN t.updates : e.at = now + t.updates[u].at
         /\ \A u \in DOMAIN t.updates : \E e \in events' : e.at = now + t.updates[u].at
<1> DEFINE r == For(now + t.wait, "ready", w)
           U == Updates(w, index, t)
           k == Wakeup(NewIntent(t, index), kinds)
           new == <<r>> \o U \o <<k>>
<1>1. t.wait \in Nat /\ t.updates \in Seq(Revisions)
  BY DEF ValidTurns, Turns, Revisions
<1>2. \A u \in DOMAIN t.updates : t.updates[u] \in Fitting /\ t.updates[u].at \in Nat
  <2>1. \A u \in DOMAIN t.updates : t.updates[u] \in Revisions
    BY <1>1
  <2>2. \A x \in Revisions : x.at \in Nat
    BY DEF Revisions
  <2>3. \A u \in DOMAIN t.updates : Len(t.updates[u].prefix) =< CacheBlocks
    BY DEF ValidTurns, Valid
  <2> QED BY <2>1, <2>2, <2>3 DEF Fitting
<1>3. r \in Events /\ r.at = now + t.wait /\ r.action = "ready" /\ r.workflow = w
  BY <1>1, EventsMade
<1>4. \A u \in DOMAIN t.updates : /\ U[u] \in Events /\ U[u].at = now + t.updates[u].at
                                  /\ U[u].action = "update" /\ U[u].workflow = w /\ U[u].index = index
  BY <1>2 DEF Updates, Events, UpdateEvents
<1>5. DOMAIN U = DOMAIN t.updates /\ U \in Seq(Events)
  <2>1. DOMAIN t.updates = 1..Len(t.updates) /\ Len(t.updates) \in Nat
    BY <1>1
  <2>2. U = [u \in DOMAIN t.updates |-> U[u]]
    BY DEF Updates
  <2> HIDE DEF U
  <2>3. U \in [1..Len(t.updates) -> Events]
    BY <1>4, <2>1, <2>2
  <2> QED BY <2>1, <2>3, IsASeq
<1>6. k = NoEvent \/ (k \in Events /\ now < k.at /\ k.action = "wake")
  BY IntentMade, WakesLater
<1> HIDE DEF r, U, k
<1>7. /\ new \in Heap
      /\ \A n \in DOMAIN new : new[n] = r \/ new[n] = k \/ \E u \in DOMAIN U : new[n] = U[u]
      /\ \A u \in DOMAIN U : \E n \in DOMAIN new : new[n] = U[u]
  <2>1. k \in Events \cup {NoEvent}
    BY <1>6
  <2> QED BY <1>3, <1>5, <2>1, ThreeParts, Zenon
<1>8. Push(evs, new)
  BY DEF r, U, k
<1> HIDE DEF new
<1>9. /\ serial' \in Nat /\ evs \subseteq events'
      /\ \A e \in events' : e \in evs \/ \E n \in DOMAIN new : new[n] \in Events /\ Copies(e, new[n])
      /\ \A n \in DOMAIN new : new[n] \in Events => \E e \in events' : Copies(e, new[n])
  BY <1>7, <1>8, Pushed
<1>10. ASSUME NEW e \in events', e \notin evs
       PROVE  /\ e \in Events /\ now =< e.at
              /\ \/ e.action = "ready" /\ e.workflow = w
                 \/ e.action = "wake"
                 \/ /\ e.action = "update" /\ e.workflow = w /\ e.index = index
                    /\ \E u \in DOMAIN t.updates : e.at = now + t.updates[u].at
  <2>1. PICK n \in DOMAIN new : new[n] \in Events /\ Copies(e, new[n])
    BY <1>9, <1>10
  <2>2. CASE new[n] = r
    BY <1>1, <1>3, <2>1, <2>2 DEF Copies
  <2>3. CASE new[n] = k
    <3>1. k # NoEvent
      BY <2>1, <2>3, EventKinds
    <3> QED BY <1>6, <2>1, <2>3, <3>1, EventKinds DEF Copies
  <2>4. CASE \E u \in DOMAIN U : new[n] = U[u]
    <3>1. PICK u \in DOMAIN t.updates : new[n] = U[u]
      BY <1>5, <2>4
    <3>2. e \in Events /\ e.at = U[u].at /\ e.action = U[u].action
      BY <2>1, <3>1 DEF Copies
    <3>3. e.workflow = U[u].workflow /\ e.index = U[u].index
      BY <1>4, <2>1, <3>1 DEF Copies
    <3> QED BY <1>2, <1>4, <3>2, <3>3
  <2> QED BY <1>7, <2>2, <2>3, <2>4
<1>11. ASSUME NEW u \in DOMAIN t.updates PROVE \E e \in events' : e.at = now + t.updates[u].at
  <2>1. PICK n \in DOMAIN new : new[n] = U[u]
    BY <1>5, <1>7
  <2>2. PICK e \in events' : Copies(e, new[n])
    BY <1>4, <1>9, <2>1
  <2> QED BY <1>4, <2>1, <2>2 DEF Copies
<1> QED BY <1>9, <1>10, <1>11

(***************************************************************************)
(* Steps that start no turn                                                *)
(***************************************************************************)
SameTurns ==
    \A x \in Workflows : state'[x].turn = state[x].turn /\ state'[x].index = state[x].index

SameIntents ==
    \A x \in Workflows :
        /\ intents'[x] \in Intents <=> intents[x] \in Intents
        /\ intents[x] \in Intents =>
              /\ intents'[x].index = intents[x].index
              /\ intents'[x].eligibleAt = intents[x].eligibleAt

(* The heap loses events of this moment and gains wakeups and the end of a job. *)
SameHeap ==
    /\ \A e \in events' : e \in events
          \/ (e \in Events /\ now =< e.at /\ e.action \in {"wake", "finished"})
    /\ \A e \in events : now < e.at => e \in events'

\* What the heap tells is not disturbed by a step that starts no turn.
LEMMA QuietHeap ==
  ASSUME HeadroomInv, SameTurns, SameIntents, SameHeap,
         order' = order, policy' = policy, now' = now
  PROVE  TurnInv' /\ HeapInv' /\ EligibleInv'
<1> USE DEF HeadroomInv
<1>1. events \subseteq Events /\ \A e \in events : e.action \in {"arrival", "ready", "update"}
         => e.workflow \in Workflows
  BY EventKinds DEF TypeInv
<1>2. TurnInv'
  BY DEF TurnInv, SameTurns, SameIntents, Started, Announced
<1>3. ASSUME NEW e \in events' PROVE Foretold(e)'
  <2>1. CASE e \in events
    <3>1. Foretold(e)
      BY <2>1 DEF HeapInv
    <3>2. CASE e.action = "arrival" \/ e.action = "ready"
      BY <1>1, <2>1, <3>1, <3>2 DEF Foretold, SameTurns, Started
    <3>3. CASE e.action = "update"
      BY <1>1, <2>1, <3>1, <3>3 DEF Foretold, SameTurns, SameIntents, Announced
    <3>4. CASE e.action \notin {"arrival", "ready", "update"}
      BY <3>1, <3>4 DEF Foretold
    <3> QED BY <3>2, <3>3, <3>4
  <2>2. CASE e \notin events
    BY <2>2 DEF SameHeap, Foretold
  <2> QED BY <2>1, <2>2
<1>4. ASSUME NEW e \in events', NEW f \in events',
             e.action = "arrival" /\ f.action = "arrival" /\ e.workflow = f.workflow
      PROVE  e = f
  <2>1. e \in events /\ f \in events
    BY <1>4 DEF SameHeap
  <2> QED BY <1>4, <2>1 DEF HeapInv
<1>5. HeapInv'
  BY <1>3, <1>4 DEF HeapInv
<1>6. EligibleInv'
  <2> SUFFICES ASSUME policy = "future_timing", NEW w \in Workflows, Announced(w)',
                      now < intents'[w].eligibleAt
               PROVE  \E e \in events' : e.at = intents'[w].eligibleAt
    BY DEF EligibleInv
  <2>1. Announced(w) /\ intents'[w].eligibleAt = intents[w].eligibleAt
    BY DEF SameIntents, Announced
  <2>2. PICK e \in events : e.at = intents[w].eligibleAt
    BY <2>1 DEF EligibleInv
  <2> QED BY <2>1, <2>2 DEF SameHeap
<1> QED BY <1>2, <1>5, <1>6

\* The job in progress is not disturbed either, unless it is revised or cancelled.
LEMMA QuietWork ==
  ASSUME HeadroomInv, SameTurns, SameIntents, SameHeap, gpu' = gpu, policy' = policy,
         \A i \in DOMAIN queue' : queue'[i] \in Workflows /\ Started(queue'[i]),
         policy = "future_timing" /\ gpu.kind = "speculative" =>
            /\ state'[gpu.workflow].status # "cancelled"
            /\ intents'[gpu.workflow].revision = intents[gpu.workflow].revision
  PROVE  WorkInv' /\ OvertakenInv'
<1> USE DEF HeadroomInv
<1>1. gpu.kind \in {"demand", "speculative"} => gpu.workflow \in Workflows
  BY DEF TypeInv, Idle, DemandJobs, PreparationJobs
<1>2. WorkInv'
  BY <1>1 DEF WorkInv, SameTurns, SameIntents, Started, Announced
<1>3. OvertakenInv'
  <2> SUFFICES ASSUME policy = "future_timing", gpu.kind = "speculative"
               PROVE  /\ intents'[gpu.workflow].revision = gpu.revision
                      /\ \A e \in events' : e.action = "update" /\ e.workflow = gpu.workflow
                            => e.index # intents'[gpu.workflow].index
    BY DEF OvertakenInv
  <2>1. /\ intents[gpu.workflow].revision = gpu.revision
        /\ \A e \in events : e.action = "update" /\ e.workflow = gpu.workflow
              => e.index # intents[gpu.workflow].index
    BY DEF OvertakenInv
  <2>2. intents'[gpu.workflow].index = intents[gpu.workflow].index
    BY <1>1 DEF WorkInv, Announced, SameIntents
  <2> QED BY <2>1, <2>2 DEF SameHeap
<1> QED BY <1>2, <1>3

\* An event that is popped is of this moment.
LEMMA PoppedHeap ==
  ASSUME NEW e \in events, events \subseteq Events, e.at = now, Popped(e), now \in Nat
  PROVE  SameHeap /\ serial' = serial /\ events' \subseteq Events
<1>1. events' = events \ {e} /\ serial' = serial
  BY DEF Popped
<1> QED BY <1>1 DEF SameHeap

\* A workflow gets a status.
LEMMA StatusSet ==
  ASSUME NEW w \in Workflows, NEW s \in Statuses, state \in [Workflows -> States],
         state' = [state EXCEPT ![w].status = s]
  PROVE  /\ state' \in [Workflows -> States] /\ SameTurns
         /\ \A x \in Workflows : state'[x].status = IF x = w THEN s ELSE state[x].status
  BY DEF States, SameTurns

\* An announcement is withdrawn.
LEMMA Deactivated ==
  ASSUME NEW w \in Workflows, intents \in [Workflows -> Intents \cup Unannounced], Deactivate(w)
  PROVE  /\ intents' \in [Workflows -> Intents \cup Unannounced] /\ SameIntents
         /\ \A x \in Workflows : intents[x] \in Intents => intents'[x].revision = intents[x].revision
<1>1. intents' = [intents EXCEPT ![w] = [intents[w] EXCEPT !.active = FALSE]]
  BY DEF Deactivate
<1> DEFINE r == [intents[w] EXCEPT !.active = FALSE]
<1>2. CASE intents[w] \in Intents
  <2>1. /\ r \in Intents /\ r.index = intents[w].index /\ r.eligibleAt = intents[w].eligibleAt
        /\ r.revision = intents[w].revision
    BY <1>2 DEF Intents
  <2> HIDE DEF r
  <2>2. intents' = [intents EXCEPT ![w] = r]
    BY <1>1 DEF r
  <2> QED BY <1>2, <2>1, <2>2 DEF SameIntents
<1>3. CASE intents[w] \notin Intents
  <2>1. intents[w] \in Unannounced
    BY <1>3
  <2>2. r \in Unannounced
    BY <2>1 DEF Unannounced
  <2>3. r \notin Intents
    BY <2>2 DEF Unannounced, Intents
  <2> HIDE DEF r
  <2>4. intents' = [intents EXCEPT ![w] = r]
    BY <1>1 DEF r
  <2> QED BY <1>3, <2>2, <2>3, <2>4 DEF SameIntents
<1> QED BY <1>2, <1>3

(***************************************************************************)
(* The actions                                                             *)
(***************************************************************************)

\* The simulation starts with the invariant.
LEMMA InitHeadroom == Init => HeadroomInv
<1> SUFFICES ASSUME Init PROVE HeadroomInv
  OBVIOUS
<1>1. PICK ws \in [1..Cardinality(Workflows) -> Workflows] :
         /\ \A i, j \in DOMAIN ws : i < j => ws[i] # ws[j]
         /\ events = Arrivals(ws) /\ serial = 2 * Len(ws)
  BY DEF Init
<1> DEFINE c == Cardinality(Workflows)
           A == [n \in DOMAIN ws |-> For(Arrival[ws[n]], "arrival", ws[n])]
           D == [n \in DOMAIN ws |-> For(Arrival[ws[n]] + HorizonMs, "deadline", ws[n])]
<1>2. c \in Nat /\ ws \in Seq(Workflows) /\ Len(ws) = c /\ DOMAIN ws = 1..c
  BY HeadroomConstants, FS_CardinalityType
<1>3. Arrival \in [Workflows -> Nat] /\ HorizonMs \in Nat
  BY HeadroomConstants
<1>4. \A n \in 1..c : /\ A[n] \in Events /\ A[n].action = "arrival" /\ A[n].workflow = ws[n]
                      /\ D[n] \in Events /\ D[n].action = "deadline"
  BY <1>2, <1>3, EventsMade
<1>5. A \in Seq(Events) /\ D \in Seq(Events) /\ Len(A) = c /\ Len(D) = c
  BY <1>2, <1>4
<1>6. events = Stamped(A \o D, 0)
  BY <1>1 DEF Arrivals
<1> HIDE DEF A, D, c
<1> DEFINE new == A \o D
<1>7. Len(new) = c + c /\ DOMAIN new = 1..(c + c)
  BY <1>2, <1>5
<1>8. \A n \in 1..(c + c) : new[n] = IF n =< c THEN A[n] ELSE D[n - c]
  BY <1>2, <1>5
<1>9. \A n \in 1..(c + c) : (n =< c /\ n \in 1..c) \/ (~(n =< c) /\ n - c \in 1..c)
  BY <1>2
<1>10. \A n \in DOMAIN new : /\ new[n] \in Events /\ new[n].action \in {"arrival", "deadline"}
                             /\ new[n].action = "arrival" => n \in 1..c /\ new[n].workflow = ws[n]
  <2> TAKE n \in DOMAIN new
  <2> HIDE DEF new
  <2>1. CASE n =< c /\ n \in 1..c
    BY <1>4, <1>7, <1>8, <2>1
  <2>2. CASE ~(n =< c) /\ n - c \in 1..c
    BY <1>4, <1>7, <1>8, <2>2
  <2> QED BY <1>7, <1>9, <2>1, <2>2
<1> HIDE DEF new
<1>11. \A e \in events : \E n \in DOMAIN new : e = [new[n] EXCEPT !.serial = 0 + n]
  BY <1>6 DEF Stamped, new
<1>12. \A n \in DOMAIN new : Copies([new[n] EXCEPT !.serial = 0 + n], new[n])
  <2>1. \A n \in DOMAIN new : 0 + n \in Nat
    BY <1>2, <1>7
  <2> QED BY <1>10, <2>1, Numbered
<1>13. \A e \in events : e \in Events /\ e.action \in {"arrival", "deadline"}
  <2> TAKE e \in events
  <2>1. PICK n \in DOMAIN new : e = [new[n] EXCEPT !.serial = 0 + n]
    BY <1>11
  <2>2. Copies(e, new[n])
    BY <1>12, <2>1
  <2> QED BY <1>10, <2>2 DEF Copies
<1>14. NoIntent \notin ValidTurns
  BY DEF NoIntent, ValidTurns, Turns
<1>15. \A x \in Workflows : /\ state[x] \in States /\ state[x].index = 0 /\ state[x].turn = NoIntent
                            /\ intents[x] \in Unannounced
  BY DEF Init, States, Statuses, Unannounced, NoIntent
<1>16. \A x \in Unannounced : x \notin Intents
  BY DEF Unannounced, Intents
<1>17. TypeInv
  <2>1. 0 \in 0..ObservationEnd
    BY ObservationEnds
  <2>2. state \in [Workflows -> States] /\ intents \in [Workflows -> Intents \cup Unannounced]
    BY <1>15 DEF Init
  <2>3. events \subseteq Events /\ serial \in Nat
    BY <1>1, <1>2, <1>13
  <2>4. queue \in Seq(Workflows) /\ order \in Seq(Workflows)
    BY DEF Init
  <2>5. stats \in Stats
    BY DEF Init, Stats
  <2> QED BY <2>1, <2>2, <2>3, <2>4, <2>5 DEF Init, TypeInv
<1>18. TurnInv
  <2>1. \A x \in Workflows : TurnsOf[x] \in Nat \ {0}
    BY HeadroomConstants
  <2> QED BY <1>15, <1>16, <2>1 DEF TurnInv, Announced
<1>19. HeapInv
  <2>1. \A e \in events : Foretold(e)
    <3> TAKE e \in events
    <3>1. e \in Events /\ e.action \in {"arrival", "deadline"} /\ now = 0
      BY <1>13 DEF Init
    <3>2. e.workflow \in Workflows /\ e.at \in Nat
      BY <3>1, EventKinds
    <3> QED BY <1>14, <1>15, <3>1, <3>2 DEF Foretold, Started
  <2>2. ASSUME NEW e \in events, NEW f \in events,
               e.action = "arrival" /\ f.action = "arrival" /\ e.workflow = f.workflow
        PROVE  e = f
    <3>1. PICK n \in DOMAIN new : e = [new[n] EXCEPT !.serial = 0 + n]
      BY <1>11
    <3>2. PICK m \in DOMAIN new : f = [new[m] EXCEPT !.serial = 0 + m]
      BY <1>11
    <3>3. Copies(e, new[n]) /\ Copies(f, new[m])
      BY <1>12, <3>1, <3>2
    <3>4. new[n].action = "arrival" /\ new[m].action = "arrival" /\ new[n].workflow = new[m].workflow
      BY <2>2, <3>3 DEF Copies
    <3>5. n \in 1..c /\ m \in 1..c /\ ws[n] = ws[m]
      BY <1>10, <3>4
    <3>6. n = m
      BY <1>1, <1>2, <3>5
    <3> QED BY <3>1, <3>2, <3>6
  <2> QED BY <2>1, <2>2 DEF HeapInv
<1>20. WorkInv /\ OvertakenInv
  BY DEF Init, Idle, WorkInv, OvertakenInv
<1>21. EligibleInv
  BY <1>15, <1>16 DEF EligibleInv, Announced
<1> QED BY <1>17, <1>18, <1>19, <1>20, <1>21 DEF HeadroomInv

\* The clock moves to the first event.
LEMMA AdvanceKeeps == HeadroomInv /\ Advance => HeadroomInv'
<1> SUFFICES ASSUME HeadroomInv, Advance PROVE HeadroomInv'
  OBVIOUS
<1> USE DEF HeadroomInv
<1>1. PICK e \in events : First(e) /\ e.at =< ObservationEnd /\ now' = e.at
  BY DEF Advance
<1>2. events \subseteq Events /\ now \in Nat /\ e.at \in Nat /\ now =< e.at
  BY EventKinds, ObservationEnds DEF TypeInv, HeapInv, Foretold
<1>3. \A f \in events : now' =< f.at
  BY <1>1, <1>2, FirstIsEarliest
<1>4. now' \in 0..ObservationEnd
  BY <1>1, <1>2, ObservationEnds
<1>5. UNCHANGED <<policy, events, serial, lru, kind, queue, gpu, intents, order, state, stats>>
         /\ open' = TRUE
  BY DEF Advance, heapVars, cacheVars
<1>6. TypeInv' /\ TurnInv' /\ WorkInv' /\ OvertakenInv'
  BY <1>4, <1>5 DEF TypeInv, TurnInv, WorkInv, OvertakenInv, Started, Announced
<1>7. HeapInv'
  BY <1>3, <1>5 DEF HeapInv, Foretold, Started, Announced
<1>8. EligibleInv'
  <2> SUFFICES ASSUME policy = "future_timing", NEW w \in Workflows, Announced(w),
                      now' < intents[w].eligibleAt
               PROVE  \E f \in events : f.at = intents[w].eligibleAt
    BY <1>5 DEF EligibleInv, Announced
  <2>1. intents[w].eligibleAt \in Nat
    BY DEF Announced, Intents
  <2> QED BY <1>1, <1>2, <2>1 DEF EligibleInv
<1> QED BY <1>6, <1>7, <1>8

\* The first turn of a workflow starts.
LEMMA ArriveKeeps == HeadroomInv /\ Arrive => HeadroomInv'
<1> SUFFICES ASSUME HeadroomInv, Arrive PROVE HeadroomInv'
  OBVIOUS
<1> USE DEF HeadroomInv
<1>1. PICK e \in events : Due(e, "arrival") /\ StartTurn(e.workflow, 0, events \ {e}, kind)
  BY DEF Arrive
<1> DEFINE w == e.workflow
<1>2. PICK t \in FirstTurns :
         /\ state' = [state EXCEPT ![w].index = 0, ![w].turn = t]
         /\ Push(events \ {e}, <<For(now + t.wait, "ready", w)>>)
         /\ UNCHANGED <<intents, order>>
  BY <1>1 DEF StartTurn
<1>3. UNCHANGED <<policy, now, open, lru, kind, queue, gpu, stats>>
  BY DEF Arrive, cacheVars
<1>4. /\ events \subseteq Events /\ now \in Nat /\ serial \in Nat /\ state \in [Workflows -> States]
      /\ e.at = now /\ e.action = "arrival" /\ w \in Workflows
  BY <1>1, EventKinds, ObservationEnds DEF TypeInv, Due
<1>5. t \in ValidTurns /\ t.wait \in Nat
  BY HeadroomConstants DEF ValidTurns, Valid, Turns
<1> DEFINE r == For(now + t.wait, "ready", w)
<1>6. r \in Events /\ r.at = now + t.wait /\ r.action = "ready" /\ r.workflow = w
  BY <1>4, <1>5, EventsMade
<1> HIDE DEF r
<1>7. /\ serial' \in Nat /\ events \ {e} \subseteq events'
      /\ \A f \in events' : (f \in events /\ f # e) \/ Copies(f, r)
  <2>1. <<r>> \in Heap /\ DOMAIN <<r>> = {1} /\ <<r>>[1] = r
    BY <1>6 DEF Heap
  <2>2. Push(events \ {e}, <<r>>)
    BY <1>2 DEF r
  <2>3. /\ serial' \in Nat /\ events \ {e} \subseteq events'
        /\ \A f \in events' : f \in events \ {e}
              \/ \E n \in DOMAIN <<r>> : <<r>>[n] \in Events /\ Copies(f, <<r>>[n])
    BY <1>4, <2>1, <2>2, Pushed
  <2> QED BY <2>1, <2>3
<1>8. /\ state' \in [Workflows -> States] /\ state'[w].index = 0 /\ state'[w].turn = t
      /\ state'[w].status = state[w].status
      /\ \A x \in Workflows : x # w => state'[x] = state[x]
  <2>1. state' = [state EXCEPT ![w].index = 0, ![w].turn = t] /\ w \in Workflows /\ 0 \in Nat
    BY <1>2, <1>4
  <2> HIDE DEF w
  <2> QED BY <1>4, <1>5, <2>1 DEF States
<1>9. ~Started(w) /\ state[w].index = 0
  BY <1>1, <1>4 DEF HeapInv, Foretold, TurnInv
<1> HIDE DEF w
<1>10. /\ \A x \in Workflows : state'[x].index = state[x].index /\ state'[x].status = state[x].status
       /\ \A x \in Workflows : Started(x)' <=> (x = w \/ Started(x))
  BY <1>5, <1>8, <1>9 DEF Started
<1>11. TypeInv'
  <2>1. events' \subseteq Events
    BY <1>4, <1>7 DEF Copies
  <2> QED BY <1>2, <1>3, <1>7, <1>8, <2>1 DEF TypeInv
<1>12. TurnInv'
  BY <1>2, <1>9, <1>10 DEF TurnInv, Announced
<1>13. ASSUME NEW f \in events' PROVE Foretold(f)'
  <2>1. CASE f \in events /\ f # e
    <3>1. Foretold(f)
      BY <2>1 DEF HeapInv
    <3>2. CASE f.action = "arrival"
      <4>1. f.workflow # w /\ f.workflow \in Workflows
        BY <1>4, <2>1, <3>2, EventKinds DEF HeapInv, w
      <4> QED BY <1>3, <1>10, <3>1, <3>2, <4>1 DEF Foretold
    <3>3. CASE f.action \in {"ready", "update"}
      <4>1. f.workflow \in Workflows
        BY <1>4, <2>1, <3>3, EventKinds
      <4> QED BY <1>2, <1>3, <1>10, <3>1, <3>3, <4>1 DEF Foretold, Announced
    <3>4. CASE f.action \notin {"arrival", "ready", "update"}
      BY <1>3, <3>1, <3>4 DEF Foretold
    <3> QED BY <3>2, <3>3, <3>4
  <2>2. CASE Copies(f, r)
    <3>1. f.at = now + t.wait /\ f.action = "ready" /\ f.workflow = w
      BY <1>6, <2>2 DEF Copies
    <3> QED BY <1>3, <1>4, <1>5, <1>10, <3>1 DEF Foretold
  <2> QED BY <1>7, <2>1, <2>2
<1>14. HeapInv'
  <2>1. \A f \in events' : f.action = "arrival" => f \in events
    BY <1>6, <1>7 DEF Copies
  <2> QED BY <1>13, <2>1 DEF HeapInv
<1>15. WorkInv'
  <2>1. \A i \in DOMAIN queue : queue[i] \in Workflows
    BY DEF TypeInv
  <2>2. gpu.kind = "demand" => gpu.workflow \in Workflows
    BY DEF TypeInv, Idle, DemandJobs, PreparationJobs
  <2> QED BY <1>2, <1>3, <1>10, <2>1, <2>2 DEF WorkInv, Announced
<1>16. EligibleInv'
  <2> SUFFICES ASSUME policy = "future_timing", NEW x \in Workflows, Announced(x),
                      now < intents[x].eligibleAt
               PROVE  \E f \in events' : f.at = intents[x].eligibleAt
    BY <1>2, <1>3 DEF EligibleInv, Announced
  <2>1. PICK f \in events : f.at = intents[x].eligibleAt
    BY DEF EligibleInv
  <2>2. f # e
    BY <1>4, <2>1
  <2> QED BY <1>7, <2>1, <2>2
<1>17. OvertakenInv'
  <2>1. gpu.kind = "speculative" => gpu.workflow \in Workflows
    BY DEF TypeInv, Idle, DemandJobs, PreparationJobs
  <2>2. \A f \in events' : f.action = "update" => f \in events
    BY <1>6, <1>7 DEF Copies
  <2> QED BY <1>2, <1>3, <1>10, <2>1, <2>2 DEF OvertakenInv
<1> QED BY <1>11, <1>12, <1>14, <1>15, <1>16, <1>17

\* A deadline ends a workflow that still runs.
LEMMA DeadlineKeeps == HeadroomInv /\ Deadline => HeadroomInv'
<1> SUFFICES ASSUME HeadroomInv, Deadline PROVE HeadroomInv'
  OBVIOUS
<1> USE DEF HeadroomInv
<1>1. PICK e \in events :
         /\ Due(e, "deadline") /\ Popped(e)
         /\ IF Running(e.workflow)
            THEN /\ state' = [state EXCEPT ![e.workflow].status = "timeout"]
                 /\ Deactivate(e.workflow)
            ELSE UNCHANGED <<state, intents>>
  BY DEF Deadline
<1> DEFINE w == e.workflow
<1>2. UNCHANGED <<policy, now, open, lru, kind, queue, gpu, order, stats>>
  BY DEF Deadline, cacheVars
<1>3. /\ events \subseteq Events /\ now \in Nat /\ serial \in Nat /\ state \in [Workflows -> States]
      /\ intents \in [Workflows -> Intents \cup Unannounced]
      /\ e.at = now /\ w \in Workflows
  BY <1>1, EventKinds, ObservationEnds DEF TypeInv, Due
<1>4. SameHeap /\ serial' = serial /\ events' \subseteq Events
  BY <1>1, <1>3, PoppedHeap
<1> HIDE DEF w
<1>5. /\ state' \in [Workflows -> States] /\ SameTurns
      /\ intents' \in [Workflows -> Intents \cup Unannounced] /\ SameIntents
      /\ \A x \in Workflows : intents[x] \in Intents => intents'[x].revision = intents[x].revision
      /\ \A x \in Workflows : state'[x].status \in {state[x].status, "timeout"}
  <2>1. CASE Running(w)
    <3>1. state' = [state EXCEPT ![w].status = "timeout"] /\ Deactivate(w)
      BY <1>1, <2>1 DEF w
    <3>2. "timeout" \in Statuses
      BY DEF Statuses
    <3>3. /\ state' \in [Workflows -> States] /\ SameTurns
          /\ \A x \in Workflows : state'[x].status = IF x = w THEN "timeout" ELSE state[x].status
      BY <1>3, <3>1, <3>2, StatusSet
    <3>4. /\ intents' \in [Workflows -> Intents \cup Unannounced] /\ SameIntents
          /\ \A x \in Workflows : intents[x] \in Intents => intents'[x].revision = intents[x].revision
      BY <1>3, <3>1, Deactivated
    <3> QED BY <3>3, <3>4
  <2>2. CASE ~Running(w)
    <3>1. state' = state /\ intents' = intents
      BY <1>1, <2>2 DEF w
    <3> QED BY <1>3, <3>1 DEF SameTurns, SameIntents
  <2> QED BY <2>1, <2>2
<1>6. TypeInv'
  BY <1>2, <1>4, <1>5 DEF TypeInv
<1>7. TurnInv' /\ HeapInv' /\ EligibleInv'
  BY <1>2, <1>4, <1>5, QuietHeap
<1>8. WorkInv' /\ OvertakenInv'
  <2>1. \A i \in DOMAIN queue' : queue'[i] \in Workflows /\ Started(queue'[i])
    BY <1>2 DEF TypeInv, WorkInv
  <2>2. gpu.kind = "speculative" => gpu.workflow \in Workflows /\ intents[gpu.workflow] \in Intents
    BY DEF TypeInv, Idle, DemandJobs, PreparationJobs, WorkInv, Announced
  <2>3. policy = "future_timing" /\ gpu.kind = "speculative" =>
            /\ state'[gpu.workflow].status # "cancelled"
            /\ intents'[gpu.workflow].revision = intents[gpu.workflow].revision
    BY <1>5, <2>2 DEF OvertakenInv
  <2> QED BY <1>2, <1>4, <1>5, <2>1, <2>3, QuietWork
<1> QED BY <1>6, <1>7, <1>8

\* A workflow that is ready joins the queue.
LEMMA ReadyKeeps == HeadroomInv /\ Ready => HeadroomInv'
<1> SUFFICES ASSUME HeadroomInv, Ready PROVE HeadroomInv'
  OBVIOUS
<1> USE DEF HeadroomInv
<1>1. PICK e \in events :
         /\ Due(e, "ready") /\ Popped(e)
         /\ IF Running(e.workflow)
            THEN Deactivate(e.workflow) /\ queue' = Append(queue, e.workflow)
            ELSE UNCHANGED <<intents, queue>>
  BY DEF Ready
<1> DEFINE w == e.workflow
<1>2. UNCHANGED <<policy, now, open, lru, kind, gpu, order, state, stats>>
  BY DEF Ready, cacheVars
<1>3. /\ events \subseteq Events /\ now \in Nat /\ serial \in Nat /\ queue \in Seq(Workflows)
      /\ intents \in [Workflows -> Intents \cup Unannounced]
      /\ e.at = now /\ w \in Workflows /\ Started(w)
  <2>1. e \in Events /\ e.action = "ready" /\ e.at = now
    BY <1>1 DEF TypeInv, Due
  <2>2. w \in Workflows /\ Started(w)
    BY <2>1, EventKinds DEF HeapInv, Foretold
  <2> QED BY <2>1, <2>2, ObservationEnds DEF TypeInv
<1>4. SameHeap /\ serial' = serial /\ events' \subseteq Events /\ SameTurns
  BY <1>1, <1>2, <1>3, PoppedHeap DEF SameTurns
<1> HIDE DEF w
<1>5. /\ intents' \in [Workflows -> Intents \cup Unannounced] /\ SameIntents
      /\ \A x \in Workflows : intents[x] \in Intents => intents'[x].revision = intents[x].revision
      /\ queue' \in Seq(Workflows) /\ \A i \in DOMAIN queue' : Started(queue'[i])
  <2>0. \A i \in DOMAIN queue : Started(queue[i])
    BY DEF WorkInv
  <2>1. CASE Running(w)
    <3>1. Deactivate(w) /\ queue' = Append(queue, w)
      BY <1>1, <2>1 DEF w
    <3>2. /\ intents' \in [Workflows -> Intents \cup Unannounced] /\ SameIntents
          /\ \A x \in Workflows : intents[x] \in Intents => intents'[x].revision = intents[x].revision
      BY <1>3, <3>1, Deactivated
    <3>3. queue' \in Seq(Workflows) /\ \A i \in DOMAIN queue' : Started(queue'[i])
      BY <1>3, <2>0, <3>1
    <3> QED BY <3>2, <3>3
  <2>2. CASE ~Running(w)
    <3>1. queue' = queue /\ intents' = intents
      BY <1>1, <2>2 DEF w
    <3> QED BY <1>3, <2>0, <3>1 DEF SameIntents
  <2> QED BY <2>1, <2>2
<1>6. TypeInv'
  BY <1>2, <1>4, <1>5 DEF TypeInv
<1>7. TurnInv' /\ HeapInv' /\ EligibleInv'
  BY <1>2, <1>4, <1>5, QuietHeap
<1>8. WorkInv' /\ OvertakenInv'
  <2>1. \A i \in DOMAIN queue' : queue'[i] \in Workflows /\ Started(queue'[i])
    BY <1>5
  <2>2. gpu.kind = "speculative" => gpu.workflow \in Workflows /\ intents[gpu.workflow] \in Intents
    BY DEF TypeInv, Idle, DemandJobs, PreparationJobs, WorkInv, Announced
  <2>3. policy = "future_timing" /\ gpu.kind = "speculative" =>
            /\ state'[gpu.workflow].status # "cancelled"
            /\ intents'[gpu.workflow].revision = intents[gpu.workflow].revision
    BY <1>2, <1>5, <2>2 DEF OvertakenInv
  <2> QED BY <1>2, <1>4, <1>5, <2>1, <2>3, QuietWork
<1> QED BY <1>6, <1>7, <1>8

\* An announcement is revised or cancelled.
LEMMA UpdateKeeps == HeadroomInv /\ Update => HeadroomInv'
<1> SUFFICES ASSUME HeadroomInv, Update PROVE HeadroomInv'
  OBVIOUS
<1> USE DEF HeadroomInv
<1>1. PICK e \in events : Due(e, "update") /\ Revise(e)
  BY DEF Update
<1> DEFINE w == e.workflow
           i == intents[w]
<1>2. UNCHANGED <<policy, now, open, lru, kind, queue, gpu, order, stats>>
  BY DEF Update, cacheVars
<1>3. /\ events \subseteq Events /\ now \in Nat /\ serial \in Nat /\ state \in [Workflows -> States]
      /\ intents \in [Workflows -> Intents \cup Unannounced]
  BY ObservationEnds DEF TypeInv
<1>4. e.at = now /\ e.action = "update" /\ w \in Workflows /\ e.update \in Fitting /\ i \in Intents
  BY <1>1, <1>3, EventKinds DEF Due, HeapInv, Foretold, Announced
<1>5. policy = "future_timing" /\ gpu.kind = "speculative" /\ gpu.workflow = w => i.index # e.index
  BY <1>4 DEF OvertakenInv
<1>6. gpu.kind = "speculative" => gpu.workflow \in Workflows /\ intents[gpu.workflow] \in Intents
  BY DEF TypeInv, Idle, DemandJobs, PreparationJobs, WorkInv, Announced
<1> DEFINE Goal ==
             /\ SameHeap /\ serial' \in Nat /\ events' \subseteq Events
             /\ state' \in [Workflows -> States] /\ SameTurns
             /\ intents' \in [Workflows -> Intents \cup Unannounced] /\ SameIntents
             /\ policy = "future_timing" /\ gpu.kind = "speculative" =>
                  /\ state'[gpu.workflow].status # "cancelled"
                  /\ intents'[gpu.workflow].revision = intents[gpu.workflow].revision
<1>7. ASSUME Popped(e), UNCHANGED <<intents, state>> PROVE Goal
  <2>1. SameHeap /\ serial' = serial /\ events' \subseteq Events
    BY <1>3, <1>4, <1>7, PoppedHeap
  <2> QED BY <1>3, <1>7, <2>1 DEF SameTurns, SameIntents, OvertakenInv
<1> DEFINE cancelled == [[i EXCEPT !.revision = @ + 1] EXCEPT !.active = FALSE]
           revised == [[i EXCEPT !.revision = @ + 1] EXCEPT !.keys = BlockKeys(e.update.prefix)]
<1>8. ASSUME NEW new \in Intents, new.index = i.index, new.eligibleAt = i.eligibleAt,
             intents' = [intents EXCEPT ![w] = new], i.index = e.index
      PROVE  /\ intents' \in [Workflows -> Intents \cup Unannounced] /\ SameIntents
             /\ policy = "future_timing" /\ gpu.kind = "speculative" =>
                  /\ gpu.workflow # w
                  /\ intents'[gpu.workflow].revision = intents[gpu.workflow].revision
  <2> HIDE DEF w
  <2>1. /\ intents' \in [Workflows -> Intents \cup Unannounced] /\ SameIntents
        /\ \A x \in Workflows : x # w => intents'[x] = intents[x]
    BY <1>3, <1>4, <1>8 DEF SameIntents
  <2> QED BY <1>5, <1>6, <1>8, <2>1
<1>9. ASSUME intents' = [intents EXCEPT ![w] = cancelled],
             state' = [state EXCEPT ![w].status = "cancelled"],
             Popped(e), i.index = e.index
      PROVE  Goal
  <2>1. SameHeap /\ serial' = serial /\ events' \subseteq Events
    BY <1>3, <1>4, <1>9, PoppedHeap
  <2>2. cancelled \in Intents /\ cancelled.index = i.index /\ cancelled.eligibleAt = i.eligibleAt
    <3> HIDE DEF i
    <3> DEFINE r == [i EXCEPT !.revision = @ + 1]
    <3>1. r \in Intents /\ r.index = i.index /\ r.eligibleAt = i.eligibleAt
      BY <1>4 DEF Intents
    <3>2. \A x \in Intents : /\ [x EXCEPT !.active = FALSE] \in Intents
                             /\ [x EXCEPT !.active = FALSE].index = x.index
                             /\ [x EXCEPT !.active = FALSE].eligibleAt = x.eligibleAt
      BY DEF Intents
    <3> HIDE DEF r
    <3>3. cancelled = [r EXCEPT !.active = FALSE]
      BY DEF r
    <3> QED BY <3>1, <3>2, <3>3
  <2>3. "cancelled" \in Statuses
    BY DEF Statuses
  <2>4. /\ state' \in [Workflows -> States] /\ SameTurns
        /\ \A x \in Workflows : x # w => state'[x].status = state[x].status
    BY <1>3, <1>4, <1>9, <2>3, StatusSet
  <2>5. /\ intents' \in [Workflows -> Intents \cup Unannounced] /\ SameIntents
        /\ policy = "future_timing" /\ gpu.kind = "speculative" =>
                  /\ gpu.workflow # w
                  /\ intents'[gpu.workflow].revision = intents[gpu.workflow].revision
    <3> HIDE DEF cancelled, w, i
    <3> QED BY <1>8, <1>9, <2>2
  <2>6. policy = "future_timing" /\ gpu.kind = "speculative" => state'[gpu.workflow].status # "cancelled"
    BY <1>6, <2>4, <2>5 DEF OvertakenInv
  <2> QED BY <1>3, <2>1, <2>4, <2>5, <2>6
<1>10. ASSUME intents' = [intents EXCEPT ![w] = revised],
              Push(events \ {e}, <<Wakeup(revised, kind)>>),
              UNCHANGED state, i.index = e.index
       PROVE  Goal
  <2>1. BlockKeys(e.update.prefix) \in KeyLists
    BY <1>4, BlockKeysFit DEF Fitting, Revisions
  <2>2. revised \in Intents /\ revised.index = i.index /\ revised.eligibleAt = i.eligibleAt
    <3> HIDE DEF i
    <3> DEFINE r == [i EXCEPT !.revision = @ + 1]
               ks == BlockKeys(e.update.prefix)
    <3>1. r \in Intents /\ r.index = i.index /\ r.eligibleAt = i.eligibleAt
      BY <1>4 DEF Intents
    <3>2. \A x \in Intents, y \in KeyLists : /\ [x EXCEPT !.keys = y] \in Intents
                             /\ [x EXCEPT !.keys = y].index = x.index
                             /\ [x EXCEPT !.keys = y].eligibleAt = x.eligibleAt
      BY DEF Intents
    <3>3. revised = [r EXCEPT !.keys = ks]
      OBVIOUS
    <3> HIDE DEF r, ks
    <3>4. ks \in KeyLists
      BY <2>1 DEF ks
    <3> HIDE DEF revised
    <3> QED BY <3>1, <3>2, <3>3, <3>4
  <2> DEFINE k == Wakeup(revised, kind)
  <2> HIDE DEF revised
  <2>3. k = NoEvent \/ (k \in Events /\ now < k.at /\ k.action = "wake")
    BY <1>3, <2>2, WakesLater
  <2> HIDE DEF k
  <2>4. <<k>> \in Heap /\ DOMAIN <<k>> = {1} /\ <<k>>[1] = k
    BY <2>3 DEF Heap
  <2>5. Push(events \ {e}, <<k>>)
    BY <1>10 DEF k
  <2>6. /\ serial' \in Nat /\ events \ {e} \subseteq events'
        /\ \A f \in events' : f \in events \ {e}
              \/ \E n \in DOMAIN <<k>> : <<k>>[n] \in Events /\ Copies(f, <<k>>[n])
    BY <1>3, <2>4, <2>5, Pushed
  <2>7. \A f \in events' : f \in events \/ (f \in Events /\ now =< f.at /\ f.action = "wake")
    <3> TAKE f \in events'
    <3>1. CASE f \in events
      BY <3>1
    <3>2. CASE k \in Events /\ Copies(f, k)
      <4>1. now < k.at /\ k.action = "wake" /\ k.at \in Nat
        BY <2>3, <3>2, EventKinds
      <4> QED BY <1>3, <3>2, <4>1 DEF Copies
    <3> QED BY <2>4, <2>6, <3>1, <3>2
  <2>8. SameHeap /\ events' \subseteq Events
    BY <1>3, <1>4, <2>6, <2>7 DEF SameHeap
  <2>9. /\ intents' \in [Workflows -> Intents \cup Unannounced] /\ SameIntents
        /\ policy = "future_timing" /\ gpu.kind = "speculative" =>
                  /\ gpu.workflow # w
                  /\ intents'[gpu.workflow].revision = intents[gpu.workflow].revision
    <3> HIDE DEF w, i
    <3> QED BY <1>8, <1>10, <2>2
  <2> QED BY <1>3, <1>10, <2>6, <2>8, <2>9 DEF SameTurns, OvertakenInv
<1>11. Goal
  <2>1. \/ Popped(e) /\ UNCHANGED <<intents, state>>
        \/ /\ intents' = [intents EXCEPT ![w] = cancelled]
           /\ state' = [state EXCEPT ![w].status = "cancelled"]
           /\ Popped(e) /\ i.index = e.index
        \/ /\ intents' = [intents EXCEPT ![w] = revised]
           /\ Push(events \ {e}, <<Wakeup(revised, kind)>>)
           /\ UNCHANGED state /\ i.index = e.index
    BY <1>1, Zenon DEF Revise
  <2> HIDE DEF Goal, cancelled, revised, i, w
  <2> QED BY <1>7, <1>9, <1>10, <2>1
<1> HIDE DEF w, i
<1>12. TypeInv'
  BY <1>2, <1>11 DEF TypeInv
<1>13. TurnInv' /\ HeapInv' /\ EligibleInv'
  BY <1>2, <1>11, QuietHeap
<1>14. WorkInv' /\ OvertakenInv'
  <2>1. \A j \in DOMAIN queue' : queue'[j] \in Workflows /\ Started(queue'[j])
    BY <1>2 DEF TypeInv, WorkInv
  <2> QED BY <1>2, <1>11, <2>1, QuietWork
<1> QED BY <1>12, <1>13, <1>14

\* A wakeup only brings the next dispatch.
LEMMA WakeKeeps == HeadroomInv /\ Wake => HeadroomInv'
<1> SUFFICES ASSUME HeadroomInv, Wake PROVE HeadroomInv'
  OBVIOUS
<1> USE DEF HeadroomInv
<1>1. PICK e \in events : Due(e, "wake") /\ Popped(e)
  BY DEF Wake
<1>2. UNCHANGED <<policy, now, open, lru, kind, queue, gpu, intents, order, state, stats>>
  BY DEF Wake, cacheVars
<1>3. events \subseteq Events /\ now \in Nat /\ e.at = now
  BY <1>1, ObservationEnds DEF TypeInv, Due
<1>4. SameHeap /\ serial' = serial /\ events' \subseteq Events /\ SameTurns /\ SameIntents
  BY <1>1, <1>2, <1>3, PoppedHeap DEF SameTurns, SameIntents
<1>5. TypeInv'
  BY <1>2, <1>4 DEF TypeInv
<1>6. TurnInv' /\ HeapInv' /\ EligibleInv'
  BY <1>2, <1>4, QuietHeap
<1>7. WorkInv' /\ OvertakenInv'
  <2>1. \A j \in DOMAIN queue' : queue'[j] \in Workflows /\ Started(queue'[j])
    BY <1>2 DEF TypeInv, WorkInv
  <2> QED BY <1>2, <1>4, <2>1, QuietWork DEF OvertakenInv
<1> QED BY <1>5, <1>6, <1>7

\* An idle GPU has no job to disturb.
LEMMA IdleWork ==
  ASSUME gpu' = Idle, (\A i \in DOMAIN queue : Started(queue[i]))'
  PROVE  WorkInv' /\ OvertakenInv'
  BY DEF WorkInv, OvertakenInv, Idle

\* The jobs of the GPU.
LEMMA Jobs ==
  ASSUME TypeInv
  PROVE  /\ gpu.kind = "demand" => gpu.workflow \in Workflows /\ gpu.keys \in Seq(Keys)
         /\ gpu.kind = "speculative" =>
              gpu.workflow \in Workflows /\ gpu.computed \in Seq(Keys) /\ gpu.revision \in Nat
         /\ gpu.kind \in {"idle", "demand", "speculative"}
         /\ gpu.kind = "idle" <=> gpu = Idle
  BY DEF TypeInv, Idle, DemandJobs, PreparationJobs

\* A preparation ends.
LEMMA PreparationFinishedKeeps == HeadroomInv /\ PreparationFinished => HeadroomInv'
<1> SUFFICES ASSUME HeadroomInv, PreparationFinished PROVE HeadroomInv'
  OBVIOUS
<1> USE DEF HeadroomInv
<1>1. PICK e \in events : Due(e, "finished") /\ Popped(e)
  BY DEF PreparationFinished
<1>2. UNCHANGED <<policy, now, open, lru, queue, intents, order, state>> /\ gpu' = Idle
  BY DEF PreparationFinished
<1>3. events \subseteq Events /\ now \in Nat /\ e.at = now
  BY <1>1, ObservationEnds DEF TypeInv, Due
<1>4. SameHeap /\ serial' = serial /\ events' \subseteq Events /\ SameTurns /\ SameIntents
  BY <1>1, <1>2, <1>3, PoppedHeap DEF SameTurns, SameIntents
<1>5. stats' \in Stats
  <2> DEFINE o == IF Obsolete(gpu) THEN Len(gpu.computed) ELSE 0
             l == IF now > intents[gpu.workflow].readyAt THEN Len(gpu.computed) ELSE 0
  <2>1. o \in Nat /\ l \in Nat
    BY Jobs DEF PreparationFinished
  <2>2. stats' = [stats EXCEPT !.obsolete = @ + o, !.late = @ + l]
    BY DEF PreparationFinished
  <2> HIDE DEF o, l
  <2>3. stats \in Stats
    BY DEF TypeInv
  <2>4. stats.obsolete \in Nat /\ stats.late \in Nat
    BY <2>3 DEF Stats
  <2>5. stats.obsolete + o \in Nat /\ stats.late + l \in Nat
    BY <2>1, <2>4
  <2>6. \A x, y \in Nat : [stats EXCEPT !.obsolete = x, !.late = y] \in Stats
    BY <2>3 DEF Stats
  <2> QED BY <2>2, <2>5, <2>6, Zenon
<1>6. TypeInv'
  BY <1>2, <1>4, <1>5 DEF TypeInv
<1>7. TurnInv' /\ HeapInv' /\ EligibleInv'
  BY <1>2, <1>4, QuietHeap
<1>8. WorkInv' /\ OvertakenInv'
  BY <1>2, IdleWork DEF WorkInv, Started
<1> QED BY <1>6, <1>7, <1>8

\* A request ends and the next turn of its workflow starts.
LEMMA NextTurnKeeps ==
  ASSUME HeadroomInv, NEW w \in Workflows, NEW e \in events, NEW kinds, NEW index,
         e.at = now, Started(w), index = state[w].index, index + 1 # TurnsOf[w],
         StartTurn(w, index + 1, events \ {e}, kinds),
         UNCHANGED <<policy, now, open, queue, stats>>, gpu' = Idle
  PROVE  HeadroomInv'
<1> USE DEF HeadroomInv
<1> DEFINE next == index + 1
<1>1. /\ events \subseteq Events /\ now \in Nat /\ serial \in Nat /\ state \in [Workflows -> States]
      /\ intents \in [Workflows -> Intents \cup Unannounced] /\ order \in Seq(Workflows)
  BY ObservationEnds DEF TypeInv
<1>2. index \in Nat /\ next \in Nat /\ next # 0 /\ next =< TurnsOf[w] - 1
  <2>1. index \in Nat
    BY <1>1 DEF States
  <2>2. TurnsOf[w] \in Nat /\ index =< TurnsOf[w] - 1
    BY HeadroomConstants DEF TurnInv
  <2> QED BY <2>1, <2>2
<1> HIDE DEF next
<1>3. PICK t \in LaterTurns :
         /\ state' = [state EXCEPT ![w].index = next, ![w].turn = t]
         /\ Push(events \ {e}, <<For(now + t.wait, "ready", w)>> \o Updates(w, next, t)
                      \o <<Wakeup(NewIntent(t, next), kinds)>>)
         /\ intents' = [intents EXCEPT ![w] = NewIntent(t, next)]
         /\ order' = IF InSeq(w, order) THEN order ELSE Append(order, w)
  <2>1. StartTurn(w, next, events \ {e}, kinds)
    BY DEF next
  <2> QED BY <1>2, <2>1 DEF StartTurn
<1>4. t \in ValidTurns
  BY HeadroomConstants DEF ValidTurns, Valid
<1> DEFINE new == NewIntent(t, next)
<1>5. /\ new \in Intents /\ new.index = next
      /\ policy = "future_timing" =>
            /\ \A u \in DOMAIN t.updates : now + t.updates[u].at =< new.eligibleAt
            /\ now < new.eligibleAt => \E u \in DOMAIN t.updates : new.eligibleAt = now + t.updates[u].at
  BY <1>1, <1>2, <1>4, IntentMade
<1>6. /\ serial' \in Nat /\ events \ {e} \subseteq events'
      /\ \A f \in events' : f \in events \ {e} \/
            /\ f \in Events /\ now =< f.at
            /\ \/ f.action = "ready" /\ f.workflow = w
               \/ f.action = "wake"
               \/ /\ f.action = "update" /\ f.workflow = w /\ f.index = next
                  /\ \E u \in DOMAIN t.updates : f.at = now + t.updates[u].at
      /\ \A u \in DOMAIN t.updates : \E f \in events' : f.at = now + t.updates[u].at
  BY <1>1, <1>2, <1>3, <1>4, TurnForetold
<1>7. intents' = [intents EXCEPT ![w] = new]
  BY <1>3
<1> HIDE DEF new
<1>8. /\ intents' \in [Workflows -> Intents \cup Unannounced] /\ intents'[w] = new
      /\ \A x \in Workflows : x # w => intents'[x] = intents[x]
  BY <1>1, <1>5, <1>7
<1>9. /\ state' \in [Workflows -> States]
      /\ state'[w].index = next /\ state'[w].turn = t
      /\ \A x \in Workflows : x # w => state'[x] = state[x]
  BY <1>1, <1>2, <1>3, <1>4 DEF States
<1>10. \A x \in Workflows : Started(x)' <=> Started(x)
  BY <1>4, <1>9 DEF Started
<1>11. order' \in Seq(Workflows) /\ \A x \in Workflows : x = w \/ InSeq(x, order) => InSeq(x, order')
  <2>1. CASE InSeq(w, order)
    BY <1>1, <1>3, <2>1
  <2>2. CASE ~InSeq(w, order)
    <3>1. order' = Append(order, w)
      BY <1>3, <2>2
    <3>2. order' \in Seq(Workflows) /\ Len(order') = Len(order) + 1 /\ Len(order) \in Nat
          /\ order'[Len(order) + 1] = w /\ \A j \in 1..Len(order) : order'[j] = order[j]
      BY <1>1, <3>1
    <3>3. DOMAIN order = 1..Len(order) /\ DOMAIN order' = 1..(Len(order) + 1)
      BY <1>1, <3>2
    <3>4. \A j \in 1..Len(order) : j \in 1..(Len(order) + 1)
      BY <3>2
    <3>5. Len(order) + 1 \in 1..(Len(order) + 1)
      BY <3>2
    <3> QED BY <3>2, <3>3, <3>4, <3>5 DEF InSeq
  <2> QED BY <2>1, <2>2
<1>12. TypeInv'
  <2>1. events' \subseteq Events
    BY <1>1, <1>6
  <2> QED BY <1>6, <1>8, <1>9, <1>11, <2>1 DEF TypeInv
<1>13. TurnInv'
  <2> SUFFICES ASSUME NEW x \in Workflows
               PROVE  /\ state'[x].index =< TurnsOf[x] - 1
                      /\ ~Started(x)' => state'[x].index = 0
                      /\ Announced(x)' => intents'[x].index =< state'[x].index /\ InSeq(x, order')
    BY DEF TurnInv
  <2>1. CASE x = w
    BY <1>2, <1>5, <1>8, <1>9, <1>10, <1>11, <2>1
  <2>2. CASE x # w
    BY <1>8, <1>9, <1>10, <1>11, <2>2 DEF TurnInv, Announced
  <2> QED BY <2>1, <2>2
<1>14. ASSUME NEW f \in events' PROVE Foretold(f)'
  <2>1. CASE f \in events
    <3>1. Foretold(f) /\ f \in Events
      BY <1>1, <2>1 DEF HeapInv
    <3>2. CASE f.action \in {"arrival", "ready"}
      BY <1>10, <3>1, <3>2, EventKinds DEF Foretold
    <3>3. CASE f.action = "update"
      <4>1. f.workflow \in Workflows /\ f.index \in Nat
        BY <3>1, <3>3, EventKinds
      <4>2. CASE f.workflow # w
        BY <1>8, <1>9, <3>1, <3>3, <4>1, <4>2 DEF Foretold, Announced
      <4>3. CASE f.workflow = w
        <5>1. f.index =< index /\ 1 =< f.index /\ f.index # next /\ f.index =< next
          BY <1>2, <3>1, <3>3, <4>1, <4>3 DEF Foretold, next
        <5> QED BY <1>5, <1>8, <1>9, <3>1, <3>3, <4>3, <5>1 DEF Foretold, Announced
      <4> QED BY <4>2, <4>3
    <3>4. CASE f.action \notin {"arrival", "ready", "update"}
      BY <3>1, <3>4 DEF Foretold
    <3> QED BY <3>2, <3>3, <3>4
  <2>2. CASE f \notin events /\ f.action \in {"ready", "wake"}
    BY <1>6, <1>10, <2>2 DEF Foretold
  <2>3. CASE f \notin events /\ f.action = "update"
    <3>1. f.workflow = w /\ f.index = next /\ now =< f.at
          /\ \E u \in DOMAIN t.updates : f.at = now + t.updates[u].at
      BY <1>6, <2>3
    <3>2. policy = "future_timing" => f.at =< new.eligibleAt
      BY <1>5, <3>1
    <3>3. 1 =< next
      BY <1>2
    <3> QED BY <1>2, <1>5, <1>8, <1>9, <2>3, <3>1, <3>2, <3>3 DEF Foretold, Announced
  <2> QED BY <1>6, <2>1, <2>2, <2>3
<1>15. HeapInv'
  <2>1. \A f \in events' : f.action = "arrival" => f \in events
    BY <1>6
  <2> QED BY <1>14, <2>1 DEF HeapInv
<1>16. WorkInv' /\ OvertakenInv'
  <2>1. (\A i \in DOMAIN queue : Started(queue[i]))'
    BY <1>10 DEF WorkInv, TypeInv
  <2> QED BY <2>1, IdleWork
<1>17. EligibleInv'
  <2> SUFFICES ASSUME policy = "future_timing", NEW x \in Workflows, Announced(x)',
                      now < intents'[x].eligibleAt
               PROVE  \E f \in events' : f.at = intents'[x].eligibleAt
    BY DEF EligibleInv
  <2>1. CASE x = w
    BY <1>5, <1>6, <1>8, <2>1
  <2>2. CASE x # w
    <3>1. intents'[x] = intents[x] /\ Announced(x)
      BY <1>8, <2>2 DEF Announced
    <3>2. PICK f \in events : f.at = intents[x].eligibleAt
      BY <3>1 DEF EligibleInv
    <3>3. f # e
      BY <1>1, <3>1, <3>2
    <3> QED BY <1>6, <3>1, <3>2, <3>3
  <2> QED BY <2>1, <2>2
<1> QED BY <1>12, <1>13, <1>15, <1>16, <1>17

\* A request ends.
LEMMA RequestFinishedKeeps == HeadroomInv /\ RequestFinished => HeadroomInv'
<1> SUFFICES ASSUME HeadroomInv, RequestFinished PROVE HeadroomInv'
  OBVIOUS
<1> DEFINE w == gpu.workflow
<1>1. PICK e \in events :
          /\ Due(e, "finished")
          /\ IF ~Running(w)
             THEN Popped(e) /\ UNCHANGED <<intents, order, state>>
             ELSE IF state[w].index + 1 = TurnsOf[w]
             THEN /\ state' = [state EXCEPT ![w].status = "completed"]
                  /\ Popped(e) /\ UNCHANGED <<intents, order>>
             ELSE StartTurn(w, state[w].index + 1, events \ {e}, kind')
  BY DEF RequestFinished
<1>2. UNCHANGED <<policy, now, open, lru, queue, stats>> /\ gpu' = Idle /\ gpu.kind = "demand"
  BY DEF RequestFinished
<1>3. /\ events \subseteq Events /\ now \in Nat /\ e.at = now /\ w \in Workflows /\ Started(w)
      /\ state \in [Workflows -> States]
  BY <1>1, <1>2, ObservationEnds, Jobs DEF HeadroomInv, TypeInv, Due, WorkInv
<1> HIDE DEF w
<1>4. ASSUME Popped(e), UNCHANGED <<intents, order>>, SameTurns, state' \in [Workflows -> States]
      PROVE  HeadroomInv'
  <2>1. SameHeap /\ serial' = serial /\ events' \subseteq Events /\ SameIntents
    BY <1>3, <1>4, PoppedHeap DEF SameIntents
  <2>2. TypeInv'
    BY <1>2, <1>4, <2>1 DEF HeadroomInv, TypeInv
  <2>3. TurnInv' /\ HeapInv' /\ EligibleInv'
    BY <1>2, <1>4, <2>1, QuietHeap
  <2>4. (\A i \in DOMAIN queue : Started(queue[i]))'
    BY <1>2, <1>4 DEF HeadroomInv, TypeInv, WorkInv, Started, SameTurns
  <2>5. WorkInv' /\ OvertakenInv'
    BY <1>2, <2>4, IdleWork
  <2> QED BY <2>2, <2>3, <2>5 DEF HeadroomInv
<1>5. CASE ~Running(w)
  BY <1>1, <1>3, <1>4, <1>5 DEF SameTurns
<1>6. CASE Running(w) /\ state[w].index + 1 = TurnsOf[w]
  <2>1. state' = [state EXCEPT ![w].status = "completed"] /\ Popped(e) /\ UNCHANGED <<intents, order>>
    BY <1>1, <1>6
  <2>2. "completed" \in Statuses
    BY DEF Statuses
  <2>3. state' \in [Workflows -> States] /\ SameTurns
    BY <1>3, <2>1, <2>2, StatusSet
  <2> QED BY <1>4, <2>1, <2>3
<1>7. CASE Running(w) /\ state[w].index + 1 # TurnsOf[w]
  <2>1. StartTurn(w, state[w].index + 1, events \ {e}, kind')
    BY <1>1, <1>7
  <2> QED BY <1>2, <1>3, <1>7, <2>1, NextTurnKeeps
<1> QED BY <1>5, <1>6, <1>7

\* A dispatch adds wakeups and the end of the job it starts.
LEMMA QuietPush ==
  ASSUME NEW new \in Heap, events \subseteq Events, serial \in Nat, now \in Nat, Push(events, new),
         \A n \in DOMAIN new : new[n] \in Events => now =< new[n].at /\ new[n].action \in {"wake", "finished"}
  PROVE  SameHeap /\ serial' \in Nat /\ events' \subseteq Events
<1>1. /\ serial' \in Nat /\ events \subseteq events'
      /\ \A e \in events' : e \in events \/ \E n \in DOMAIN new : new[n] \in Events /\ Copies(e, new[n])
  BY Pushed
<1>2. \A e \in events' : e \in events \/ (e \in Events /\ now =< e.at /\ e.action \in {"wake", "finished"})
  BY <1>1 DEF Copies
<1> QED BY <1>1, <1>2 DEF SameHeap

(* The request of a workflow, and what the cache has of it. *)
Prompt(w) == BlockKeys(state[w].turn.prompt)
Hit(w) == SubSeq(Prompt(w), 1, CachedPrefix(Prompt(w), kind))
Fresh(w) == {i \in DOMAIN Hit(w) : kind[Hit(w)[i]] = "speculative"}
Request(w) == BlockKeys(state[w].turn.prompt \o state[w].turn.generated)
Cost(w) == (Len(Prompt(w)) - Len(Hit(w))) * PrefillMs + state[w].turn.decode

\* A request fits in the cache, and the blocks it finds are its first ones.
LEMMA RequestShape ==
  ASSUME TypeInv, NEW w \in Workflows, Started(w)
  PROVE  /\ Prompt(w) \in KeyLists /\ Request(w) \in KeyLists
         /\ CachedPrefix(Prompt(w), kind) \in 0..Len(Prompt(w))
         /\ Hit(w) \in Seq(Keys) /\ Len(Hit(w)) = CachedPrefix(Prompt(w), kind)
         /\ \A i \in 1..Len(Hit(w)) : Hit(w)[i] = Prompt(w)[i]
         /\ IsFiniteSet(Fresh(w)) /\ Cardinality(Fresh(w)) \in Nat
         /\ Cost(w) \in Nat
<1> DEFINE t == state[w].turn
           c == CachedPrefix(Prompt(w), kind)
<1>1. t \in Turns /\ Valid(t)
  BY DEF Started, ValidTurns
<1>2. t.prompt \in Seq(Blocks) /\ t.generated \in Seq(Blocks) /\ t.decode \in Nat
  BY <1>1 DEF Turns
<1>3. Len(t.prompt) + Len(t.generated) =< CacheBlocks
  BY <1>1 DEF Valid
<1> HIDE DEF t
<1>4. /\ t.prompt \o t.generated \in Seq(Blocks) /\ Len(t.prompt \o t.generated) =< CacheBlocks
      /\ Len(t.prompt) =< CacheBlocks
  <2>1. Len(t.prompt) \in Nat /\ Len(t.generated) \in Nat /\ CacheBlocks \in Nat
    BY <1>2, HeadroomConstants
  <2>2. t.prompt \o t.generated \in Seq(Blocks)
        /\ Len(t.prompt \o t.generated) = Len(t.prompt) + Len(t.generated)
    BY <1>2, ConcatProperties
  <2>3. Len(t.prompt) =< CacheBlocks
    <3>1. \A x, y, z \in Nat : x + y =< z => x =< z
      OBVIOUS
    <3> QED BY <1>3, <2>1, <3>1, Zenon
  <2>4. Len(t.prompt \o t.generated) =< CacheBlocks
    BY <1>3, <2>2, Zenon
  <2> QED BY <2>2, <2>3, <2>4
<1>5. Prompt(w) \in KeyLists /\ Request(w) \in KeyLists
  BY <1>2, <1>4, BlockKeysFit DEF Prompt, Request, t
<1>6. Prompt(w) \in Seq(Keys) /\ Len(Prompt(w)) \in Nat
  BY <1>5 DEF KeyLists
<1>7. c \in 0..Len(Prompt(w))
  BY <1>6, PrefixCached
<1>8. Hit(w) = SubSeq(Prompt(w), 1, c)
  BY DEF Hit
<1> HIDE DEF c
<1>9. Hit(w) \in Seq(Keys) /\ Len(Hit(w)) = c /\ \A i \in 1..c : Hit(w)[i] = Prompt(w)[i]
  BY <1>6, <1>7, <1>8
<1>10. IsFiniteSet(Fresh(w)) /\ Cardinality(Fresh(w)) \in Nat
  <2>1. IsFiniteSet(1..c) /\ DOMAIN Hit(w) = 1..c
    BY <1>7, <1>9, FS_Interval
  <2>2. Fresh(w) \in SUBSET (1..c)
    BY <2>1 DEF Fresh
  <2> QED BY <2>1, <2>2, FS_Subset, FS_CardinalityType
<1>11. Cost(w) \in Nat
  <2> DEFINE d == Len(Prompt(w)) - Len(Hit(w))
  <2>1. d \in Nat /\ PrefillMs \in Nat
    BY <1>6, <1>7, <1>9, HeadroomConstants
  <2>2. Cost(w) = d * PrefillMs + t.decode
    BY DEF Cost, t
  <2> HIDE DEF d
  <2> QED BY <1>2, <2>1, <2>2
<1> QED BY <1>5, <1>7, <1>9, <1>10, <1>11 DEF c

\* What starting a request does.
LEMMA RequestStarts ==
  ASSUME NEW w, StartRequest(w)
  PROVE  /\ stats' = [stats EXCEPT !.useful = @ + Cardinality(Fresh(w))]
         /\ Reserve(Request(w), SetKinds(Hit(w), "ordinary"))
         /\ gpu' = [kind |-> "demand", workflow |-> w, keys |-> Request(w)]
         /\ Push(events, <<At(now + Cost(w), "finished")>>)
  BY Zenon DEF StartRequest, Prompt, Hit, Fresh, Request, Cost

\* The oldest request of a running workflow gets the GPU.
LEMMA DispatchRequestKeeps == HeadroomInv /\ DispatchRequest => HeadroomInv'
<1> SUFFICES ASSUME HeadroomInv, DispatchRequest PROVE HeadroomInv'
  OBVIOUS
<1> USE DEF HeadroomInv
<1>1. PICK n \in Runnable : StartRequest(queue[n]) /\ queue' = SubSeq(queue, n + 1, Len(queue))
  BY DEF DispatchRequest
<1>2. UNCHANGED <<policy, now, intents, order, state>> /\ open' = FALSE
  BY DEF DispatchRequest
<1> DEFINE w == queue[n]
<1>3. /\ events \subseteq Events /\ now \in Nat /\ serial \in Nat /\ queue \in Seq(Workflows)
      /\ stats \in Stats
  BY ObservationEnds DEF TypeInv
<1>4. n \in 1..Len(queue) /\ w \in Workflows /\ Started(w)
  BY <1>3 DEF Runnable, WorkInv
<1> HIDE DEF w
<1>5. /\ stats' = [stats EXCEPT !.useful = @ + Cardinality(Fresh(w))]
      /\ gpu' = [kind |-> "demand", workflow |-> w, keys |-> Request(w)]
      /\ Push(events, <<At(now + Cost(w), "finished")>>)
  BY <1>1, RequestStarts DEF w
<1>6. Request(w) \in Seq(Keys) /\ Cardinality(Fresh(w)) \in Nat /\ Cost(w) \in Nat
  BY <1>4, RequestShape DEF KeyLists
<1>7. gpu' \in DemandJobs /\ gpu'.kind = "demand" /\ gpu'.workflow = w
  BY <1>4, <1>5, <1>6 DEF DemandJobs
<1>8. stats' \in Stats
  <2>1. stats.useful + Cardinality(Fresh(w)) \in Nat
    BY <1>3, <1>6 DEF Stats
  <2>2. \A x \in Nat : [stats EXCEPT !.useful = x] \in Stats
    BY <1>3 DEF Stats
  <2> QED BY <1>5, <2>1, <2>2
<1>9. SameHeap /\ serial' \in Nat /\ events' \subseteq Events
  <2> DEFINE k == At(now + Cost(w), "finished")
  <2>1. k \in Events /\ now =< k.at /\ k.action = "finished"
    BY <1>3, <1>6, EventsMade
  <2> HIDE DEF k
  <2>2. <<k>> \in Heap /\ DOMAIN <<k>> = {1} /\ <<k>>[1] = k
    BY <2>1 DEF Heap
  <2>3. Push(events, <<k>>)
    BY <1>5 DEF k
  <2> QED BY <1>3, <2>1, <2>2, <2>3, QuietPush
<1>10. queue' \in Seq(Workflows) /\ (\A i \in DOMAIN queue : Started(queue[i]))'
  <2>1. Len(queue) \in Nat /\ n \in Nat /\ n =< Len(queue)
    BY <1>3, <1>4
  <2>2. /\ queue' \in Seq(Workflows) /\ Len(queue') = Len(queue) - n
        /\ \A i \in 1..(Len(queue) - n) : queue'[i] = queue[n + i]
    BY <1>1, <1>3, <2>1
  <2>3. DOMAIN queue' = 1..(Len(queue) - n) /\ DOMAIN queue = 1..Len(queue)
    BY <1>3, <2>2
  <2>4. \A i \in 1..(Len(queue) - n) : n + i \in 1..Len(queue)
    BY <2>1
  <2> QED BY <1>2, <2>2, <2>3, <2>4 DEF WorkInv, Started
<1>11. SameTurns /\ SameIntents
  BY <1>2 DEF SameTurns, SameIntents
<1>12. TypeInv'
  BY <1>2, <1>7, <1>8, <1>9, <1>10 DEF TypeInv
<1>13. TurnInv' /\ HeapInv' /\ EligibleInv'
  BY <1>2, <1>9, <1>11, QuietHeap
<1>14. WorkInv' /\ OvertakenInv'
  BY <1>2, <1>4, <1>7, <1>10 DEF WorkInv, OvertakenInv, Started
<1> QED BY <1>12, <1>13, <1>14

\* The wakeups of intents that are too early.
LEMMA RescheduledLater ==
  ASSUME TypeInv, NEW passed \in Seq(Workflows)
  PROVE  /\ Rescheduled(passed) \in Heap /\ DOMAIN Rescheduled(passed) = DOMAIN passed
         /\ \A n \in DOMAIN passed : Rescheduled(passed)[n] \in Events =>
               now =< Rescheduled(passed)[n].at /\ Rescheduled(passed)[n].action = "wake"
<1> DEFINE R == Rescheduled(passed)
<1>1. R = [n \in DOMAIN passed |-> IF TooEarly(passed[n]) THEN Wakeup(intents[passed[n]], kind) ELSE NoEvent]
  BY DEF Rescheduled
<1>2. Len(passed) \in Nat /\ DOMAIN passed = 1..Len(passed)
  OBVIOUS
<1>3. ASSUME NEW n \in DOMAIN passed
      PROVE  R[n] = NoEvent \/ (R[n] \in Events /\ now =< R[n].at /\ R[n].action = "wake")
  <2>1. CASE ~TooEarly(passed[n])
    BY <1>1, <2>1
  <2>2. CASE TooEarly(passed[n])
    <3>1. passed[n] \in Workflows /\ intents[passed[n]].active
      BY <2>2 DEF TooEarly, Wanted
    <3>2. intents[passed[n]] \in Intents
      BY <3>1 DEF TypeInv, Unannounced
    <3>3. now \in Nat
      BY ObservationEnds DEF TypeInv
    <3> DEFINE k == Wakeup(intents[passed[n]], kind)
    <3>4. k = NoEvent \/ (k \in Events /\ now < k.at /\ k.action = "wake")
      BY <3>2, <3>3, WakesLater
    <3>5. R[n] = k
      BY <1>1, <2>2
    <3> HIDE DEF k, R
    <3>6. k \in Events => k.at \in Nat
      BY EventKinds
    <3> QED BY <3>3, <3>4, <3>5, <3>6
  <2> QED BY <2>1, <2>2
<1>4. DOMAIN R = DOMAIN passed
  BY <1>1
<1>5. R = [n \in DOMAIN passed |-> R[n]]
  BY <1>1
<1> HIDE DEF R
<1>6. R \in [1..Len(passed) -> Events \cup {NoEvent}]
  BY <1>2, <1>3, <1>5
<1>7. R \in Heap
  BY <1>2, <1>6, IsASeq DEF Heap
<1>8. \A n \in DOMAIN passed : R[n] \in Events => now =< R[n].at /\ R[n].action = "wake"
  BY <1>3, EventKinds
<1> QED BY <1>4, <1>7, <1>8 DEF R

(* The preparation that is started: what is cached, and how much is computed. *)
ReadyKeys(w) == CachedPrefix(intents[w].keys, kind)
Count(w) == Min({Len(intents[w].keys) - ReadyKeys(w), Remaining, Chunk})
Computed(w) == SubSeq(intents[w].keys, ReadyKeys(w) + 1, ReadyKeys(w) + Count(w))

\* A chunk is some of the missing keys, within the budget.
LEMMA ChunkShape ==
  ASSUME TypeInv, NEW w \in Workflows, intents[w] \in Intents, Remaining > 0
  PROVE  /\ ReadyKeys(w) \in Nat /\ Count(w) \in Nat
         /\ ReadyKeys(w) + Count(w) =< Len(intents[w].keys)
         /\ Count(w) =< Remaining
         /\ Computed(w) \in Seq(Keys) /\ Len(Computed(w)) = Count(w)
         /\ \A i \in 1..Count(w) : Computed(w)[i] = intents[w].keys[ReadyKeys(w) + i]
<1> DEFINE keys == intents[w].keys
           r == ReadyKeys(w)
           c == Count(w)
<1>1. keys \in Seq(Keys) /\ Len(keys) \in Nat
  BY DEF Intents, KeyLists
<1>2. r \in 0..Len(keys)
  BY <1>1, PrefixCached DEF ReadyKeys
<1>3. Remaining \in Int /\ Chunk \in Nat
  BY HeadroomConstants DEF Remaining, TypeInv, Stats
<1>4. c = Min({Len(keys) - r, Remaining, Chunk})
  BY DEF Count
<1>5. Computed(w) = SubSeq(keys, r + 1, r + c)
  BY DEF Computed
<1> HIDE DEF keys, r, c
<1> DEFINE d == Len(keys) - r
<1>6. d \in Nat
  BY <1>1, <1>2
<1>7. c = Min({d, Remaining, Chunk})
  BY <1>4
<1> HIDE DEF d
<1>8. Min({d, Remaining, Chunk}) \in {d, Remaining, Chunk}
      /\ Min({d, Remaining, Chunk}) =< d /\ Min({d, Remaining, Chunk}) =< Remaining
  <2>1. d \in Int /\ Remaining \in Int /\ Chunk \in Int
    BY <1>3, <1>6
  <2> QED BY <2>1, MinOfThree, Zenon
<1>9. c \in Nat /\ c =< d /\ c =< Remaining
  BY <1>3, <1>6, <1>7, <1>8
<1>10. r \in Nat /\ r + c =< Len(keys)
  BY <1>1, <1>2, <1>9 DEF d
<1>11. /\ Computed(w) \in Seq(Keys) /\ Len(Computed(w)) = c
       /\ \A i \in 1..c : Computed(w)[i] = keys[r + i]
  BY <1>1, <1>5, <1>9, <1>10
<1> QED BY <1>9, <1>10, <1>11 DEF keys, r, c

\* What starting a preparation does.
LEMMA PreparationStarts ==
  ASSUME NEW w, NEW wakeups, StartPreparation(w, wakeups)
  PROVE  /\ Reserve(SubSeq(intents[w].keys, 1, ReadyKeys(w) + Count(w)), kind)
         /\ stats' = [stats EXCEPT !.computed = @ + Count(w)]
         /\ gpu' = [kind |-> "speculative", workflow |-> w, revision |-> intents[w].revision,
                    computed |-> Computed(w)]
         /\ Push(events, wakeups \o <<At(now + Count(w) * PrefillMs, "finished")>>)
  BY Zenon DEF StartPreparation, ReadyKeys, Count, Computed

\* The first intent that deserves it gets a chunk of preparation.
LEMMA DispatchPreparationKeeps == HeadroomInv /\ DispatchPreparation => HeadroomInv'
<1> SUFFICES ASSUME HeadroomInv, DispatchPreparation PROVE HeadroomInv'
  OBVIOUS
<1> USE DEF HeadroomInv
<1>1. PICK n \in Candidates : StartPreparation(order[n], Rescheduled(SubSeq(order, 1, n - 1)))
  BY DEF DispatchPreparation
<1>2. /\ UNCHANGED <<policy, now, intents, order, state>> /\ open' = FALSE /\ queue' = <<>>
      /\ Remaining > 0 /\ InstantDone
  BY DEF DispatchPreparation
<1> DEFINE w == order[n]
           passed == SubSeq(order, 1, n - 1)
           wakeups == Rescheduled(passed)
<1>3. /\ events \subseteq Events /\ now \in Nat /\ serial \in Nat /\ order \in Seq(Workflows)
      /\ stats \in Stats
  BY ObservationEnds DEF TypeInv
<1>4. n \in 1..Len(order) /\ w \in Workflows /\ Wanted(w) /\ InTime(w)
  BY <1>3 DEF Candidates
<1>5. passed \in Seq(Workflows)
  BY <1>3, <1>4
<1> HIDE DEF passed
<1>6. wakeups \in Heap /\ \A i \in DOMAIN wakeups :
         wakeups[i] \in Events => now =< wakeups[i].at /\ wakeups[i].action = "wake"
  BY <1>5, RescheduledLater
<1>7. StartPreparation(w, wakeups)
  BY <1>1 DEF passed
<1> HIDE DEF w, wakeups
<1>8. /\ stats' = [stats EXCEPT !.computed = @ + Count(w)]
      /\ gpu' = [kind |-> "speculative", workflow |-> w, revision |-> intents[w].revision,
                    computed |-> Computed(w)]
      /\ Push(events, wakeups \o <<At(now + Count(w) * PrefillMs, "finished")>>)
  BY <1>7, PreparationStarts
<1>9. intents[w] \in Intents /\ state[w].status = "running"
  BY <1>4 DEF Wanted, Running, TypeInv, Unannounced
<1>10. Count(w) \in Nat /\ Computed(w) \in Seq(Keys)
  BY <1>2, <1>4, <1>9, ChunkShape
<1>11. /\ gpu' \in PreparationJobs /\ gpu'.kind = "speculative" /\ gpu'.workflow = w
       /\ gpu'.revision = intents[w].revision
  <2>1. intents[w].revision \in Nat
    BY <1>9 DEF Intents
  <2> QED BY <1>4, <1>8, <1>10, <2>1 DEF PreparationJobs
<1>12. stats' \in Stats
  <2>1. stats.computed + Count(w) \in Nat
    BY <1>3, <1>10 DEF Stats
  <2>2. \A x \in Nat : [stats EXCEPT !.computed = x] \in Stats
    BY <1>3 DEF Stats
  <2> QED BY <1>8, <2>1, <2>2
<1>13. SameHeap /\ serial' \in Nat /\ events' \subseteq Events
  <2> DEFINE k == At(now + Count(w) * PrefillMs, "finished")
             new == wakeups \o <<k>>
  <2>1. Count(w) * PrefillMs \in Nat
    BY <1>10, HeadroomConstants
  <2>2. k \in Events /\ now =< k.at /\ k.action = "finished"
    BY <1>3, <2>1, EventsMade
  <2>3. Push(events, new)
    BY <1>8
  <2> HIDE DEF k
  <2>4. Len(wakeups) \in Nat /\ DOMAIN wakeups = 1..Len(wakeups)
    BY <1>6 DEF Heap
  <2>5. /\ new \in Heap /\ DOMAIN new = 1..(Len(wakeups) + 1)
        /\ new[Len(wakeups) + 1] = k /\ \A i \in 1..Len(wakeups) : new[i] = wakeups[i]
    BY <1>6, <2>2, <2>4 DEF Heap
  <2> HIDE DEF new
  <2>6. \A i \in 1..(Len(wakeups) + 1) : i = Len(wakeups) + 1 \/ i \in 1..Len(wakeups)
    BY <2>4
  <2>7. \A i \in DOMAIN new : new[i] \in Events => now =< new[i].at /\ new[i].action \in {"wake", "finished"}
    BY <1>6, <2>2, <2>4, <2>5, <2>6
  <2> QED BY <1>3, <2>3, <2>5, <2>7, QuietPush
<1>14. SameTurns /\ SameIntents
  BY <1>2 DEF SameTurns, SameIntents
<1>15. TypeInv'
  <2>1. queue' \in Seq(Workflows)
    BY <1>2
  <2> QED BY <1>2, <1>11, <1>12, <1>13, <2>1 DEF TypeInv
<1>16. TurnInv' /\ HeapInv' /\ EligibleInv'
  BY <1>2, <1>13, <1>14, QuietHeap
<1>17. WorkInv'
  BY <1>2, <1>9, <1>11 DEF WorkInv, Announced
<1>18. OvertakenInv'
  <2> SUFFICES ASSUME policy = "future_timing", NEW e \in events', e.action = "update", e.workflow = w,
                      e.index = intents[w].index
               PROVE  FALSE
    BY <1>2, <1>9, <1>11 DEF OvertakenInv
  <2>1. e \in events
    BY <1>13 DEF SameHeap
  <2>2. e.at =< intents[w].eligibleAt
    BY <2>1 DEF HeapInv, Foretold
  <2>3. now < e.at
    BY <1>2, <2>1 DEF InstantDone
  <2>4. intents[w].eligibleAt =< now
    BY <1>4 DEF InTime
  <2>5. e.at \in Nat /\ intents[w].eligibleAt \in Nat
    BY <1>3, <1>9, <2>1, EventKinds DEF Intents
  <2> QED BY <1>3, <2>2, <2>3, <2>4, <2>5
<1> QED BY <1>15, <1>16, <1>17, <1>18

\* Nothing is started.
LEMMA DispatchNothingKeeps == HeadroomInv /\ DispatchNothing => HeadroomInv'
<1> SUFFICES ASSUME HeadroomInv, DispatchNothing PROVE HeadroomInv'
  OBVIOUS
<1> USE DEF HeadroomInv
<1>1. UNCHANGED <<policy, now, lru, kind, gpu, intents, order, state, stats>> /\ open' = FALSE
  BY DEF DispatchNothing, cacheVars
<1>2. /\ events \subseteq Events /\ now \in Nat /\ serial \in Nat /\ order \in Seq(Workflows)
      /\ queue \in Seq(Workflows)
  BY ObservationEnds DEF TypeInv
<1>3. /\ SameHeap /\ serial' \in Nat /\ events' \subseteq Events
      /\ queue' \in Seq(Workflows) /\ \A i \in DOMAIN queue' : Started(queue'[i])
  <2>1. CASE UNCHANGED <<queue, heapVars>>
    BY <1>2, <2>1 DEF heapVars, SameHeap, WorkInv
  <2>2. CASE queue' = <<>> /\ Push(events, Rescheduled(order))
    <3>1. SameHeap /\ serial' \in Nat /\ events' \subseteq Events
      BY <1>2, <2>2, RescheduledLater, QuietPush
    <3> QED BY <2>2, <3>1
  <2>3. CASE queue' = <<>> /\ Push(events, <<>>)
    <3>1. <<>> \in Heap /\ DOMAIN <<>> = {}
      BY DEF Heap
    <3>2. SameHeap /\ serial' \in Nat /\ events' \subseteq Events
      BY <1>2, <2>3, <3>1, QuietPush
    <3> QED BY <2>3, <3>2
  <2> QED BY <2>1, <2>2, <2>3 DEF DispatchNothing
<1>4. SameTurns /\ SameIntents
  BY <1>1 DEF SameTurns, SameIntents
<1>5. TypeInv'
  BY <1>1, <1>3 DEF TypeInv
<1>6. TurnInv' /\ HeapInv' /\ EligibleInv'
  BY <1>1, <1>3, <1>4, QuietHeap
<1>7. WorkInv' /\ OvertakenInv'
  <2>1. \A i \in DOMAIN queue' : queue'[i] \in Workflows /\ Started(queue'[i])
    BY <1>3
  <2> QED BY <1>1, <1>3, <1>4, <2>1, QuietWork DEF OvertakenInv
<1> QED BY <1>5, <1>6, <1>7

\* Every step keeps the invariant.
LEMMA NextHeadroom == HeadroomInv /\ [Next]_vars => HeadroomInv'
<1> SUFFICES ASSUME HeadroomInv, [Next]_vars PROVE HeadroomInv'
  OBVIOUS
<1>1. CASE UNCHANGED vars
  BY <1>1 DEF vars, heapVars, cacheVars, HeadroomInv, TypeInv, TurnInv, HeapInv, Foretold, WorkInv,
     EligibleInv, OvertakenInv, Started, Announced
<1>2. CASE Next
  BY <1>1, <1>2, AdvanceKeeps, ArriveKeeps, DeadlineKeeps, ReadyKeeps, UpdateKeeps, WakeKeeps,
     PreparationFinishedKeeps, RequestFinishedKeeps, DispatchRequestKeeps, DispatchPreparationKeeps,
     DispatchNothingKeeps DEF Next, Finished
<1> QED BY <1>1, <1>2

(* The invariant of the heap, the turns and the work in progress holds in every state. *)
THEOREM HeadroomInvariance == Spec => []HeadroomInv
  BY InitHeadroom, NextHeadroom, PTL DEF Spec

(***************************************************************************)
(* Future timing is never overtaken: while it prepares a prefix, no        *)
(* cancellation and no revision of that prefix is applied, however many    *)
(* revisions a turn has.  (eligible_at, will_cancel)                       *)
(***************************************************************************)
THEOREM FutureTimingSafe == Spec => []FutureTimingNeverOvertaken
<1>1. HeadroomInv => FutureTimingNeverOvertaken
  BY DEF HeadroomInv, OvertakenInv, FutureTimingNeverOvertaken
<1> QED BY <1>1, HeadroomInvariance, PTL

(***************************************************************************)
(* No work is lost                                                         *)
(***************************************************************************)

\* An idle dispatch leaves an event for every prefix worth preparing.
LEMMA NothingLost ==
  ASSUME HeadroomInv, DispatchNothing, ~Busy, policy # "off", Remaining > 0,
         NEW w \in Workflows, Wanted(w), policy = "eager" \/ ~intents[w].willCancel
  PROVE  \E e \in events' : e.at =< Max({intents[w].eligibleAt, BeginAt(intents[w], kind)})
<1> USE DEF HeadroomInv
<1> DEFINE i == intents[w]
           begin == BeginAt(i, kind)
           last == Max({i.eligibleAt, begin})
<1>1. i \in Intents /\ i.active
  BY DEF Wanted, TypeInv, Unannounced
<1>2. i.eligibleAt \in Nat /\ begin \in Int /\ i.readyAt \in Nat /\ now \in Nat
  BY <1>1, BeginsBefore, ObservationEnds DEF Intents, TypeInv
<1>3. Candidates = {} /\ Push(events, Rescheduled(order))
  <2>1. Remaining \in Int
    BY HeadroomConstants DEF Remaining, TypeInv, Stats
  <2> QED BY <2>1 DEF DispatchNothing
<1>4. PICK n \in DOMAIN order : order[n] = w
  BY <1>1 DEF TurnInv, Announced, InSeq
<1>5. ~InTime(w)
  BY <1>3, <1>4 DEF Candidates
<1>6. policy = "future_timing" /\ ~i.willCancel
  BY <1>5, HeadroomConstants DEF InTime, TypeInv
<1>7. i.eligibleAt =< last /\ begin =< last
  <2> DEFINE a == i.eligibleAt
  <2>1. a \in Int /\ begin \in Int
    BY <1>2
  <2> HIDE DEF begin, a
  <2>2. Max({a, begin}) \in {a, begin} /\ a =< Max({a, begin}) /\ begin =< Max({a, begin})
    <3>1. {a, begin} = {a, begin, begin}
      OBVIOUS
    <3> QED BY <2>1, <3>1, MaxOfThree
  <2> QED BY <2>2 DEF a
<1>8. last \in Int
  <2> DEFINE a == i.eligibleAt
  <2>1. a \in Int /\ begin \in Int
    BY <1>2
  <2> HIDE DEF begin, a
  <2>2. Max({a, begin}) \in {a, begin}
    <3>1. {a, begin} = {a, begin, begin}
      OBVIOUS
    <3> QED BY <2>1, <3>1, MaxOfThree
  <2> QED BY <2>1, <2>2 DEF a
<1>9. order \in Seq(Workflows) /\ serial \in Nat
  BY DEF TypeInv
<1>10. /\ events \subseteq events'
       /\ \A m \in DOMAIN Rescheduled(order) :
             Rescheduled(order)[m] \in Events => \E e \in events' : Copies(e, Rescheduled(order)[m])
  BY <1>3, <1>9, RescheduledLater, Pushed
<1>11. CASE now < i.eligibleAt
  <2>1. PICK e \in events : e.at = i.eligibleAt
    BY <1>1, <1>6, <1>11 DEF EligibleInv, Announced
  <2>2. e \in events' /\ e.at =< last
    <3> HIDE DEF last
    <3> QED BY <1>7, <1>10, <2>1
  <2> QED BY <2>2, Zenon
<1>12. CASE ~(now < i.eligibleAt)
  <2>1. now >= i.eligibleAt /\ now < begin
    BY <1>2, <1>5, <1>6, <1>12 DEF InTime
  <2>2. TooEarly(w)
    BY <1>6, <2>1 DEF TooEarly
  <2>3. begin < i.readyAt
    <3> DEFINE c == CachedPrefix(i.keys, kind)
    <3>1. i.keys \in Seq(Keys)
      BY <1>1 DEF Intents, KeyLists
    <3>2. c \in 0..Len(i.keys) /\ Len(i.keys) \in Nat
      BY <3>1, PrefixCached
    <3>3. SubSeq(i.keys, c + 1, Len(i.keys)) # <<>>
      BY DEF Wanted, Missing
    <3> HIDE DEF c
    <3>4. c # Len(i.keys)
      BY <3>1, <3>2, <3>3, SubSeqEmpty
    <3> QED BY <1>1, <3>4, BeginsBefore DEF c
  <2>4. Max({now, i.eligibleAt, begin}) = begin
    <3> DEFINE a == i.eligibleAt
    <3>1. a \in Int /\ begin \in Int /\ now \in Int /\ a =< now /\ now < begin
      BY <1>2, <2>1
    <3> HIDE DEF begin, a
    <3>2. Max({now, a, begin}) \in {now, a, begin} /\ begin =< Max({now, a, begin})
      BY <3>1, MaxOfThree
    <3>3. Max({now, a, begin}) = begin
      BY <3>1, <3>2
    <3> QED BY <3>3 DEF a
  <2>5. Wakeup(i, kind) = At(begin, "wake")
    <3>1. Wakeup(i, kind) =
            IF /\ policy = "future_timing" /\ i.active /\ now < Max({now, i.eligibleAt, begin})
               /\ Max({now, i.eligibleAt, begin}) < i.readyAt
            THEN At(Max({now, i.eligibleAt, begin}), "wake") ELSE NoEvent
      BY Zenon DEF Wakeup
    <3> HIDE DEF begin, i
    <3> QED BY <1>1, <1>6, <2>1, <2>3, <2>4, <3>1
  <2> HIDE DEF begin, last
  <2>6. begin \in Nat
    BY <1>2, <2>1
  <2>7. At(begin, "wake") \in Events /\ At(begin, "wake").at = begin
    BY <2>6, EventsMade
  <2>8. Rescheduled(order)[n] = At(begin, "wake") /\ n \in DOMAIN Rescheduled(order)
    BY <1>4, <2>2, <2>5 DEF Rescheduled
  <2>9. PICK e \in events' : Copies(e, At(begin, "wake"))
    BY <1>10, <2>7, <2>8
  <2>10. e.at = begin
    BY <2>7, <2>9 DEF Copies
  <2>11. e \in events' /\ e.at =< last
    BY <1>7, <2>10
  <2> QED BY <2>11, Zenon DEF last, begin
<1> QED BY <1>11, <1>12

\* Every step keeps that no work is lost.
LEMMA NextNoLostWork == HeadroomInv /\ NoLostWork /\ [Next]_vars => NoLostWork'
<1> SUFFICES ASSUME HeadroomInv, NoLostWork, [Next]_vars, ~open', ~Busy'
             PROVE  /\ Runnable' = {}
                    /\ (policy # "off" /\ Remaining > 0)' =>
                          \A w \in Workflows :
                              (Wanted(w) /\ (policy = "eager" \/ ~intents[w].willCancel))' =>
                                  (\E e \in events :
                                      e.at =< Max({intents[w].eligibleAt, BeginAt(intents[w], kind)}))'
  BY DEF NoLostWork
<1>1. CASE UNCHANGED vars
  <2>1. ~open /\ ~Busy
    BY <1>1 DEF vars, Busy, Idle
  <2>2. UNCHANGED <<policy, open, events, queue, gpu, intents, state, stats, kind>>
    BY <1>1 DEF vars, heapVars, cacheVars
  <2> QED BY <2>1, <2>2 DEF NoLostWork, Runnable, Running, Remaining, Wanted, Missing, BeginAt,
             CachedPrefix, Cached
<1>2. CASE DispatchNothing
  <2>1. /\ UNCHANGED <<policy, kind, gpu, intents, state, stats>> /\ ~Busy /\ queue' = <<>>
    BY <1>2 DEF DispatchNothing, Busy, Idle, cacheVars
  <2>2. Runnable' = {}
    BY <2>1 DEF Runnable
  <2>3. (policy # "off" /\ Remaining > 0)' => policy # "off" /\ Remaining > 0
    BY <2>1 DEF Remaining
  <2>4. ASSUME NEW w \in Workflows, (Wanted(w) /\ (policy = "eager" \/ ~intents[w].willCancel))'
        PROVE  Wanted(w) /\ (policy = "eager" \/ ~intents[w].willCancel)
    BY <2>1, <2>4 DEF Wanted, Running, Missing, CachedPrefix, Cached
  <2>5. ASSUME NEW w \in Workflows
        PROVE  BeginAt(intents[w], kind)' = BeginAt(intents[w], kind)
    BY <2>1 DEF BeginAt, CachedPrefix, Cached
  <2> QED BY <1>2, <2>1, <2>2, <2>3, <2>4, <2>5, NothingLost
<1>3. CASE DispatchRequest \/ DispatchPreparation
  <2>1. gpu' # Idle
    <3>1. CASE DispatchRequest
      <4>1. PICK n \in Runnable : StartRequest(queue[n])
        BY <3>1 DEF DispatchRequest
      <4>2. gpu' = [kind |-> "demand", workflow |-> queue[n], keys |-> Request(queue[n])]
        BY <4>1, RequestStarts, Zenon
      <4>3. gpu'.kind = "demand"
        BY <4>2
      <4> QED BY <4>3 DEF Idle
    <3>2. CASE DispatchPreparation
      <4>1. PICK n \in Candidates : StartPreparation(order[n], Rescheduled(SubSeq(order, 1, n - 1)))
        BY <3>2 DEF DispatchPreparation
      <4>2. gpu' = [kind |-> "speculative", workflow |-> order[n],
                    revision |-> intents[order[n]].revision, computed |-> Computed(order[n])]
        BY <4>1, PreparationStarts, Zenon
      <4>3. gpu'.kind = "speculative"
        BY <4>2
      <4> QED BY <4>3 DEF Idle
    <3> QED BY <1>3, <3>1, <3>2
  <2> QED BY <2>1 DEF Busy, Idle
<1>4. CASE \/ Advance \/ Arrive \/ Deadline \/ Ready \/ Update \/ Wake
           \/ PreparationFinished \/ RequestFinished
  <2>1. CASE Advance
    BY <2>1 DEF Advance
  <2>2. CASE Arrive
    BY <2>2 DEF Arrive, Due
  <2>3. CASE Deadline
    BY <2>3 DEF Deadline, Due
  <2>4. CASE Ready
    BY <2>4 DEF Ready, Due
  <2>5. CASE Update
    BY <2>5 DEF Update, Due
  <2>6. CASE Wake
    BY <2>6 DEF Wake, Due
  <2>7. CASE PreparationFinished
    BY <2>7 DEF PreparationFinished, Due
  <2>8. CASE RequestFinished
    BY <2>8 DEF RequestFinished, Due
  <2> QED BY <1>4, <2>1, <2>2, <2>3, <2>4, <2>5, <2>6, <2>7, <2>8
<1> QED BY <1>1, <1>2, <1>3, <1>4 DEF Next, Finished

(***************************************************************************)
(* No work is lost: when the GPU is left idle, no ready request waits, and *)
(* for every prefix worth preparing there is an event not later than the   *)
(* moment to begin.  (dispatch, schedule_wakeup)                           *)
(***************************************************************************)
THEOREM IdleLosesNothing == Spec => []NoLostWork
<1>1. Init => NoLostWork
  <2> SUFFICES ASSUME Init PROVE NoLostWork
    OBVIOUS
  <2>1. Runnable = {} /\ \A w \in Workflows : ~Wanted(w)
    BY DEF Init, Runnable, Wanted, NoIntent
  <2> QED BY <2>1 DEF NoLostWork
<1> QED BY <1>1, NextNoLostWork, HeadroomInvariance, PTL DEF Spec

(***************************************************************************)
(* Decided workflows                                                       *)
(***************************************************************************)
StatusKept == \A x \in Workflows : ~Running(x) => state'[x].status = state[x].status
ServedRuns == (gpu' # gpu /\ gpu' # Idle) => Running(gpu'.workflow)

\* A turn that starts decides nothing.
LEMMA TurnKeepsStatus ==
  ASSUME TypeInv, NEW w \in Workflows, NEW index, NEW evs, NEW kinds, StartTurn(w, index, evs, kinds)
  PROVE  StatusKept
<1>1. PICK t : state' = [state EXCEPT ![w].index = index, ![w].turn = t]
  BY DEF StartTurn
<1>2. state \in [Workflows -> States]
  BY DEF TypeInv
<1>3. \A x \in Workflows : state'[x].status = state[x].status
  BY <1>1, <1>2 DEF States
<1> QED BY <1>3 DEF StatusKept

\* Every step keeps a decision, and gives the GPU only to a running workflow.
LEMMA NextKeepsDecisions == HeadroomInv /\ Next => StatusKept /\ ServedRuns
<1> SUFFICES ASSUME HeadroomInv, Next PROVE StatusKept /\ ServedRuns
  OBVIOUS
<1>0. TypeInv /\ state \in [Workflows -> States] /\ events \subseteq Events
  BY DEF HeadroomInv, TypeInv
<1>1. CASE UNCHANGED <<state, gpu>>
  BY <1>1 DEF StatusKept, ServedRuns
<1>2. CASE Arrive
  <2>1. PICK e \in events : Due(e, "arrival") /\ StartTurn(e.workflow, 0, events \ {e}, kind)
    BY <1>2 DEF Arrive
  <2>2. e.workflow \in Workflows
    BY <1>0, <2>1, EventKinds DEF Due
  <2>3. StatusKept
    BY <1>0, <2>1, <2>2, TurnKeepsStatus
  <2> QED BY <1>2, <2>3 DEF Arrive, ServedRuns
<1>3. ASSUME NEW w \in Workflows, NEW s, Running(w), state' = [state EXCEPT ![w].status = s]
      PROVE  StatusKept
  <2>1. \A x \in Workflows : x # w => state'[x] = state[x]
    BY <1>0, <1>3
  <2> QED BY <1>3, <2>1 DEF StatusKept
<1>4. CASE Deadline
  <2>1. PICK e \in events :
           /\ Due(e, "deadline")
           /\ IF Running(e.workflow) THEN state' = [state EXCEPT ![e.workflow].status = "timeout"]
              ELSE UNCHANGED state
    BY <1>4, Zenon DEF Deadline
  <2>2. e.workflow \in Workflows
    BY <1>0, <2>1, EventKinds DEF Due
  <2>3. StatusKept
    BY <1>3, <2>1, <2>2 DEF StatusKept
  <2> QED BY <1>4, <2>3 DEF Deadline, ServedRuns
<1>5. CASE Update
  <2>1. PICK e \in events : Due(e, "update") /\ Revise(e)
    BY <1>5 DEF Update
  <2>2. e.workflow \in Workflows
    BY <1>0, <2>1, EventKinds DEF Due
  <2>3. \/ UNCHANGED state
        \/ Running(e.workflow) /\ state' = [state EXCEPT ![e.workflow].status = "cancelled"]
    BY <2>1, Zenon DEF Revise
  <2>4. StatusKept
    BY <1>3, <2>2, <2>3 DEF StatusKept
  <2> QED BY <1>5, <2>4 DEF Update, ServedRuns
<1>6. CASE RequestFinished
  <2> DEFINE w == gpu.workflow
  <2>1. PICK e \in events :
          \/ UNCHANGED state
          \/ Running(w) /\ state' = [state EXCEPT ![w].status = "completed"]
          \/ StartTurn(w, state[w].index + 1, events \ {e}, kind')
    BY <1>6, Zenon DEF RequestFinished
  <2>2. w \in Workflows /\ gpu' = Idle
    BY <1>0, <1>6, Jobs DEF RequestFinished
  <2> HIDE DEF w
  <2>3. StatusKept
    BY <1>0, <1>3, <2>1, <2>2, TurnKeepsStatus DEF StatusKept
  <2> QED BY <2>2, <2>3 DEF ServedRuns
<1>7. CASE PreparationFinished
  BY <1>7 DEF PreparationFinished, StatusKept, ServedRuns
<1>8. CASE DispatchRequest
  <2>1. PICK n \in Runnable : StartRequest(queue[n])
    BY <1>8 DEF DispatchRequest
  <2>2. gpu' = [kind |-> "demand", workflow |-> queue[n], keys |-> Request(queue[n])]
    BY <2>1, RequestStarts, Zenon
  <2>3. gpu'.workflow = queue[n] /\ Running(queue[n])
    BY <2>2 DEF Runnable
  <2>4. state' = state
    BY <1>8 DEF DispatchRequest
  <2> QED BY <2>3, <2>4 DEF StatusKept, ServedRuns
<1>9. CASE DispatchPreparation
  <2>1. PICK n \in Candidates : StartPreparation(order[n], Rescheduled(SubSeq(order, 1, n - 1)))
    BY <1>9 DEF DispatchPreparation
  <2>2. gpu' = [kind |-> "speculative", workflow |-> order[n],
                revision |-> intents[order[n]].revision, computed |-> Computed(order[n])]
    BY <2>1, PreparationStarts, Zenon
  <2>3. gpu'.workflow = order[n] /\ Running(order[n])
    BY <2>2 DEF Candidates, Wanted
  <2>4. state' = state
    BY <1>9 DEF DispatchPreparation
  <2> QED BY <2>3, <2>4 DEF StatusKept, ServedRuns
<1>10. CASE Advance \/ Ready \/ Wake \/ DispatchNothing \/ Finished
  <2>1. UNCHANGED <<state, gpu>>
    BY <1>10 DEF Advance, Ready, Wake, DispatchNothing, Finished, vars
  <2> QED BY <1>1, <2>1
<1> QED BY <1>2, <1>4, <1>5, <1>6, <1>7, <1>8, <1>9, <1>10 DEF Next

(***************************************************************************)
(* A workflow that was cancelled, timed out or completed stays so, and the *)
(* GPU is only ever given to a workflow that still runs.                   *)
(* (deadline, update, dispatch)                                            *)
(***************************************************************************)
THEOREM DecidedOnce == Spec => NeverRevived
<1>1. HeadroomInv /\ [Next]_vars => [StatusKept /\ ServedRuns]_vars
  BY NextKeepsDecisions
<1>2. [StatusKept /\ ServedRuns]_vars
         => [/\ \A w \in Workflows : ~Running(w) => state'[w].status = state[w].status
             /\ (gpu' # gpu /\ gpu' # Idle) => Running(gpu'.workflow)]_vars
  BY DEF StatusKept, ServedRuns
<1> QED BY <1>1, <1>2, HeadroomInvariance, PTL DEF Spec, NeverRevived

(***************************************************************************)
(* The cache and the accounts                                              *)
(***************************************************************************)

\* There are n numbers from 1 to n.
LEMMA UpTo ==
  ASSUME NEW n \in Nat
  PROVE  IsFiniteSet(1..n) /\ Cardinality(1..n) = n
<1>1. IsFiniteSet(1..n) /\ Cardinality(1..n) = IF 1 > n THEN 0 ELSE n - 1 + 1
  BY FS_Interval
<1> QED BY <1>1

\* The ranks of a finite set of numbers are 1 to their number, in order.
LEMMA Ranks ==
  ASSUME NEW S, S \subseteq Nat, IsFiniteSet(S)
  PROVE  /\ Cardinality(S) \in Nat
         /\ \A i \in S : Rank(i, S) \in 1..Cardinality(S)
         /\ \A i, j \in S : Rank(i, S) = Rank(j, S) => i = j
         /\ \A n \in 1..Cardinality(S) : \E i \in S : Rank(i, S) = n
<1> DEFINE c == Cardinality(S)
           Below(i) == {j \in S : j =< i}
<1>1. c \in Nat
  BY FS_CardinalityType
<1>2. ASSUME NEW i \in S PROVE IsFiniteSet(Below(i)) /\ Rank(i, S) = Cardinality(Below(i))
  <2>1. Below(i) \in SUBSET S
    OBVIOUS
  <2> QED BY <2>1, FS_Subset DEF Rank
<1>3. ASSUME NEW i \in S PROVE Rank(i, S) \in 1..c
  <2>1. Below(i) \in SUBSET S /\ i \in Below(i)
    OBVIOUS
  <2>2. Cardinality(Below(i)) =< c /\ Cardinality(Below(i)) \in Nat
    BY <1>2, <2>1, FS_Subset, FS_CardinalityType
  <2>3. Cardinality(Below(i)) # 0
    BY <1>2, <2>1, FS_EmptySet
  <2> HIDE DEF Below, c
  <2> QED BY <1>1, <1>2, <2>2, <2>3
<1>4. ASSUME NEW i \in S, NEW j \in S, i < j PROVE Rank(i, S) < Rank(j, S)
  <2>1. Below(i) \in SUBSET (Below(j) \ {j}) /\ j \in Below(j)
    <3>1. i \in Nat /\ j \in Nat /\ i < j /\ S \subseteq Nat
      BY <1>4
    <3>2. \A k \in S : k =< i => k =< j /\ k # j
      BY <3>1
    <3>3. j =< j
      BY <3>1
    <3> QED BY <3>2, <3>3, Zenon
  <2>2. IsFiniteSet(Below(j) \ {j}) /\ Cardinality(Below(j) \ {j}) = Cardinality(Below(j)) - 1
    BY <1>2, <2>1, FS_RemoveElement
  <2>3. Cardinality(Below(i)) =< Cardinality(Below(j) \ {j})
    BY <2>1, <2>2, FS_Subset
  <2>4. Cardinality(Below(i)) \in Nat /\ Cardinality(Below(j)) \in Nat
    BY <1>2, FS_CardinalityType
  <2> HIDE DEF Below
  <2> QED BY <1>2, <2>2, <2>3, <2>4
<1>5. ASSUME NEW i \in S, NEW j \in S, Rank(i, S) = Rank(j, S) PROVE i = j
  <2>1. Rank(i, S) \in Nat /\ Rank(j, S) \in Nat /\ i \in Nat /\ j \in Nat
    BY <1>1, <1>3
  <2>2. ~(i < j) /\ ~(j < i)
    BY <1>4, <1>5, <2>1
  <2> QED BY <2>1, <2>2
<1>6. \A n \in 1..c : \E i \in S : Rank(i, S) = n
  <2> DEFINE f == [i \in S |-> Rank(i, S)]
  <2>1. f \in Injection(S, 1..c)
    BY <1>3, <1>5 DEF Injection, IsInjective
  <2>2. IsFiniteSet(1..c) /\ Cardinality(1..c) = c
    BY <1>1, UpTo
  <2>3. f \in Surjection(S, 1..c)
    <3> HIDE DEF f
    <3> QED BY <2>1, <2>2, FS_Injection
  <2> QED BY <2>3 DEF Surjection
<1> QED BY <1>1, <1>3, <1>5, <1>6

\* How many are left when the first ones of a finite set of numbers go.
LEMMA LastRanks ==
  ASSUME NEW S, S \subseteq Nat, IsFiniteSet(S), NEW x \in Int
  PROVE  LET T == {i \in S : Rank(i, S) > x}
         IN  /\ IsFiniteSet(T) /\ Cardinality(T) \in Nat /\ Cardinality(T) =< Cardinality(S)
             /\ 0 =< x /\ x =< Cardinality(S) => Cardinality(T) =< Cardinality(S) - x
             /\ Cardinality(S) < x => Cardinality(T) = 0
<1> DEFINE T == {i \in S : Rank(i, S) > x}
           c == Cardinality(S)
<1>0. T \in SUBSET S
  OBVIOUS
<1>1. IsFiniteSet(T) /\ Cardinality(T) \in Nat /\ Cardinality(T) =< c
  BY <1>0, FS_Subset, FS_CardinalityType
<1>2. c \in Nat
  BY FS_CardinalityType
<1>3. ASSUME 0 =< x, x =< c PROVE Cardinality(T) =< c - x
  <2> DEFINE f == [i \in T |-> Rank(i, S)]
  <2>1. \A i \in T : Rank(i, S) \in (x + 1)..c
    <3> TAKE i \in T
    <3>1. Rank(i, S) \in 1..c /\ Rank(i, S) > x
      BY Ranks
    <3> HIDE DEF c
    <3> QED BY <1>2, <1>3, <3>1
  <2>2. \A i, j \in T : Rank(i, S) = Rank(j, S) => i = j
    BY Ranks
  <2>3. f \in Injection(T, (x + 1)..c)
    <3> HIDE DEF T, c
    <3> QED BY <2>1, <2>2 DEF Injection, IsInjective
  <2>4. IsFiniteSet((x + 1)..c) /\ Cardinality((x + 1)..c) = c - x
    <3>1. x + 1 \in Int /\ c \in Int
      BY <1>2
    <3>2. /\ IsFiniteSet((x + 1)..c)
          /\ Cardinality((x + 1)..c) = IF x + 1 > c THEN 0 ELSE c - (x + 1) + 1
      BY <3>1, FS_Interval
    <3> HIDE DEF c
    <3> QED BY <1>2, <1>3, <3>2
  <2>5. Cardinality(T) =< Cardinality((x + 1)..c)
    <3> HIDE DEF f, T, c
    <3> QED BY <2>3, <2>4, FS_Injection
  <2> QED BY <2>4, <2>5
<1>4. ASSUME c < x PROVE Cardinality(T) = 0
  <2>1. \A i \in S : Rank(i, S) \in 1..c
    BY Ranks
  <2>2. T = {}
    <3> HIDE DEF c
    <3>1. \A i \in S : ~(Rank(i, S) > x)
      BY <1>2, <1>4, <2>1
    <3> QED BY <3>1, Zenon
  <2> QED BY <2>2, FS_EmptySet
<1> HIDE DEF T, c
<1>5. /\ IsFiniteSet(T) /\ Cardinality(T) \in Nat /\ Cardinality(T) =< c
      /\ 0 =< x /\ x =< c => Cardinality(T) =< c - x
      /\ c < x => Cardinality(T) = 0
  BY <1>1, <1>3, <1>4
<1> QED BY <1>5, Zenon DEF T, c

\* Picking some positions of a sequence gives their entries, in order and once.
LEMMA Picked ==
  ASSUME NEW X, NEW s \in Seq(X), NEW S, S \subseteq DOMAIN s
  PROVE  /\ Pick(s, S) \in Seq(X) /\ Len(Pick(s, S)) = Cardinality(S) /\ IsFiniteSet(S)
         /\ \A n \in 1..Cardinality(S) : \E i \in S : Rank(i, S) = n /\ Pick(s, S)[n] = s[i]
         /\ \A i \in S : \E n \in 1..Cardinality(S) : Pick(s, S)[n] = s[i]
<1> DEFINE c == Cardinality(S)
           At1(n) == CHOOSE i \in S : Rank(i, S) = n
<1>1. S \subseteq Nat /\ IsFiniteSet(S)
  <2>1. DOMAIN s = 1..Len(s) /\ Len(s) \in Nat
    OBVIOUS
  <2>2. S \in SUBSET (1..Len(s)) /\ IsFiniteSet(1..Len(s))
    BY <2>1, FS_Interval
  <2> QED BY <2>1, <2>2, FS_Subset
<1>2. c \in Nat /\ \A n \in 1..c : \E i \in S : Rank(i, S) = n
  BY <1>1, Ranks
<1>3. ASSUME NEW n \in 1..c PROVE At1(n) \in S /\ Rank(At1(n), S) = n
  BY <1>2, Zenon
<1>4. Pick(s, S) = [n \in 1..c |-> s[At1(n)]]
  BY DEF Pick
<1>5. \A n \in 1..c : s[At1(n)] \in X
  <2> TAKE n \in 1..c
  <2>1. At1(n) \in DOMAIN s
    BY <1>3
  <2> HIDE DEF At1
  <2> QED BY <2>1
<1>6. Pick(s, S) \in [1..c -> X]
  <2> HIDE DEF c, At1
  <2> QED BY <1>4, <1>5
<1>7. Pick(s, S) \in Seq(X) /\ Len(Pick(s, S)) = c
  <2> HIDE DEF c
  <2> QED BY <1>2, <1>6, IsASeq, LenProperties
<1>8. \A n \in 1..c : Rank(At1(n), S) = n /\ At1(n) \in S /\ Pick(s, S)[n] = s[At1(n)]
  <2> HIDE DEF c, At1
  <2> QED BY <1>3, <1>4
<1>9. \A n \in 1..c : \E i \in S : Rank(i, S) = n /\ Pick(s, S)[n] = s[i]
  <2> HIDE DEF c, At1
  <2> QED BY <1>8
<1>10. ASSUME NEW i \in S PROVE \E n \in 1..c : Pick(s, S)[n] = s[i]
  <2>1. Rank(i, S) \in 1..c
    BY <1>1, Ranks
  <2>2. PICK j \in S : Rank(j, S) = Rank(i, S) /\ Pick(s, S)[Rank(i, S)] = s[j]
    BY <1>9, <2>1
  <2>3. j = i
    BY <1>1, <2>2, Ranks
  <2> QED BY <2>1, <2>2, <2>3
<1> QED BY <1>1, <1>7, <1>9, <1>10

(* Each key of the cache has one position. *)
Distinct(s) == \A i, j \in DOMAIN s : s[i] = s[j] => i = j

\* A key of a list is as long as its position, so no key is there twice.
LEMMA KeysDiffer ==
  ASSUME NEW keys \in KeyLists
  PROVE  /\ keys \in Seq(Keys) /\ Len(keys) \in Nat /\ DOMAIN keys = 1..Len(keys)
         /\ Len(keys) =< CacheBlocks /\ Distinct(keys)
<1>1. keys \in Seq(Keys) /\ Len(keys) =< CacheBlocks /\ \A i \in DOMAIN keys : Len(keys[i]) = i
  BY DEF KeyLists
<1>2. Distinct(keys)
  BY <1>1, Zenon DEF Distinct
<1> QED BY <1>1, <1>2

(* What reserve() leaves of the cache: keys it does not touch and does not evict. *)
Untouched(keys) == {i \in DOMAIN lru : ~InSeq(lru[i], keys)}
Kept(keys) == {i \in Untouched(keys) : Rank(i, Untouched(keys)) > Excess(keys)}

\* What a reservation does, in these terms.
LEMMA Reserves ==
  ASSUME NEW keys, NEW kinds, Reserve(keys, kinds)
  PROVE  /\ lru' = Pick(lru, Kept(keys)) \o keys
         /\ DOMAIN kind' = {lru[i] : i \in Kept(keys)} \cup {keys[i] : i \in DOMAIN keys}
         /\ \A k \in DOMAIN kind' :
               kind'[k] = IF k \in DOMAIN kinds THEN kinds[k] ELSE "pending"
<1> DEFINE kept == {i \in Survivors(keys) : ~InSeq(lru[i], keys)}
<1>1. /\ lru' = Pick(lru, kept) \o keys
      /\ kind' = [k \in {lru[i] : i \in kept} \cup {keys[i] : i \in DOMAIN keys} |->
                    IF k \in DOMAIN kinds THEN kinds[k] ELSE "pending"]
  BY Zenon DEF Reserve
<1>2. Survivors(keys) = {i \in DOMAIN lru : i \in Untouched(keys) => Rank(i, Untouched(keys)) > Excess(keys)}
  BY Zenon DEF Survivors, Untouched
<1>3. \A i : i \in Untouched(keys) <=> i \in DOMAIN lru /\ ~InSeq(lru[i], keys)
  BY Zenon DEF Untouched
<1>4. kept = Kept(keys)
  <2>1. \A i : i \in kept <=> i \in Kept(keys)
    BY <1>2, <1>3, Zenon DEF Kept
  <2> QED BY <2>1, Zenon
<1> HIDE DEF kept
<1>5. /\ DOMAIN kind' = {lru[i] : i \in kept} \cup {keys[i] : i \in DOMAIN keys}
      /\ \A k \in DOMAIN kind' : kind'[k] = IF k \in DOMAIN kinds THEN kinds[k] ELSE "pending"
  BY <1>1
<1> QED BY <1>1, <1>4, <1>5, Zenon

\* A reservation never makes the cache larger than it may be.
LEMMA ReservationFits ==
  ASSUME lru \in Seq(Keys), Distinct(lru), Len(lru) =< CacheBlocks,
         DOMAIN kind = {lru[i] : i \in DOMAIN lru}, NEW keys \in KeyLists
  PROVE  /\ Kept(keys) \subseteq DOMAIN lru /\ Cardinality(Kept(keys)) \in Nat
         /\ Cardinality(Kept(keys)) + Len(keys) =< CacheBlocks
<1> DEFINE D == DOMAIN lru
           F == Untouched(keys)
           H == D \ F
           N == {i \in DOMAIN keys : keys[i] \notin DOMAIN kind}
           O == (DOMAIN keys) \ N
           x == Excess(keys)
<1>1. D = 1..Len(lru) /\ Len(lru) \in Nat /\ CacheBlocks \in Nat
  BY HeadroomConstants
<1>2. DOMAIN keys = 1..Len(keys) /\ Len(keys) \in Nat /\ Len(keys) =< CacheBlocks /\ Distinct(keys)
  BY KeysDiffer
<1>3. IsFiniteSet(D) /\ Cardinality(D) = Len(lru)
  BY <1>1, UpTo
<1>4. IsFiniteSet(DOMAIN keys) /\ Cardinality(DOMAIN keys) = Len(keys)
  BY <1>2, UpTo
<1>5. F \subseteq D /\ N \subseteq DOMAIN keys
  BY DEF Untouched
<1>6. /\ IsFiniteSet(H) /\ IsFiniteSet(F) /\ Cardinality(F) \in Nat /\ Cardinality(H) \in Nat
      /\ Cardinality(H) = Len(lru) - Cardinality(F)
  <2>1. F \in SUBSET D /\ D \cap F = F
    BY <1>5
  <2>2. IsFiniteSet(F) /\ IsFiniteSet(D \ F) /\ Cardinality(D \ F) = Cardinality(D) - Cardinality(D \cap F)
    BY <1>3, <2>1, FS_Subset, FS_Difference
  <2> HIDE DEF D, F
  <2> QED BY <1>3, <2>1, <2>2, FS_CardinalityType
<1>7. /\ IsFiniteSet(N) /\ IsFiniteSet(O) /\ Cardinality(N) \in Nat /\ Cardinality(O) \in Nat
      /\ Cardinality(O) = Len(keys) - Cardinality(N)
  <2>1. N \in SUBSET (DOMAIN keys) /\ (DOMAIN keys) \cap N = N
    BY <1>5
  <2>2. /\ IsFiniteSet(N) /\ IsFiniteSet(O)
        /\ Cardinality(O) = Cardinality(DOMAIN keys) - Cardinality((DOMAIN keys) \cap N)
    BY <1>4, <2>1, FS_Subset, FS_Difference
  <2> HIDE DEF N, O
  <2> QED BY <1>4, <2>1, <2>2, FS_CardinalityType
<1>8. Cardinality(O) =< Cardinality(H)
  <2> DEFINE f == [i \in O |-> CHOOSE j \in H : lru[j] = keys[i]]
  <2>1. ASSUME NEW i \in O PROVE \E j \in H : lru[j] = keys[i]
    <3>1. i \in DOMAIN keys /\ keys[i] \in DOMAIN kind
      OBVIOUS
    <3>2. PICK j \in D : lru[j] = keys[i]
      BY <3>1
    <3>3. InSeq(lru[j], keys)
      BY <3>1, <3>2 DEF InSeq
    <3>4. j \in H
      BY <3>2, <3>3 DEF Untouched
    <3> QED BY <3>2, <3>4
  <2>2. \A i \in O : f[i] \in H /\ lru[f[i]] = keys[i]
    <3> HIDE DEF H, O
    <3> QED BY <2>1
  <2>3. f \in [O -> H]
    <3>1. f = [i \in O |-> f[i]]
      OBVIOUS
    <3> HIDE DEF f, H, O
    <3> QED BY <2>2, <3>1
  <2> HIDE DEF f
  <2>4. \A i, j \in O : f[i] = f[j] => i = j
    <3>1. O \subseteq DOMAIN keys
      OBVIOUS
    <3> HIDE DEF H, O
    <3> QED BY <1>2, <2>2, <3>1 DEF Distinct
  <2>5. f \in Injection(O, H)
    <3> HIDE DEF H, O
    <3> QED BY <2>3, <2>4 DEF Injection, IsInjective
  <2> HIDE DEF H, O
  <2> QED BY <1>6, <2>5, FS_Injection
<1>9. x = Len(lru) + Cardinality(N) - CacheBlocks
  BY DEF Excess
<1>10. x \in Int
  <2> HIDE DEF x, N
  <2> QED BY <1>1, <1>7, <1>9
<1>11. F \subseteq Nat
  BY <1>1, <1>5
<1>12. /\ IsFiniteSet(Kept(keys)) /\ Cardinality(Kept(keys)) \in Nat
       /\ Cardinality(Kept(keys)) =< Cardinality(F)
       /\ 0 =< x /\ x =< Cardinality(F) => Cardinality(Kept(keys)) =< Cardinality(F) - x
       /\ Cardinality(F) < x => Cardinality(Kept(keys)) = 0
  <2>1. Kept(keys) = {i \in F : Rank(i, F) > x}
    BY DEF Kept
  <2> HIDE DEF F, x
  <2> QED BY <1>6, <1>10, <1>11, <2>1, LastRanks
<1>13. Cardinality(Kept(keys)) + Len(keys) =< CacheBlocks
  <2>1. \A l, k, c, f, h, n, o, g \in Nat, y \in Int :
           /\ l =< c /\ k =< c /\ h = l - f /\ o = k - n /\ o =< h /\ y = l + n - c
           /\ g =< f /\ (0 =< y /\ y =< f => g =< f - y) /\ (f < y => g = 0)
           => g + k =< c
    OBVIOUS
  <2> HIDE DEF D, F, H, N, O, x
  <2>2. /\ Len(lru) \in Nat /\ Len(keys) \in Nat /\ CacheBlocks \in Nat /\ Cardinality(F) \in Nat
        /\ Cardinality(H) \in Nat /\ Cardinality(N) \in Nat /\ Cardinality(O) \in Nat
        /\ Cardinality(Kept(keys)) \in Nat
    BY <1>1, <1>2, <1>6, <1>7, <1>12
  <2> QED BY <1>2, <1>6, <1>7, <1>8, <1>9, <1>10, <1>12, <2>1, <2>2
<1> QED BY <1>5, <1>12, <1>13 DEF Kept

\* After a reservation the cache is sound again and holds all that was asked for.
LEMMA ReservationSound ==
  ASSUME lru \in Seq(Keys), Distinct(lru), Len(lru) =< CacheBlocks,
         DOMAIN kind = {lru[i] : i \in DOMAIN lru},
         NEW keys \in KeyLists, NEW kinds, DOMAIN kinds = DOMAIN kind, Reserve(keys, kinds)
  PROVE  /\ lru' \in Seq(Keys) /\ Len(lru') =< CacheBlocks /\ Distinct(lru')
         /\ DOMAIN kind' = {lru'[i] : i \in DOMAIN lru'}
         /\ \A k \in DOMAIN kind' :
               \/ k \in DOMAIN kind /\ kind'[k] = kinds[k]
               \/ k \notin DOMAIN kind /\ kind'[k] = "pending" /\ InSeq(k, keys)
         /\ \A i \in DOMAIN keys : keys[i] \in DOMAIN kind'
<1> DEFINE S == Kept(keys)
           p == Pick(lru, S)
           c == Cardinality(S)
           l == Len(keys)
<1>1. S \subseteq DOMAIN lru /\ c \in Nat /\ c + l =< CacheBlocks
  BY ReservationFits
<1>2. /\ keys \in Seq(Keys) /\ l \in Nat /\ DOMAIN keys = 1..l /\ Distinct(keys)
  BY KeysDiffer
<1>3. /\ p \in Seq(Keys) /\ Len(p) = c
      /\ \A n \in 1..c : \E i \in S : Rank(i, S) = n /\ p[n] = lru[i]
      /\ \A i \in S : \E n \in 1..c : p[n] = lru[i]
  BY <1>1, Picked
<1>4. lru' = p \o keys
  BY Reserves
<1>5. /\ DOMAIN kind' = {lru[i] : i \in S} \cup {keys[i] : i \in DOMAIN keys}
      /\ \A k \in DOMAIN kind' : kind'[k] = IF k \in DOMAIN kind THEN kinds[k] ELSE "pending"
  <2>1. DOMAIN kind' = {lru[i] : i \in Kept(keys)} \cup {keys[i] : i \in DOMAIN keys}
    BY Reserves
  <2>2. \A k \in DOMAIN kind' : kind'[k] = IF k \in DOMAIN kinds THEN kinds[k] ELSE "pending"
    BY Reserves
  <2> QED BY <2>1, <2>2
<1>6. \A i \in S : ~InSeq(lru[i], keys) /\ i \in DOMAIN lru
  BY <1>1 DEF Kept, Untouched
<1> HIDE DEF S, p, c, l
<1>7. /\ lru' \in Seq(Keys) /\ Len(lru') = c + l
      /\ \A i \in 1..(c + l) : lru'[i] = IF i =< c THEN p[i] ELSE keys[i - c]
  <2>1. /\ p \o keys \in Seq(Keys) /\ Len(p \o keys) = Len(p) + Len(keys)
        /\ \A i \in 1..(Len(p) + Len(keys)) :
              (p \o keys)[i] = IF i =< Len(p) THEN p[i] ELSE keys[i - Len(p)]
    BY <1>2, <1>3, ConcatProperties
  <2>2. Len(p) = c /\ Len(keys) = l
    BY <1>3 DEF l
  <2> QED BY <1>4, <2>1, <2>2, Zenon
<1>8. DOMAIN lru' = 1..(c + l)
  BY <1>7
<1>9. /\ \A i \in 1..c : i \in 1..(c + l) /\ lru'[i] = p[i]
      /\ \A i \in 1..l : c + i \in 1..(c + l) /\ lru'[c + i] = keys[i]
      /\ \A i \in 1..(c + l) : i \in 1..c \/ (i > c /\ i - c \in 1..l /\ lru'[i] = keys[i - c])
  <2>1. \A i \in 1..c : i \in 1..(c + l) /\ lru'[i] = p[i]
    BY <1>1, <1>2, <1>7
  <2>2. \A i \in 1..l : c + i \in 1..(c + l) /\ ~(c + i =< c) /\ (c + i) - c = i
    BY <1>1, <1>2
  <2>3. \A i \in 1..l : lru'[c + i] = keys[i]
    BY <1>7, <2>2
  <2>4. \A i \in 1..(c + l) : i \in 1..c \/ (i > c /\ i - c \in 1..l /\ lru'[i] = keys[i - c])
    BY <1>1, <1>2, <1>7
  <2> QED BY <2>1, <2>2, <2>3, <2>4
<1>10. ASSUME NEW i \in 1..c, NEW j \in 1..c, p[i] = p[j] PROVE i = j
  <2>1. PICK a \in S : Rank(a, S) = i /\ p[i] = lru[a]
    BY <1>3
  <2>2. PICK b \in S : Rank(b, S) = j /\ p[j] = lru[b]
    BY <1>3
  <2>3. a = b
    BY <1>6, <1>10, <2>1, <2>2 DEF Distinct
  <2> QED BY <2>1, <2>2, <2>3
<1>11. ASSUME NEW i \in 1..c, NEW j \in 1..l PROVE p[i] # keys[j]
  <2>1. PICK a \in S : p[i] = lru[a]
    BY <1>3
  <2> QED BY <1>2, <1>6, <2>1 DEF InSeq
<1>12. Distinct(lru')
  <2> SUFFICES ASSUME NEW i \in 1..(c + l), NEW j \in 1..(c + l), lru'[i] = lru'[j] PROVE i = j
    BY <1>8 DEF Distinct
  <2>1. CASE i \in 1..c /\ j \in 1..c
    BY <1>9, <1>10, <2>1
  <2>2. CASE i \in 1..c /\ j \notin 1..c
    BY <1>9, <1>11, <2>2
  <2>3. CASE i \notin 1..c /\ j \in 1..c
    BY <1>9, <1>11, <2>3
  <2>4. CASE i \notin 1..c /\ j \notin 1..c
    <3>1. /\ i - c \in 1..l /\ lru'[i] = keys[i - c]
          /\ j - c \in 1..l /\ lru'[j] = keys[j - c]
      BY <1>9, <2>4
    <3>2. i - c = j - c
      BY <1>2, <3>1 DEF Distinct
    <3> QED BY <1>1, <1>2, <3>2
  <2> QED BY <2>1, <2>2, <2>3, <2>4
<1>13. DOMAIN kind' = {lru[i] : i \in S} \cup {keys[i] : i \in DOMAIN keys}
  BY <1>5
<1>14. DOMAIN kind' = {lru'[i] : i \in DOMAIN lru'}
  <2>1. ASSUME NEW k \in DOMAIN kind' PROVE \E i \in 1..(c + l) : lru'[i] = k
    <3>1. CASE k \in {lru[i] : i \in S}
      <4>1. PICK a \in S : k = lru[a]
        BY <3>1
      <4>2. PICK n \in 1..c : p[n] = lru[a]
        BY <1>3
      <4> QED BY <1>9, <4>1, <4>2
    <3>2. CASE k \in {keys[i] : i \in DOMAIN keys}
      <4>1. PICK a \in 1..l : k = keys[a]
        BY <1>2, <3>2
      <4> QED BY <1>9, <4>1
    <3> QED BY <1>13, <3>1, <3>2
  <2>2. ASSUME NEW i \in 1..(c + l) PROVE lru'[i] \in DOMAIN kind'
    <3>1. CASE i \in 1..c
      <4>1. PICK a \in S : p[i] = lru[a]
        BY <1>3, <3>1
      <4> QED BY <1>9, <1>13, <3>1, <4>1
    <3>2. CASE i \notin 1..c
      <4>1. i - c \in DOMAIN keys /\ lru'[i] = keys[i - c]
        BY <1>2, <1>9, <3>2
      <4> QED BY <1>13, <4>1
    <3> QED BY <3>1, <3>2
  <2> QED BY <1>8, <2>1, <2>2
<1>15. ASSUME NEW k \in DOMAIN kind'
       PROVE  \/ k \in DOMAIN kind /\ kind'[k] = kinds[k]
              \/ k \notin DOMAIN kind /\ kind'[k] = "pending" /\ InSeq(k, keys)
  <2>1. kind'[k] = IF k \in DOMAIN kind THEN kinds[k] ELSE "pending"
    BY <1>5, <1>13
  <2>2. CASE k \notin DOMAIN kind
    <3>1. \A i \in S : lru[i] # k
      BY <1>6, <2>2
    <3>2. PICK i \in DOMAIN keys : keys[i] = k
      BY <1>13, <3>1
    <3> QED BY <2>1, <2>2, <3>2 DEF InSeq
  <2> QED BY <2>1, <2>2
<1>16. \A i \in DOMAIN keys : keys[i] \in DOMAIN kind'
  BY <1>13
<1>17. Len(lru') =< CacheBlocks
  BY <1>1, <1>7
<1> QED BY <1>7, <1>12, <1>14, <1>15, <1>16, <1>17

(* Prepared blocks that wait for a use, and those of the job that runs. *)
Waiting == {k \in DOMAIN kind : kind[k] = "speculative"}
InFlight == IF gpu.kind = "speculative" THEN Len(gpu.computed) ELSE 0

AccountInv ==
    /\ stats.useful + Cardinality(Waiting) + InFlight =< stats.computed
    /\ stats.computed =< Budget
    /\ stats.obsolete + InFlight =< stats.computed /\ stats.late + InFlight =< stats.computed

CacheInv ==
    /\ lru \in Seq(Keys) /\ \A k \in DOMAIN kind : kind[k] \in Kinds
    /\ CacheSound
    /\ AccountInv

\* Initially the cache is empty and nothing is counted.
LEMMA InitCache == Init => CacheInv
<1> SUFFICES ASSUME Init PROVE CacheInv
  OBVIOUS
<1>1. lru = <<>> /\ kind = << >> /\ gpu = Idle
  BY DEF Init
<1>2. stats.computed = 0 /\ stats.useful = 0 /\ stats.obsolete = 0 /\ stats.late = 0
  BY DEF Init
<1>3. DOMAIN kind = {} /\ DOMAIN lru = {} /\ lru \in Seq(Keys) /\ Len(lru) = 0
  BY <1>1
<1>4. Waiting = {} /\ Cardinality(Waiting) = 0
  BY <1>3, FS_EmptySet DEF Waiting
<1>5. gpu.kind = "idle" /\ InFlight = 0 /\ JobKeys = <<>>
  BY <1>1 DEF Idle, InFlight, JobKeys
<1>6. CacheBlocks \in Nat /\ Budget \in Nat
  BY HeadroomConstants
<1>7. CacheSound
  BY <1>3, <1>5, <1>6 DEF CacheSound
<1>8. AccountInv
  BY <1>2, <1>4, <1>5, <1>6 DEF AccountInv
<1> QED BY <1>3, <1>7, <1>8 DEF CacheInv

\* What the invariant says of the cache.
LEMMA CacheFacts ==
  ASSUME TypeInv, CacheInv
  PROVE  /\ lru \in Seq(Keys) /\ Distinct(lru) /\ Len(lru) =< CacheBlocks
         /\ DOMAIN kind = {lru[i] : i \in DOMAIN lru}
         /\ IsFiniteSet(DOMAIN kind) /\ IsFiniteSet(Waiting) /\ Cardinality(Waiting) \in Nat
         /\ InFlight \in Nat
         /\ gpu = Idle => InFlight = 0 /\ \A k \in DOMAIN kind : kind[k] # "pending"
<1>1. /\ lru \in Seq(Keys) /\ Distinct(lru) /\ Len(lru) =< CacheBlocks
      /\ DOMAIN kind = {lru[i] : i \in DOMAIN lru}
  BY DEF CacheInv, CacheSound, Distinct
<1>2. IsFiniteSet(DOMAIN kind)
  <2> DEFINE f == [i \in DOMAIN lru |-> lru[i]]
  <2>1. f \in Surjection(DOMAIN lru, DOMAIN kind)
    BY <1>1 DEF Surjection
  <2>2. IsFiniteSet(DOMAIN lru)
    <3>1. DOMAIN lru = 1..Len(lru) /\ Len(lru) \in Nat
      BY <1>1
    <3> QED BY <3>1, UpTo
  <2> HIDE DEF f
  <2> QED BY <2>1, <2>2, FS_Surjection
<1>3. IsFiniteSet(Waiting) /\ Cardinality(Waiting) \in Nat
  <2>1. Waiting \in SUBSET DOMAIN kind
    BY DEF Waiting
  <2> QED BY <1>2, <2>1, FS_Subset, FS_CardinalityType
<1>4. InFlight \in Nat
  BY Jobs DEF InFlight
<1>5. ASSUME gpu = Idle PROVE InFlight = 0 /\ \A k \in DOMAIN kind : kind[k] # "pending"
  <2>1. gpu.kind = "idle"
    BY <1>5 DEF Idle
  <2>2. InFlight = 0 /\ JobKeys = <<>>
    BY <2>1 DEF InFlight, JobKeys
  <2> QED BY <2>2 DEF CacheInv, CacheSound, InSeq
<1> QED BY <1>1, <1>2, <1>3, <1>4, <1>5

\* Steps that leave the cache, the GPU and the counters alone.
LEMMA CacheUntouched ==
  ASSUME CacheInv, UNCHANGED <<lru, kind, gpu, stats>>
  PROVE  CacheInv'
  BY DEF CacheInv, CacheSound, AccountInv, Waiting, InFlight, JobKeys

\* Prepared blocks are used or evicted, never made, outside a preparation.
LEMMA FewerWait ==
  ASSUME TypeInv, CacheInv, Waiting' \subseteq Waiting
  PROVE  Cardinality(Waiting') \in Nat /\ Cardinality(Waiting') =< Cardinality(Waiting)
<1>1. Waiting' \in SUBSET Waiting
  OBVIOUS
<1> QED BY <1>1, CacheFacts, FS_Subset, FS_CardinalityType

\* What setting the kind of some keys does.
LEMMA KindsSet ==
  ASSUME NEW keys, NEW to
  PROVE  /\ DOMAIN SetKinds(keys, to) = DOMAIN kind
         /\ \A k \in DOMAIN kind : SetKinds(keys, to)[k] = IF InSeq(k, keys) THEN to ELSE kind[k]
  BY DEF SetKinds

\* A job that ends leaves the cache sound: all its blocks are there, none is pending.
LEMMA JobEndsSound ==
  ASSUME TypeInv, CacheInv, NEW to \in {"ordinary", "speculative"},
         kind' = SetKinds(JobKeys, to), lru' = lru, gpu' = Idle
  PROVE  /\ lru' \in Seq(Keys) /\ (\A k \in DOMAIN kind : kind[k] \in Kinds)'
         /\ CacheSound' /\ InFlight' = 0
<1>1. gpu'.kind = "idle"
  BY DEF Idle
<1>2. InFlight' = 0 /\ JobKeys' = <<>>
  BY <1>1 DEF InFlight, JobKeys
<1>3. DOMAIN kind' = DOMAIN kind
      /\ \A k \in DOMAIN kind : kind'[k] = IF InSeq(k, JobKeys) THEN to ELSE kind[k]
  BY KindsSet
<1>4. (\A k \in DOMAIN kind : kind[k] \in Kinds)'
  BY <1>3 DEF CacheInv, Kinds
<1>5. \A k \in DOMAIN kind' : kind'[k] # "pending"
  <2>1. \A k \in DOMAIN kind : kind[k] = "pending" => InSeq(k, JobKeys)
    BY DEF CacheInv, CacheSound
  <2> QED BY <1>3, <2>1
<1>6. CacheSound'
  BY <1>2, <1>3, <1>5 DEF CacheInv, CacheSound
<1> QED BY <1>2, <1>4, <1>6 DEF CacheInv

\* A request ends.
LEMMA RequestFinishedCache == HeadroomInv /\ CacheInv /\ RequestFinished => CacheInv'
<1> SUFFICES ASSUME TypeInv, CacheInv, RequestFinished PROVE CacheInv'
  BY DEF HeadroomInv
<1>1. /\ gpu.kind = "demand" /\ kind' = SetKinds(gpu.keys, "ordinary") /\ gpu' = Idle
      /\ lru' = lru /\ stats' = stats
  BY DEF RequestFinished
<1>2. JobKeys = gpu.keys
  BY <1>1 DEF JobKeys
<1>3. /\ lru' \in Seq(Keys) /\ (\A k \in DOMAIN kind : kind[k] \in Kinds)'
      /\ CacheSound' /\ InFlight' = 0
  BY <1>1, <1>2, JobEndsSound
<1>4. Waiting' \subseteq Waiting
  BY <1>1, KindsSet DEF Waiting
<1>5. Cardinality(Waiting') \in Nat /\ Cardinality(Waiting') =< Cardinality(Waiting)
  BY <1>4, FewerWait
<1>6. AccountInv'
  <2>1. /\ Cardinality(Waiting) \in Nat /\ InFlight \in Nat /\ Budget \in Nat
        /\ stats.useful \in Nat /\ stats.computed \in Nat /\ stats.obsolete \in Nat /\ stats.late \in Nat
    BY CacheFacts, HeadroomConstants DEF TypeInv, Stats
  <2>2. AccountInv
    BY DEF CacheInv
  <2> QED BY <1>1, <1>3, <1>5, <2>1, <2>2 DEF AccountInv
<1> QED BY <1>3, <1>6 DEF CacheInv

\* A preparation ends: its blocks wait for a use.
LEMMA PreparationFinishedCache == HeadroomInv /\ CacheInv /\ PreparationFinished => CacheInv'
<1> SUFFICES ASSUME HeadroomInv, TypeInv, CacheInv, PreparationFinished PROVE CacheInv'
  BY DEF HeadroomInv
<1> DEFINE n == Len(gpu.computed)
           o == IF Obsolete(gpu) THEN n ELSE 0
           l == IF now > intents[gpu.workflow].readyAt THEN n ELSE 0
<1>1. /\ gpu.kind = "speculative" /\ kind' = SetKinds(gpu.computed, "speculative") /\ gpu' = Idle
      /\ lru' = lru /\ stats' = [stats EXCEPT !.obsolete = @ + o, !.late = @ + l]
  BY DEF PreparationFinished
<1>2. JobKeys = gpu.computed /\ InFlight = n
  BY <1>1 DEF JobKeys, InFlight
<1>3. gpu.computed \in Seq(Keys) /\ n \in Nat /\ DOMAIN gpu.computed = 1..n
  BY <1>1, Jobs
<1>4. /\ lru' \in Seq(Keys) /\ (\A k \in DOMAIN kind : kind[k] \in Kinds)'
      /\ CacheSound' /\ InFlight' = 0
  BY <1>1, <1>2, JobEndsSound
<1>5. Cardinality(Waiting') \in Nat /\ Cardinality(Waiting') =< Cardinality(Waiting) + n
  <2> DEFINE R == {gpu.computed[i] : i \in 1..n}
             f == [i \in 1..n |-> gpu.computed[i]]
  <2>1. f \in Surjection(1..n, R) /\ IsFiniteSet(1..n) /\ Cardinality(1..n) = n
    BY <1>3, UpTo DEF Surjection
  <2>2. IsFiniteSet(R) /\ Cardinality(R) =< n
    <3> HIDE DEF f, R
    <3> QED BY <2>1, FS_Surjection
  <2>3. Waiting' \in SUBSET (Waiting \cup R)
    <3>1. \A k \in DOMAIN kind : InSeq(k, gpu.computed) => k \in R
      BY <1>3 DEF InSeq
    <3> HIDE DEF R
    <3> QED BY <1>1, <3>1, KindsSet DEF Waiting
  <2> HIDE DEF R, f, n
  <2>4. /\ IsFiniteSet(Waiting \cup R) /\ IsFiniteSet(Waiting \cap R)
        /\ Cardinality(Waiting \cup R) = Cardinality(Waiting) + Cardinality(R) - Cardinality(Waiting \cap R)
    BY <2>2, CacheFacts, FS_Union, FS_Intersection
  <2>5. IsFiniteSet(Waiting') /\ Cardinality(Waiting') =< Cardinality(Waiting \cup R)
    BY <2>3, <2>4, FS_Subset
  <2>6. /\ Cardinality(Waiting') \in Nat /\ Cardinality(Waiting) \in Nat /\ Cardinality(R) \in Nat
        /\ Cardinality(Waiting \cap R) \in Nat
    BY <2>2, <2>4, <2>5, CacheFacts, FS_CardinalityType
  <2> QED BY <1>3, <2>2, <2>4, <2>5, <2>6
<1>6. o \in 0..n /\ l \in 0..n
  BY <1>3
<1> HIDE DEF o, l
<1>7. AccountInv'
  <2>1. /\ Cardinality(Waiting) \in Nat /\ Budget \in Nat /\ stats \in Stats
        /\ stats.useful \in Nat /\ stats.computed \in Nat /\ stats.obsolete \in Nat /\ stats.late \in Nat
    BY CacheFacts, HeadroomConstants DEF TypeInv, Stats
  <2>2. /\ stats'.useful = stats.useful /\ stats'.computed = stats.computed
        /\ stats'.obsolete = stats.obsolete + o /\ stats'.late = stats.late + l
    BY <1>1, <2>1 DEF Stats
  <2>3. AccountInv
    BY DEF CacheInv
  <2>4. /\ stats.useful + Cardinality(Waiting) + n =< stats.computed
        /\ stats.obsolete + n =< stats.computed /\ stats.late + n =< stats.computed
        /\ stats.computed =< Budget
    BY <1>2, <2>3 DEF AccountInv
  <2> HIDE DEF n
  <2>5. stats'.useful + Cardinality(Waiting') + InFlight' =< stats'.computed
    BY <1>3, <1>4, <1>5, <2>1, <2>2, <2>4
  <2>6. /\ stats'.obsolete + InFlight' =< stats'.computed
        /\ stats'.late + InFlight' =< stats'.computed
    <3>1. \A x, y, z, t \in Nat : y \in 0..z /\ x + z =< t => (x + y) + 0 =< t
      OBVIOUS
    <3>2. o \in Nat /\ l \in Nat
      BY <1>3, <1>6
    <3>3. (stats.obsolete + o) + 0 =< stats.computed /\ (stats.late + l) + 0 =< stats.computed
      BY <1>3, <1>6, <2>1, <2>4, <3>1, <3>2
    <3> QED BY <1>4, <2>2, <3>3
  <2>7. stats'.computed =< Budget
    BY <2>2, <2>4
  <2> QED BY <2>5, <2>6, <2>7 DEF AccountInv
<1> QED BY <1>4, <1>7 DEF CacheInv

\* A request starts: the prepared blocks it finds are used and never counted again.
LEMMA DispatchRequestCache == HeadroomInv /\ CacheInv /\ DispatchRequest => CacheInv'
<1> SUFFICES ASSUME HeadroomInv, TypeInv, CacheInv, DispatchRequest PROVE CacheInv'
  BY DEF HeadroomInv
<1>1. PICK n \in Runnable : StartRequest(queue[n])
  BY DEF DispatchRequest
<1> DEFINE w == queue[n]
<1>2. gpu = Idle
  BY DEF DispatchRequest, Busy
<1>3. w \in Workflows /\ Started(w)
  <2>1. queue \in Seq(Workflows) /\ n \in DOMAIN queue
    BY DEF TypeInv, Runnable
  <2> QED BY <2>1 DEF HeadroomInv, WorkInv
<1>4. StartRequest(w)
  BY <1>1
<1> HIDE DEF w
<1> DEFINE keys == Request(w)
           hit == Hit(w)
           kinds == SetKinds(hit, "ordinary")
           fresh == Fresh(w)
           f == Cardinality(fresh)
<1>5. /\ stats' = [stats EXCEPT !.useful = @ + f] /\ Reserve(keys, kinds)
      /\ gpu' = [kind |-> "demand", workflow |-> w, keys |-> keys]
  BY <1>4, RequestStarts
<1>6. /\ keys \in KeyLists /\ hit \in Seq(Keys) /\ IsFiniteSet(fresh) /\ f \in Nat
      /\ Prompt(w) \in KeyLists /\ Len(hit) \in 0..Len(Prompt(w))
      /\ \A i \in 1..Len(hit) : hit[i] = Prompt(w)[i]
      /\ Len(hit) = CachedPrefix(Prompt(w), kind)
  BY <1>3, RequestShape
<1>7. DOMAIN kinds = DOMAIN kind
      /\ \A k \in DOMAIN kind : kinds[k] = IF InSeq(k, hit) THEN "ordinary" ELSE kind[k]
  BY KindsSet
<1>8. fresh = {i \in DOMAIN hit : kind[hit[i]] = "speculative"}
  BY DEF Fresh
<1> HIDE DEF keys, hit, kinds, fresh
<1>9. /\ lru' \in Seq(Keys) /\ Len(lru') =< CacheBlocks /\ Distinct(lru')
      /\ DOMAIN kind' = {lru'[i] : i \in DOMAIN lru'}
      /\ \A k \in DOMAIN kind' :
            \/ k \in DOMAIN kind /\ kind'[k] = kinds[k]
            \/ k \notin DOMAIN kind /\ kind'[k] = "pending" /\ InSeq(k, keys)
      /\ \A i \in DOMAIN keys : keys[i] \in DOMAIN kind'
  BY <1>5, <1>6, <1>7, CacheFacts, ReservationSound
<1>10. gpu'.kind = "demand" /\ gpu'.keys = keys
  BY <1>5
<1>11. JobKeys' = keys /\ InFlight' = 0
  BY <1>10 DEF JobKeys, InFlight
<1>12. \A k \in DOMAIN kind' : kind'[k] \in Kinds
  <2>1. \A k \in DOMAIN kind : kind[k] \in Kinds
    BY DEF CacheInv
  <2> QED BY <1>7, <1>9, <2>1 DEF Kinds
<1>13. \A k \in DOMAIN kind' : kind'[k] = "pending" => InSeq(k, keys)
  <2>1. \A k \in DOMAIN kind : kind[k] # "pending"
    BY <1>2, CacheFacts
  <2> QED BY <1>7, <1>9, <2>1
<1>14. CacheSound'
  BY <1>9, <1>11, <1>13 DEF CacheSound, Distinct
<1>15. \A i \in DOMAIN hit : hit[i] \in DOMAIN kind
  <2>1. Prompt(w) \in Seq(Keys)
    BY <1>6, KeysDiffer
  <2>2. \A i \in 1..CachedPrefix(Prompt(w), kind) : Cached(Prompt(w)[i], kind)
    BY <2>1, PrefixCached
  <2>3. DOMAIN hit = 1..Len(hit)
    BY <1>6
  <2> QED BY <1>6, <2>2, <2>3 DEF Cached
<1>16. \A i, j \in DOMAIN hit : hit[i] = hit[j] => i = j
  <2>1. Distinct(Prompt(w)) /\ DOMAIN Prompt(w) = 1..Len(Prompt(w)) /\ Len(Prompt(w)) \in Nat
    BY <1>6, KeysDiffer
  <2>2. DOMAIN hit = 1..Len(hit) /\ \A i \in 1..Len(hit) : i \in 1..Len(Prompt(w))
    BY <1>6, <2>1
  <2> QED BY <1>6, <2>1, <2>2 DEF Distinct
<1>17. /\ Cardinality(Waiting') \in Nat
       /\ Cardinality(Waiting') + f =< Cardinality(Waiting)
  <2> DEFINE U == {hit[i] : i \in fresh}
             g == [i \in fresh |-> hit[i]]
  <2>1. g \in Bijection(fresh, U)
    <3>1. g \in Surjection(fresh, U)
      BY DEF Surjection
    <3>2. g \in Injection(fresh, U)
      BY <1>8, <1>16 DEF Injection, IsInjective
    <3> QED BY <3>1, <3>2 DEF Bijection
  <2>2. IsFiniteSet(U) /\ Cardinality(U) = f
    <3>1. ExistsBijection(fresh, U)
      <4> HIDE DEF g, U
      <4> QED BY <2>1 DEF ExistsBijection
    <3> HIDE DEF U
    <3> QED BY <1>6, <3>1, FS_Bijection
  <2>3. U \subseteq Waiting
    BY <1>8, <1>15 DEF Waiting
  <2>4. Waiting' \in SUBSET (Waiting \ U)
    <3>1. \A k \in U : InSeq(k, hit)
      BY <1>8 DEF InSeq
    <3>2. ASSUME NEW k \in Waiting' PROVE k \in Waiting /\ k \notin U
      <4>1. k \in DOMAIN kind' /\ kind'[k] = "speculative"
        BY <3>2 DEF Waiting
      <4>2. k \in DOMAIN kind /\ kinds[k] = "speculative"
        BY <1>9, <4>1
      <4>3. kind[k] = "speculative" /\ ~InSeq(k, hit)
        BY <1>7, <4>2
      <4> HIDE DEF U
      <4> QED BY <3>1, <4>2, <4>3 DEF Waiting
    <3> HIDE DEF U
    <3> QED BY <3>2
  <2> HIDE DEF U, g, f
  <2>5. /\ IsFiniteSet(Waiting \ U)
        /\ Cardinality(Waiting \ U) = Cardinality(Waiting) - Cardinality(Waiting \cap U)
    BY CacheFacts, FS_Difference
  <2>6. Waiting \cap U = U
    BY <2>3
  <2>7. IsFiniteSet(Waiting') /\ Cardinality(Waiting') =< Cardinality(Waiting \ U)
    BY <2>4, <2>5, FS_Subset
  <2>8. Cardinality(Waiting') \in Nat /\ Cardinality(Waiting) \in Nat
    BY <2>7, CacheFacts, FS_CardinalityType
  <2>9. Cardinality(Waiting \ U) = Cardinality(Waiting) - f
    BY <2>2, <2>5, <2>6
  <2> QED BY <1>6, <2>7, <2>8, <2>9
<1> HIDE DEF f
<1>18. AccountInv'
  <2>1. /\ Cardinality(Waiting) \in Nat /\ Budget \in Nat /\ stats \in Stats
        /\ stats.useful \in Nat /\ stats.computed \in Nat /\ stats.obsolete \in Nat /\ stats.late \in Nat
    BY CacheFacts, HeadroomConstants DEF TypeInv, Stats
  <2>2. /\ stats'.useful = stats.useful + f /\ stats'.computed = stats.computed
        /\ stats'.obsolete = stats.obsolete /\ stats'.late = stats.late
    BY <1>5, <2>1 DEF Stats
  <2>3. InFlight = 0 /\ AccountInv
    BY <1>2, CacheFacts DEF CacheInv
  <2>4. /\ stats.useful + Cardinality(Waiting) =< stats.computed /\ stats.computed =< Budget
        /\ stats.obsolete =< stats.computed /\ stats.late =< stats.computed
    BY <2>1, <2>3 DEF AccountInv
  <2>5. stats'.useful + Cardinality(Waiting') + InFlight' =< stats'.computed
    BY <1>6, <1>11, <1>17, <2>1, <2>2, <2>4
  <2>6. /\ stats'.obsolete + InFlight' =< stats'.computed
        /\ stats'.late + InFlight' =< stats'.computed
    BY <1>11, <2>1, <2>2, <2>4
  <2> QED BY <2>2, <2>4, <2>5, <2>6 DEF AccountInv
<1> QED BY <1>9, <1>12, <1>14, <1>18 DEF CacheInv

\* A preparation starts: what it computes is charged before it is there.
LEMMA DispatchPreparationCache == HeadroomInv /\ CacheInv /\ DispatchPreparation => CacheInv'
<1> SUFFICES ASSUME HeadroomInv, TypeInv, CacheInv, DispatchPreparation PROVE CacheInv'
  BY DEF HeadroomInv
<1>1. PICK n \in Candidates : StartPreparation(order[n], Rescheduled(SubSeq(order, 1, n - 1)))
  BY DEF DispatchPreparation
<1> DEFINE w == order[n]
<1>2. gpu = Idle /\ Remaining > 0
  BY DEF DispatchPreparation, Busy
<1>3. w \in Workflows /\ Wanted(w)
  <2>1. order \in Seq(Workflows) /\ n \in DOMAIN order /\ Wanted(order[n])
    BY DEF TypeInv, Candidates
  <2> QED BY <2>1
<1>4. \E wakeups : StartPreparation(w, wakeups)
  BY <1>1, Zenon
<1> HIDE DEF w
<1>5. intents[w] \in Intents
  BY <1>3 DEF Wanted, TypeInv, Unannounced
<1> DEFINE all == intents[w].keys
           r == ReadyKeys(w)
           c == Count(w)
           keys == SubSeq(all, 1, r + c)
           new == Computed(w)
<1>6. /\ Reserve(keys, kind) /\ stats' = [stats EXCEPT !.computed = @ + c]
      /\ gpu' = [kind |-> "speculative", workflow |-> w, revision |-> intents[w].revision,
                 computed |-> new]
  BY <1>4, PreparationStarts
<1>7. /\ r \in Nat /\ c \in Nat /\ r + c =< Len(all) /\ c =< Remaining
      /\ new \in Seq(Keys) /\ Len(new) = c /\ \A i \in 1..c : new[i] = all[r + i]
  BY <1>2, <1>3, <1>5, ChunkShape
<1>8. all \in KeyLists
  BY <1>5 DEF Intents
<1>9. all \in Seq(Keys) /\ Len(all) \in Nat /\ Len(all) =< CacheBlocks /\ \A i \in DOMAIN all : Len(all[i]) = i
  BY <1>8 DEF KeyLists
<1>10. \A i \in 1..r : Cached(all[i], kind)
  BY <1>9, PrefixCached DEF ReadyKeys
<1> HIDE DEF all, r, c, new
<1>11. keys \in Seq(Keys) /\ Len(keys) = r + c /\ \A i \in 1..(r + c) : keys[i] = all[i]
  BY <1>7, <1>9
<1>12. DOMAIN keys = 1..(r + c) /\ DOMAIN all = 1..Len(all)
  BY <1>9, <1>11
<1> HIDE DEF keys
<1>13. keys \in KeyLists
  <2>1. \A i \in 1..(r + c) : i \in 1..Len(all)
    BY <1>7, <1>9
  <2>2. \A i \in DOMAIN keys : Len(keys[i]) = i
    BY <1>9, <1>11, <1>12, <2>1
  <2>3. Len(keys) =< CacheBlocks
    <3>1. CacheBlocks \in Nat /\ r + c \in Nat
      BY <1>7, HeadroomConstants
    <3> QED BY <1>7, <1>9, <1>11, <3>1
  <2> QED BY <1>11, <2>2, <2>3 DEF KeyLists
<1>14. /\ lru' \in Seq(Keys) /\ Len(lru') =< CacheBlocks /\ Distinct(lru')
       /\ DOMAIN kind' = {lru'[i] : i \in DOMAIN lru'}
       /\ \A k \in DOMAIN kind' :
             \/ k \in DOMAIN kind /\ kind'[k] = kind[k]
             \/ k \notin DOMAIN kind /\ kind'[k] = "pending" /\ InSeq(k, keys)
       /\ \A i \in DOMAIN keys : keys[i] \in DOMAIN kind'
  BY <1>6, <1>13, CacheFacts, ReservationSound
<1>15. gpu'.kind = "speculative" /\ gpu'.computed = new
  BY <1>6
<1>16. JobKeys' = new /\ InFlight' = c
  BY <1>7, <1>15 DEF JobKeys, InFlight
<1>17. \A k \in DOMAIN kind' : kind'[k] \in Kinds
  BY <1>14 DEF CacheInv, Kinds
<1>18. DOMAIN new = 1..c
  BY <1>7
<1>19. ASSUME NEW k \in DOMAIN kind', kind'[k] = "pending" PROVE InSeq(k, new)
  <2>1. \A x \in DOMAIN kind : kind[x] # "pending"
    BY <1>2, CacheFacts
  <2>2. k \notin DOMAIN kind /\ InSeq(k, keys)
    BY <1>14, <1>19, <2>1
  <2>3. PICK i \in 1..(r + c) : all[i] = k
    BY <1>11, <1>12, <2>2 DEF InSeq
  <2>4. ~(i \in 1..r)
    BY <1>10, <2>2, <2>3 DEF Cached
  <2>5. i - r \in 1..c /\ r + (i - r) = i
    BY <1>7, <2>4
  <2>6. new[i - r] = k
    BY <1>7, <2>3, <2>5
  <2> QED BY <1>18, <2>5, <2>6 DEF InSeq
<1>20. \A i \in DOMAIN new : new[i] \in DOMAIN kind'
  <2> TAKE i \in DOMAIN new
  <2>1. i \in 1..c /\ r + i \in 1..(r + c)
    BY <1>7, <1>18
  <2>2. new[i] = keys[r + i]
    BY <1>7, <1>11, <2>1
  <2> QED BY <1>12, <1>14, <2>1, <2>2
<1>21. CacheSound'
  BY <1>14, <1>16, <1>19, <1>20 DEF CacheSound, Distinct
<1>22. Waiting' \subseteq Waiting
  BY <1>14 DEF Waiting
<1>23. Cardinality(Waiting') \in Nat /\ Cardinality(Waiting') =< Cardinality(Waiting)
  BY <1>22, FewerWait
<1>24. AccountInv'
  <2>1. /\ Cardinality(Waiting) \in Nat /\ Budget \in Nat /\ stats \in Stats
        /\ stats.useful \in Nat /\ stats.computed \in Nat /\ stats.obsolete \in Nat /\ stats.late \in Nat
    BY CacheFacts, HeadroomConstants DEF TypeInv, Stats
  <2>2. /\ stats'.computed = stats.computed + c /\ stats'.useful = stats.useful
        /\ stats'.obsolete = stats.obsolete /\ stats'.late = stats.late
    BY <1>6, <2>1 DEF Stats
  <2>3. InFlight = 0 /\ AccountInv
    BY <1>2, CacheFacts DEF CacheInv
  <2>4. /\ stats.useful + Cardinality(Waiting) =< stats.computed /\ stats.computed =< Budget
        /\ stats.obsolete =< stats.computed /\ stats.late =< stats.computed
    BY <2>1, <2>3 DEF AccountInv
  <2>5. c =< Budget - stats.computed
    BY <1>7 DEF Remaining
  <2>6. stats'.useful + Cardinality(Waiting') + InFlight' =< stats'.computed
    BY <1>7, <1>16, <1>23, <2>1, <2>2, <2>4
  <2>7. /\ stats'.obsolete + InFlight' =< stats'.computed
        /\ stats'.late + InFlight' =< stats'.computed
    BY <1>7, <1>16, <2>1, <2>2, <2>4
  <2>8. stats'.computed =< Budget
    BY <1>7, <2>1, <2>2, <2>5
  <2> QED BY <2>6, <2>7, <2>8 DEF AccountInv
<1> QED BY <1>14, <1>17, <1>21, <1>24 DEF CacheInv

\* Every step keeps the cache and the accounts.
LEMMA NextCache == HeadroomInv /\ CacheInv /\ [Next]_vars => CacheInv'
<1> SUFFICES ASSUME HeadroomInv, CacheInv, [Next]_vars PROVE CacheInv'
  OBVIOUS
<1>1. CASE UNCHANGED vars
  BY <1>1, CacheUntouched DEF vars, cacheVars
<1>2. ASSUME Advance \/ Arrive \/ Deadline \/ Ready \/ Update \/ Wake \/ DispatchNothing
      PROVE  CacheInv'
  BY <1>2, CacheUntouched DEF Advance, Arrive, Deadline, Ready, Update, Wake, DispatchNothing, cacheVars
<1> QED BY <1>1, <1>2, RequestFinishedCache, PreparationFinishedCache, DispatchRequestCache,
        DispatchPreparationCache DEF Next, Finished

(***************************************************************************)
(* The cache never holds more than its capacity, no key twice and no       *)
(* reservation but the running job's; a prepared block is used at most     *)
(* once, and what was computed stays within the budget.  (Cache, reserve,  *)
(* run_policy)                                                             *)
(***************************************************************************)
THEOREM CacheAccounted == Spec => []BlocksAccounted
<1>1. HeadroomInv /\ CacheInv => BlocksAccounted
  <2> SUFFICES ASSUME HeadroomInv, CacheInv PROVE BlocksAccounted
    OBVIOUS
  <2>1. TypeInv /\ TurnInv /\ CacheSound /\ AccountInv
    BY DEF HeadroomInv, CacheInv
  <2>2. TypeOK
    <3>1. ASSUME NEW w \in Workflows
          PROVE  /\ state[w].status \in {"running", "completed", "cancelled", "timeout"}
                 /\ state[w].index \in 0..(TurnsOf[w] - 1)
      <4>1. state[w].status \in Statuses /\ state[w].index \in Nat /\ state[w].index =< TurnsOf[w] - 1
        BY <2>1 DEF TypeInv, TurnInv, States
      <4>2. TurnsOf[w] \in Nat
        BY HeadroomConstants
      <4> QED BY <4>1, <4>2 DEF Statuses
    <3>2. gpu.kind \in {"idle", "demand", "speculative"}
      BY <2>1, Jobs
    <3>3. \A k \in DOMAIN kind : kind[k] \in {"pending", "ordinary", "speculative"}
      BY DEF CacheInv, Kinds
    <3>4. \A i \in DOMAIN queue : queue[i] \in Workflows
      BY <2>1 DEF TypeInv
    <3>5. now \in 0..ObservationEnd /\ open \in BOOLEAN
          /\ stats \in [computed : Nat, useful : Nat, obsolete : Nat, late : Nat]
      BY <2>1 DEF TypeInv, Stats
    <3> QED BY <3>1, <3>2, <3>3, <3>4, <3>5 DEF TypeOK
  <2>3. SpeculationBalances
    <3>1. /\ InFlight \in Nat
          /\ stats.computed \in Nat /\ stats.obsolete \in Nat /\ stats.late \in Nat
      BY <2>1, CacheFacts DEF TypeInv, Stats
    <3>2. stats.obsolete =< stats.computed /\ stats.late =< stats.computed
      BY <2>1, <3>1 DEF AccountInv
    <3> QED BY <2>1, <3>2 DEF AccountInv, SpeculationBalances, Waiting, InFlight
  <2> QED BY <2>1, <2>2, <2>3 DEF BlocksAccounted
<1>2. Init => HeadroomInv /\ CacheInv
  BY InitHeadroom, InitCache
<1>3. HeadroomInv /\ CacheInv /\ [Next]_vars => (HeadroomInv /\ CacheInv)'
  BY NextHeadroom, NextCache
<1> QED BY <1>1, <1>2, <1>3, PTL DEF Spec
=============================================================================

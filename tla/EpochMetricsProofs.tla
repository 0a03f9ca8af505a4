------------------------- MODULE EpochMetricsProofs -------------------------
(***************************************************************************)
(* What a valid report of an epoch's metrics is worth, for any number of   *)
(* requests, restarts, samples and failed scrapes.                         *)
(***************************************************************************)
EXTENDS EpochMetrics, SequenceTheorems, FiniteSetTheorems, TLAPS

SampleSet == [phase : {"before", "during", "drain"}, generation : Nat, count : Nat,
              running : Nat, begun : Nat]
IdSet == Nat \cup {None}
Brackets == [first : IdSet, last : IdSet]
Scrapes == [stage : {"none", "first", "get", "last"},
            phase : {"none", "before", "during", "drain"},
            first : IdSet, metrics : SampleSet \cup {None}]

TypeOK ==
    /\ settings \in Settings
    /\ server \in [generation : Nat, running : Nat, finished : Nat, begun : Nat]
    /\ monitor \in [id : Nat, pinned : Nat] /\ monitor.pinned =< server.generation
    /\ pc \in {"before", "body", "stopping", "drain", "pause", "done"}
    /\ errors \in BOOLEAN
    /\ scrape \in [Tasks -> Scrapes]
    /\ samples \in Seq(SampleSet)
    /\ identities \in Seq(Brackets)
    /\ before \in SampleSet \cup {None}
    /\ quiet \in Nat

(***************************************************************************)
(* The inductive invariant.                                                *)
(***************************************************************************)
Busy(t) == scrape[t].stage # "none"

(* One scrape at a time, and only where its task may be in one. *)
OneScrape ==
    /\ Busy("main") => pc \in {"before", "drain"} /\ scrape["main"].phase = pc
    /\ Busy("sampler") =>
          pc \in {"body", "stopping"} /\ task = "scraping" /\ scrape["sampler"].phase = "during"
    /\ pc = "before" => task = "none"
    /\ pc \in {"drain", "pause", "done"} => task = "ended"

(* Samples come in the order of their phases. *)
PhasesSoFar ==
    CASE pc = "before" -> {"before"}
      [] pc \in {"body", "stopping"} -> {"before", "during"}
      [] OTHER -> {"before", "during", "drain"}

InOrder ==
    /\ \A i \in DOMAIN samples : samples[i].phase \in PhasesSoFar
    /\ \A i, j \in DOMAIN samples : i < j => Rank[samples[i].phase] =< Rank[samples[j].phase]

(* Within one server process counts only grow, and no request is lost. *)
Served(s) == s.begun - s.running - s.count

SameProcess(s, t) == s.count =< t.count /\ Served(s) = Served(t)

TrueOfServer ==
    \A i \in DOMAIN samples :
        /\ samples[i].generation =< server.generation
        /\ samples[i].generation = server.generation => SameProcess(samples[i], Metrics("drain"))

OneStory(rows) ==
    \A i, j \in DOMAIN rows :
        i < j /\ rows[i].generation = rows[j].generation => SameProcess(rows[i], rows[j])

(* The sample of a scrape that waits for its second identity is the last. *)
Pending(t) == scrape[t].stage = "last"
Newest == samples[Len(samples)]

FirstSample ==
    /\ \A t \in Tasks : (Pending(t) /\ scrape[t].metrics # None) =>
          /\ samples # <<>> /\ scrape[t].metrics = Newest
          /\ scrape[t].metrics.phase = scrape[t].phase
    /\ pc = "before" => before = None
    /\ (pc = "before" /\ ~(Pending("main") /\ scrape["main"].metrics # None)) => samples = <<>>
    /\ pc = "before" => Len(samples) =< 1
    /\ before # None => samples # <<>> /\ samples[1] = before /\ before.phase = "before"

(* Two scrapes whose four identities agree saw one process. *)
SameBracket(rows, ids) ==
    \A i, j \in DOMAIN ids :
        (ids[i].first = ids[i].last /\ ids[i] = ids[j]) =>
            rows[i].generation = rows[j].generation

(* With no error so far every sample has its bracket of identities. *)
Good == settings.identity /\ ~errors /\ (pc = "done" => result.reported)

Known(id) == id \in Nat /\ id =< monitor.id

Whole(b, s) == b.first = monitor.id /\ b.last = monitor.id => s.generation = monitor.pinned

HasBracket == Len(samples) = Len(identities) + IF \E t \in Tasks : Pending(t) THEN 1 ELSE 0

FirstKnown ==
    \A t \in Tasks :
        /\ scrape[t].stage \in {"get", "last"} => Known(scrape[t].first)
        /\ Pending(t) =>
              /\ scrape[t].metrics # None
              /\ scrape[t].first = monitor.id => monitor.pinned =< Newest.generation

BracketKnown ==
    \A i \in DOMAIN identities :
        /\ Known(identities[i].first) /\ Known(identities[i].last)
        /\ Whole(identities[i], samples[i])

Bracketed == Good => HasBracket /\ FirstKnown /\ BracketKnown /\ SameBracket(samples, identities)

Reported == result.reported => pc = "done"

Verdict == ValidIsOneProcess /\ ValidDeltaIsTheWork /\ CutShortIsInvalid

IInv ==
    /\ TypeOK /\ OneScrape /\ InOrder /\ TrueOfServer /\ OneStory(samples) /\ FirstSample
    /\ Bracketed /\ Reported /\ Verdict

---------------------------------------------------------------------------
(***************************************************************************)
(* What _report makes of a log.                                            *)
(***************************************************************************)

(* If at most one identity was seen, any two known ones are the same. *)
LEMMA OneIdentity ==
    ASSUME NEW ids \in Seq(Brackets), ~(Cardinality(IdentityValues(ids) \ {None}) > 1),
           None \notin IdentityValues(ids),
           NEW x \in IdentityValues(ids), NEW y \in IdentityValues(ids)
    PROVE  x = y
<1> DEFINE D == 1 .. Len(ids)
           A == {ids[i].first : i \in D}
           B == {ids[i].last : i \in D}
<1>1. Len(ids) \in Nat /\ DOMAIN ids = D
  BY LenProperties
<1>2. IsFiniteSet(D)
  BY <1>1, FS_Interval
<1>3. IsFiniteSet(A)
  <2> DEFINE f == [i \in D |-> ids[i].first]
  <2>1. f \in Surjection(D, A)
    BY DEF Surjection
  <2> QED
    BY <1>2, <2>1, FS_Surjection
<1>4. IsFiniteSet(B)
  <2> DEFINE f == [i \in D |-> ids[i].last]
  <2>1. f \in Surjection(D, B)
    BY DEF Surjection
  <2> QED
    BY <1>2, <2>1, FS_Surjection
<1>5. IdentityValues(ids) = A \cup B /\ IdentityValues(ids) \ {None} = A \cup B
  BY <1>1 DEF IdentityValues
<1>6. IsFiniteSet(A \cup B) /\ Cardinality(A \cup B) \in Nat /\ ~(Cardinality(A \cup B) > 1)
  <2> HIDE DEF A, B
  <2>1. IsFiniteSet(A \cup B)
    BY <1>3, <1>4, FS_Union
  <2> QED
    BY <2>1, <1>5, FS_CardinalityType
<1>7. {x, y} \in SUBSET (A \cup B)
  BY <1>5
<1>8. IsFiniteSet({x, y}) /\ Cardinality({x, y}) =< Cardinality(A \cup B)
  BY <1>6, <1>7, FS_Subset
<1>9. Cardinality({x, y}) \in Nat
  BY <1>8, FS_CardinalityType
<1>10. Cardinality({x, y}) # 0
  BY <1>8, FS_EmptySet
<1>11. Cardinality({x, y}) = 1
  BY <1>6, <1>8, <1>9, <1>10
<1>12. PICK z : {x, y} = {z}
  BY <1>8, <1>11, FS_Singleton
<1>13. x \in {z} /\ y \in {z}
  BY <1>12
<1> QED
  BY <1>13

(* Samples of one process count the work between the first and the last. *)
LEMMA DeltaIsTrue ==
    ASSUME NEW rows \in Seq(SampleSet), rows # <<>>, OneStory(rows),
           \A i \in DOMAIN rows : rows[i].generation = rows[1].generation,
           rows[1].running = 0, rows[Len(rows)].running = 0
    PROVE  Delta(rows) = rows[Len(rows)].begun - rows[1].begun
<1>1. /\ Len(rows) \in Nat /\ DOMAIN rows = 1 .. Len(rows) /\ Len(rows) > 0
      /\ \A i \in DOMAIN rows : rows[i] \in SampleSet
  BY LenProperties, EmptySeq, ElementOfSeq
<1>2. \A i \in DOMAIN rows : Created(rows[i]) = Created(rows[1])
  BY DEF Created
<1>3. \A i \in 2 .. Len(rows) : ~(rows[i].count < rows[i - 1].count)
  <2> SUFFICES ASSUME NEW i \in 2 .. Len(rows)
               PROVE  ~(rows[i].count < rows[i - 1].count)
    OBVIOUS
  <2>1. i \in DOMAIN rows /\ i - 1 \in DOMAIN rows /\ i - 1 < i
    BY <1>1
  <2>2. rows[i - 1].count =< rows[i].count
    BY <2>1 DEF OneStory, SameProcess
  <2> QED
    BY <2>1, <2>2, <1>1 DEF SampleSet
<1>4. Delta(rows) = rows[Len(rows)].count - rows[1].count
  BY <1>2, <1>3 DEF Delta
<1>5. Served(rows[1]) = Served(rows[Len(rows)])
  <2>1. 1 \in DOMAIN rows /\ Len(rows) \in DOMAIN rows /\ (Len(rows) = 1 \/ 1 < Len(rows))
    BY <1>1
  <2> QED
    BY <2>1 DEF OneStory, SameProcess
<1>6. ASSUME NEW s \in SampleSet, NEW t \in SampleSet,
             s.running = 0, t.running = 0, Served(s) = Served(t)
      PROVE  t.count - s.count = t.begun - s.begun
  <2>1. /\ s.count \in Int /\ s.begun \in Int /\ t.count \in Int /\ t.begun \in Int
        /\ s.begun - 0 - s.count = t.begun - 0 - t.count
    BY <1>6 DEF Served, SampleSet
  <2>2. \A a, b, c, d \in Int : a - 0 - b = c - 0 - d => d - b = c - a
    OBVIOUS
  <2> QED
    BY <2>1, <2>2
<1>7. rows[1] \in SampleSet /\ rows[Len(rows)] \in SampleSet
  BY <1>1
<1> QED
  BY <1>4, <1>5, <1>6, <1>7

(* Brackets that hold one identity enclose samples of one process. *)
LEMMA BracketsAreTrue ==
    ASSUME NEW rows \in Seq(SampleSet), NEW ids \in Seq(Brackets), Len(rows) = Len(ids),
           SameBracket(rows, ids), None \notin IdentityValues(ids),
           ~(Cardinality(IdentityValues(ids) \ {None}) > 1),
           NEW i \in DOMAIN rows
    PROVE  rows[i].generation = rows[1].generation
<1>1. i \in DOMAIN ids /\ 1 \in DOMAIN ids /\ \A j \in DOMAIN ids : ids[j] \in Brackets
  BY LenProperties, ElementOfSeq
<1>2. {ids[i].first, ids[i].last, ids[1].first, ids[1].last} \subseteq IdentityValues(ids)
  BY <1>1 DEF IdentityValues
<1>3. /\ ids[i].first = ids[i].last /\ ids[i].first = ids[1].first
      /\ ids[i].first = ids[1].last
  <2>1. \A x, y \in IdentityValues(ids) : x = y
    BY OneIdentity
  <2> QED
    BY <2>1, <1>2
<1>4. ids[i] = ids[1]
  <2>1. ids[i] \in Brackets /\ ids[1] \in Brackets
    BY <1>1
  <2>2. \A b, c \in Brackets : b.first = c.first /\ b.last = c.last => b = c
    BY DEF Brackets
  <2> QED
    BY <2>1, <2>2, <1>3
<1> QED
  BY <1>1, <1>3, <1>4 DEF SameBracket

(* A log of which _report says that it is valid is about one process. *)
LEMMA ReportIsTrue ==
    ASSUME NEW rows \in Seq(SampleSet), NEW ids \in Seq(Brackets), NEW errs \in BOOLEAN,
           NEW last, NEW drained \in BOOLEAN, drained => Idle(last),
           last # None => rows # <<>> /\ last = rows[Len(rows)] /\ last.phase = "drain",
           before # None => rows # <<>> /\ before = rows[1] /\ before.phase = "before",
           OneStory(rows),
           settings.identity /\ ~errs => Len(rows) = Len(ids) /\ SameBracket(rows, ids),
           NEW report, report = Report(last, [rows |-> rows, ids |-> ids, errors |-> errs], drained),
           report.valid
    PROVE  /\ rows # <<>>
           /\ \A i \in DOMAIN rows : rows[i].generation = rows[1].generation
           /\ report.delta = rows[Len(rows)].begun - rows[1].begun
           /\ rows[1].running = 0 /\ rows[Len(rows)].running = 0
           /\ settings.identity => Len(ids) = Len(rows)
           /\ rows[1].phase = "before" /\ rows[Len(rows)].phase = "drain"
<1> DEFINE restarted == ProcessRestarted(rows) \/ Cardinality(IdentityValues(ids) \ {None}) > 1
           known == ids # <<>> /\ None \notin IdentityValues(ids)
<1>1. /\ before # None /\ last # None /\ Idle(before) /\ drained /\ ~restarted /\ ~errs
      /\ IF settings.identity THEN known ELSE rows # <<>> /\ settings.processStart
      /\ report.delta = Delta(rows)
  BY DEF Report
<1>2. /\ rows # <<>> /\ last = rows[Len(rows)] /\ before = rows[1]
      /\ rows[1].running = 0 /\ rows[Len(rows)].running = 0
      /\ rows[1].phase = "before" /\ rows[Len(rows)].phase = "drain"
  BY <1>1 DEF Idle
<1>3. settings.identity => Len(ids) = Len(rows)
  BY <1>1
<1>4. \A i \in DOMAIN rows : rows[i].generation = rows[1].generation
  <2>1. CASE settings.identity
    BY <2>1, <1>1, BracketsAreTrue
  <2>2. CASE ~settings.identity
    BY <2>2, <1>1 DEF ProcessRestarted, Start
  <2> QED
    BY <2>1, <2>2
<1>5. report.delta = rows[Len(rows)].begun - rows[1].begun
  BY <1>1, <1>2, <1>4, DeltaIsTrue
<1> QED
  BY <1>2, <1>3, <1>4, <1>5

---------------------------------------------------------------------------
(***************************************************************************)
(* The steps.                                                              *)
(***************************************************************************)

(* A scrape begins with an identity where there is a sidecar. *)
LEMMA BeginIs ==
    ASSUME settings \in Settings, NEW phase \in {"before", "during", "drain"}
    PROVE  /\ Begin(phase) \in Scrapes /\ Begin(phase).phase = phase
           /\ Begin(phase).stage = IF settings.identity THEN "first" ELSE "get"
  BY DEF Begin, NoScrape, Scrapes, IdSet

(* No scrape is one that is in no stage. *)
LEMMA NoScrapeIs == NoScrape \in Scrapes /\ NoScrape.stage = "none"
  BY DEF NoScrape, Scrapes, IdSet

(* The invariant holds at first. *)
LEMMA InitIInv == Init => IInv
<1> SUFFICES ASSUME Init PROVE IInv
  OBVIOUS
<1> USE DEF Init
<1>1. /\ scrape \in [Tasks -> Scrapes] /\ scrape["main"] = Begin("before")
      /\ scrape["sampler"] = NoScrape
  BY BeginIs, NoScrapeIs DEF Tasks
<1>2. samples \in Seq(SampleSet) /\ identities \in Seq(Brackets) /\ DOMAIN samples = {}
      /\ DOMAIN identities = {} /\ Len(samples) = 0 /\ Len(identities) = 0
  BY EmptySeq
<1>3. TypeOK
  <2>1. errors \in BOOLEAN
    OBVIOUS
  <2> QED
    BY <1>1, <1>2, <2>1 DEF TypeOK
<1>4. OneScrape
  BY <1>1, BeginIs, NoScrapeIs DEF OneScrape, Busy
<1>5. InOrder /\ TrueOfServer /\ OneStory(samples)
  BY <1>2 DEF InOrder, TrueOfServer, OneStory
<1>6. \A t \in Tasks : scrape[t].stage # "last" /\ (settings.identity => scrape[t].stage # "get")
  BY <1>1, BeginIs, NoScrapeIs DEF Tasks
<1>7. FirstSample
  BY <1>2, <1>6 DEF FirstSample, Pending
<1>8. Bracketed
  BY <1>2, <1>6 DEF Bracketed, HasBracket, FirstKnown, BracketKnown, Pending, Good, SameBracket
<1>9. Reported /\ Verdict
  BY DEF Reported, Verdict, ValidIsOneProcess, ValidDeltaIsTheWork, CutShortIsInvalid, NotStarted
<1> QED
  BY <1>3, <1>4, <1>5, <1>7, <1>8, <1>9 DEF IInv

(* The invariant speaks of nothing else. *)
LEMMA Stutter ==
    ASSUME IInv, UNCHANGED vars
    PROVE  IInv'
<1> USE DEF vars, externalVars, logVars, drainVars
<1>1. TypeOK' /\ OneScrape'
  BY DEF IInv, TypeOK, OneScrape, Busy
<1>2. InOrder' /\ TrueOfServer' /\ OneStory(samples)'
  BY DEF IInv, InOrder, PhasesSoFar, TrueOfServer, OneStory, SameProcess, Served, Metrics
<1>3. FirstSample' /\ Reported'
  BY DEF IInv, FirstSample, Pending, Newest, Reported
<1>4. Bracketed'
  BY DEF IInv, Bracketed, HasBracket, FirstKnown, BracketKnown, Pending, Newest, Good, Known,
         Whole, SameBracket
<1>5. Verdict'
  BY DEF IInv, Verdict, ValidIsOneProcess, ValidDeltaIsTheWork, CutShortIsInvalid
<1> QED
  BY <1>1, <1>2, <1>3, <1>4, <1>5 DEF IInv

(* A step that reports nothing has nothing to prove about a report. *)
LEMMA NoVerdict ==
    ASSUME IInv, pc # "done", result' = result
    PROVE  Reported' /\ Verdict'
  BY DEF IInv, Reported, Verdict, ValidIsOneProcess, ValidDeltaIsTheWork, CutShortIsInvalid

(* The server and the sidecar leave the client alone. *)
LEMMA EnvironmentStep ==
    ASSUME IInv, Environment
    PROVE  IInv'
<1> USE DEF IInv
<1>0. /\ pc # "done" /\ settings' = settings /\ pc' = pc /\ task' = task /\ scrape' = scrape
      /\ samples' = samples /\ identities' = identities /\ errors' = errors
      /\ before' = before /\ quiet' = quiet /\ result' = result
  BY DEF Environment, logVars, drainVars
<1>1. /\ server' \in [generation : Nat, running : Nat, finished : Nat, begun : Nat]
      /\ server.generation =< server'.generation
      /\ server'.generation = server.generation =>
            /\ server.finished =< server'.finished
            /\ server'.begun - server'.running - server'.finished
                 = server.begun - server.running - server.finished
      /\ monitor' \in [id : Nat, pinned : Nat] /\ monitor'.pinned =< server'.generation
      /\ monitor' = monitor \/ monitor'.id > monitor.id
  <2>0. /\ server \in [generation : Nat, running : Nat, finished : Nat, begun : Nat]
        /\ server.generation \in Nat /\ server.running \in Nat
        /\ server.finished \in Nat /\ server.begun \in Nat
        /\ monitor \in [id : Nat, pinned : Nat] /\ monitor.pinned \in Nat
        /\ monitor.pinned =< server.generation
    BY DEF TypeOK
  <2>1. CASE RequestBegins
    <3>1. /\ monitor' = monitor /\ server'.generation = server.generation
          /\ server'.running = server.running + 1 /\ server'.finished = server.finished
          /\ server'.begun = server.begun + 1
          /\ server' \in [generation : Nat, running : Nat, finished : Nat, begun : Nat]
      <4>1. server' = [generation |-> server.generation, running |-> server.running + 1,
                       finished |-> server.finished, begun |-> server.begun + 1]
        BY <2>0, <2>1 DEF RequestBegins
      <4> QED
        BY <2>0, <2>1, <4>1 DEF RequestBegins
    <3>2. \A b, r, f \in Nat : (b + 1) - (r + 1) - f = b - r - f
      OBVIOUS
    <3> QED
      BY <2>0, <3>1, <3>2
  <2>2. CASE RequestEnds
    <3>1. /\ monitor' = monitor /\ server'.generation = server.generation
          /\ server'.running = server.running - 1 /\ server'.finished = server.finished + 1
          /\ server'.begun = server.begun
          /\ server' \in [generation : Nat, running : Nat, finished : Nat, begun : Nat]
      <4>1. /\ server' = [generation |-> server.generation, running |-> server.running - 1,
                           finished |-> server.finished + 1, begun |-> server.begun]
            /\ server.running > 0 /\ monitor' = monitor
        BY <2>0, <2>2 DEF RequestEnds
      <4>2. server.running - 1 \in Nat
        BY <2>0, <4>1
      <4> QED
        BY <2>0, <4>1, <4>2
    <3>2. \A b, r, f \in Nat : b - (r - 1) - (f + 1) = b - r - f
      OBVIOUS
    <3> QED
      BY <2>0, <3>1, <3>2
  <2>3. CASE ServerRestarts
    <3>1. /\ monitor' = monitor /\ server'.generation = server.generation + 1
          /\ server' \in [generation : Nat, running : Nat, finished : Nat, begun : Nat]
      <4>1. /\ server' = [generation |-> server.generation + 1, running |-> 0,
                           finished |-> 0, begun |-> server.begun]
            /\ monitor' = monitor
        BY <2>0, <2>3 DEF ServerRestarts
      <4> QED
        BY <2>0, <4>1
    <3> QED
      BY <2>0, <3>1
  <2>4. CASE MonitorRestarts
    BY <2>4 DEF MonitorRestarts, TypeOK
  <2> QED
    BY <2>1, <2>2, <2>3, <2>4 DEF Environment
<1>2. TypeOK'
  <2>1. errors' \in BOOLEAN
    BY <1>0 DEF TypeOK
  <2> QED
    BY <2>1, <1>0, <1>1 DEF TypeOK
<1>3. OneScrape' /\ InOrder' /\ OneStory(samples)' /\ FirstSample'
  BY <1>0 DEF OneScrape, Busy, InOrder, PhasesSoFar, OneStory, FirstSample, Pending, Newest
<1>4. TrueOfServer'
  <2> SUFFICES ASSUME NEW i \in DOMAIN samples
               PROVE  /\ samples[i].generation =< server'.generation
                      /\ samples[i].generation = server'.generation =>
                            SameProcess(samples[i], Metrics("drain")')
    BY <1>0 DEF TrueOfServer
  <2>1. samples[i] \in SampleSet
    BY ElementOfSeq, LenProperties DEF TypeOK
  <2>2. /\ samples[i].generation =< server.generation
        /\ samples[i].generation = server.generation => SameProcess(samples[i], Metrics("drain"))
    BY DEF TrueOfServer
  <2>3. samples[i].generation =< server'.generation
    BY <2>1, <2>2, <1>1 DEF TypeOK, SampleSet
  <2>4. ASSUME samples[i].generation = server'.generation
        PROVE  SameProcess(samples[i], Metrics("drain")')
    <3>1. samples[i].generation = server.generation /\ server'.generation = server.generation
      BY <2>1, <2>2, <2>4, <1>1 DEF TypeOK, SampleSet
    <3>2. /\ samples[i].count =< server.finished
          /\ Served(samples[i]) = server.begun - server.running - server.finished
      BY <3>1, <2>2 DEF SameProcess, Served, Metrics
    <3>3. samples[i].count =< server'.finished
      BY <3>1, <3>2, <2>1, <1>1 DEF TypeOK, SampleSet
    <3> QED
      BY <3>1, <3>2, <3>3, <1>1 DEF SameProcess, Served, Metrics
  <2> QED
    BY <2>3, <2>4
<1>5. Bracketed'
  <2> SUFFICES ASSUME Good'
               PROVE  /\ HasBracket' /\ FirstKnown' /\ BracketKnown'
                      /\ SameBracket(samples, identities)'
    BY DEF Bracketed
  <2>1. HasBracket /\ FirstKnown /\ BracketKnown /\ SameBracket(samples, identities)
    BY <1>0 DEF Good, Bracketed
  <2>2. HasBracket' /\ SameBracket(samples, identities)'
    BY <2>1, <1>0 DEF HasBracket, Pending, SameBracket
  <2>3. \A id : Known(id) => Known(id)' /\ (monitor' = monitor \/ id # monitor'.id)
    BY <1>1 DEF Known, TypeOK
  <2>4. FirstKnown'
    BY <2>1, <2>3, <1>0 DEF FirstKnown, Pending, Newest
  <2>5. BracketKnown'
    BY <2>1, <2>3, <1>0 DEF BracketKnown, Whole
  <2> QED
    BY <2>2, <2>4, <2>5
<1> QED
  BY <1>0, <1>2, <1>3, <1>4, <1>5, NoVerdict

(* Where a task may be in a scrape, and that the other one then is in none. *)
LEMMA InScrape ==
    ASSUME IInv, NEW t \in Tasks, Busy(t)
    PROVE  /\ pc # "done" /\ ~result.reported
           /\ scrape \in [Tasks -> Scrapes] /\ scrape[t] \in Scrapes
           /\ \A u \in Tasks \ {t} : ~Busy(u)
           /\ scrape[t].phase \in {"before", "during", "drain"}
           /\ t = "main" => pc \in {"before", "drain"} /\ scrape[t].phase = pc
           /\ t = "sampler" => /\ pc \in {"body", "stopping"} /\ task = "scraping"
                              /\ scrape[t].phase = "during"
  BY DEF IInv, OneScrape, TypeOK, Reported, Busy, Tasks

(* An answer of the sidecar that is not a failure. *)
LEMMA SnapshotIs ==
    ASSUME IInv, NEW got, Reply(Snapshot, got), got # None
    PROVE  got = monitor.id /\ Known(got) /\ server.generation = monitor.pinned
  BY DEF Reply, Snapshot, Known, IInv, TypeOK

(* The first identity of a scrape. *)
LEMMA FirstIdentityStep ==
    ASSUME IInv, NEW t \in Tasks, FirstIdentity(t)
    PROVE  IInv'
<1>0. PICK got \in 0..MaxRestarts \cup {None} :
        /\ Reply(Snapshot, got)
        /\ scrape' = [scrape EXCEPT ![t].stage = "get", ![t].first = got]
        /\ errors' = (errors \/ got = None)
  BY DEF FirstIdentity
<1>1. /\ scrape[t].stage = "first" /\ settings' = settings /\ server' = server
      /\ monitor' = monitor /\ pc' = pc /\ task' = task
      /\ samples' = samples /\ identities' = identities
      /\ before' = before /\ quiet' = quiet /\ result' = result
  BY DEF FirstIdentity, drainVars
<1>2. got \in IdSet
  BY <1>0, EpochConstants DEF IdSet
<1>3. Busy(t)
  BY <1>1 DEF Busy
<1>4. /\ scrape \in [Tasks -> Scrapes] /\ scrape[t] \in Scrapes
      /\ pc # "done"
  BY <1>3, InScrape
<1>5. /\ scrape' \in [Tasks -> Scrapes]
      /\ \A u \in Tasks \ {t} : scrape'[u] = scrape[u]
      /\ scrape'[t].stage = "get" /\ scrape'[t].phase = scrape[t].phase /\ scrape'[t].first = got
  <2> DEFINE new == [scrape[t] EXCEPT !.stage = "get", !.first = got]
  <2>1. new \in Scrapes /\ new.stage = "get" /\ new.phase = scrape[t].phase /\ new.first = got
    BY <1>2, <1>4 DEF Scrapes
  <2>2. scrape' = [scrape EXCEPT ![t] = new]
    BY <1>0, <1>4
  <2> QED
    BY <2>1, <2>2, <1>4
<1>6. errors' \in BOOLEAN
  BY <1>0
<1>7. TypeOK'
  BY <1>1, <1>5, <1>6 DEF IInv, TypeOK
<1>8. OneScrape'
  BY <1>1, <1>5 DEF IInv, OneScrape, Busy, Tasks
<1>9. InOrder' /\ OneStory(samples)' /\ TrueOfServer'
  BY <1>1 DEF IInv, InOrder, PhasesSoFar, OneStory, TrueOfServer, SameProcess, Served, Metrics
<1>10. \A u \in Tasks : Pending(u)' <=> Pending(u)
  BY <1>1, <1>5 DEF Pending
<1>11. \A u \in Tasks : Pending(u) => scrape'[u] = scrape[u]
  BY <1>1, <1>5 DEF Pending
<1>12. FirstSample'
  <2>1. "main" \in Tasks
    BY DEF Tasks
  <2> QED
    BY <2>1, <1>1, <1>10, <1>11 DEF IInv, FirstSample, Newest
<1>13. Bracketed'
  <2> SUFFICES ASSUME Good'
               PROVE  /\ HasBracket' /\ FirstKnown' /\ BracketKnown'
                      /\ SameBracket(samples, identities)'
    BY DEF Bracketed
  <2>1. ~errors' /\ settings.identity
    BY <1>1 DEF Good
  <2>2. ~errors /\ got # None
    BY <1>0, <2>1
  <2>3. HasBracket /\ FirstKnown /\ BracketKnown /\ SameBracket(samples, identities)
    BY <2>1, <2>2, <1>4 DEF IInv, Good, Bracketed
  <2>4. Known(got)
    BY <1>0, <2>2, SnapshotIs
  <2>5. HasBracket' /\ BracketKnown' /\ SameBracket(samples, identities)'
    BY <2>3, <1>1, <1>10 DEF HasBracket, BracketKnown, SameBracket, Known, Whole
  <2>6. FirstKnown'
    BY <2>3, <2>4, <1>1, <1>5, <1>10, <1>11 DEF FirstKnown, Known, Newest
  <2> QED
    BY <2>5, <2>6
<1> QED
  BY <1>1, <1>4, <1>7, <1>8, <1>9, <1>12, <1>13, NoVerdict DEF IInv

(* What the end of a scrape does: it wakes the sampler, opens the window, or drains. *)
SamplerWaits(t) ==
    /\ t = "sampler" /\ task' = "waiting"
    /\ pc' = pc /\ before' = before /\ quiet' = quiet /\ result' = result

WindowOpens(t, m) ==
    /\ t = "main" /\ pc = "before" /\ before' = m /\ pc' = "body" /\ task' = "waiting"
    /\ quiet' = quiet /\ result' = result

DrainGoesOn(t, m, log) ==
    /\ t = "main" /\ pc = "drain" /\ before' = before /\ task' = task /\ quiet' \in Nat
    /\ \/ pc' = "pause" /\ result' = result
       \/ /\ pc' = "done"
          /\ \E drained \in BOOLEAN : /\ drained => Idle(m)
                                     /\ result' = Report(m, log, drained)

(* There is no fourth way. *)
LEMMA ScrapedIs ==
    ASSUME IInv, NEW t \in Tasks, Busy(t), NEW m, NEW log, Scraped(t, m, log)
    PROVE  SamplerWaits(t) \/ WindowOpens(t, m) \/ DrainGoesOn(t, m, log)
<1>1. CASE t = "sampler"
  <2>1. pc # "before"
    BY <1>1, InScrape
  <2> QED
    BY <1>1, <2>1 DEF Scraped, SamplerWaits, drainVars
<1>2. CASE t = "main" /\ pc = "before"
  BY <1>2 DEF Scraped, WindowOpens, drainVars
<1>3. CASE t = "main" /\ pc = "drain"
  <2>1. DrainLooks(m, log)
    BY <1>3 DEF Scraped
  <2> DEFINE counters == IF m = None THEN None ELSE m.count
             calm == IF Idle(m) /\ counters = previous THEN quiet + 1 ELSE 0
  <2>2. /\ before' = before /\ task' = task /\ quiet' = calm
        /\ \/ pc' = "pause" /\ result' = result
           \/ pc' = "done" /\ result' = Report(m, log, calm >= 3)
    BY <2>1 DEF DrainLooks
  <2>3. calm \in Nat /\ (calm >= 3 => Idle(m))
    BY DEF IInv, TypeOK
  <2>4. (calm >= 3) \in BOOLEAN
    OBVIOUS
  <2> QED
    BY <1>3, <2>2, <2>3, <2>4 DEF DrainGoesOn
<1> QED
  BY <1>1, <1>2, <1>3, InScrape DEF Tasks

(* A scrape that ends leaves a log of which all of this still holds. *)
LEMMA ScrapeEnds ==
    ASSUME IInv, NEW t \in Tasks, Busy(t), NEW m \in SampleSet \cup {None},
           settings' = settings, monitor' = monitor,
           scrape' = [scrape EXCEPT ![t] = NoScrape],
           samples' \in Seq(SampleSet), identities' \in Seq(Brackets), errors' \in BOOLEAN,
           Scraped(t, m, [rows |-> samples', ids |-> identities', errors |-> errors']),
           OneStory(samples'),
           m # None => samples' # <<>> /\ m = samples'[Len(samples')] /\ m.phase = scrape[t].phase,
           pc = "before" /\ m # None => samples'[1] = m,
           before # None => samples' # <<>> /\ samples'[1] = samples[1],
           settings.identity /\ ~errors' =>
               Len(samples') = Len(identities') /\ BracketKnown' /\ SameBracket(samples', identities')
    PROVE  /\ scrape' \in [Tasks -> Scrapes] /\ before' \in SampleSet \cup {None} /\ quiet' \in Nat
           /\ pc' \in {"before", "body", "stopping", "drain", "pause", "done"}
           /\ PhasesSoFar \subseteq PhasesSoFar'
           /\ OneScrape' /\ FirstSample' /\ Bracketed' /\ Reported' /\ Verdict'
<1> DEFINE log == [rows |-> samples', ids |-> identities', errors |-> errors']
<1>0. SamplerWaits(t) \/ WindowOpens(t, m) \/ DrainGoesOn(t, m, log)
  BY ScrapedIs
<1> HIDE DEF log
<1>1. /\ pc # "done" /\ ~result.reported
      /\ scrape \in [Tasks -> Scrapes] /\ scrape[t] \in Scrapes
      /\ \A u \in Tasks \ {t} : ~Busy(u)
      /\ scrape[t].phase \in {"before", "during", "drain"}
      /\ t = "main" => pc \in {"before", "drain"} /\ scrape[t].phase = pc
      /\ t = "sampler" => /\ pc \in {"body", "stopping"} /\ task = "scraping"
                         /\ scrape[t].phase = "during"
  BY InScrape
<1>2. scrape' \in [Tasks -> Scrapes] /\ \A u \in Tasks : scrape'[u].stage = "none"
  BY <1>1, NoScrapeIs DEF Busy
<1>3. /\ before' \in SampleSet \cup {None} /\ quiet' \in Nat
      /\ pc' \in {"before", "body", "stopping", "drain", "pause", "done"}
  BY <1>0, <1>1 DEF IInv, TypeOK, SamplerWaits, WindowOpens, DrainGoesOn
<1>4. PhasesSoFar \subseteq PhasesSoFar'
  BY <1>0, <1>1 DEF PhasesSoFar, SamplerWaits, WindowOpens, DrainGoesOn
<1>5. OneScrape'
  <2>1. "main" \in Tasks /\ "sampler" \in Tasks
    BY DEF Tasks
  <2>2. /\ pc' = "before" => task' = "none"
        /\ pc' \in {"drain", "pause", "done"} => task' = "ended"
    BY <1>0, <1>1 DEF IInv, OneScrape, SamplerWaits, WindowOpens, DrainGoesOn
  <2> QED
    BY <2>1, <2>2, <1>2 DEF OneScrape, Busy
<1>6. before' # None => samples' # <<>> /\ samples'[1] = before' /\ before'.phase = "before"
  <2>1. CASE WindowOpens(t, m)
    BY <2>1, <1>1 DEF WindowOpens
  <2>2. CASE before' = before
    BY <2>2 DEF IInv, FirstSample
  <2> QED
    BY <2>1, <2>2, <1>0 DEF SamplerWaits, DrainGoesOn
<1>7. FirstSample'
  <2>1. pc' # "before" /\ \A u \in Tasks : ~Pending(u)'
    BY <1>0, <1>1, <1>2 DEF Pending, SamplerWaits, WindowOpens, DrainGoesOn
  <2> QED
    BY <2>1, <1>6 DEF FirstSample
<1>8. Bracketed'
  <2> SUFFICES ASSUME Good'
               PROVE  /\ HasBracket' /\ FirstKnown' /\ BracketKnown'
                      /\ SameBracket(samples, identities)'
    BY DEF Bracketed
  <2>1. /\ Len(samples') = Len(identities') /\ BracketKnown'
        /\ SameBracket(samples', identities')
    BY DEF Good
  <2>2. FirstKnown'
    BY <1>2 DEF FirstKnown, Pending
  <2>3. HasBracket'
    <3>1. Len(identities') \in Nat
      BY LenProperties
    <3> QED
      BY <3>1, <2>1, <1>2 DEF HasBracket, Pending
  <2> QED
    BY <2>1, <2>2, <2>3 DEF SameBracket
<1>9. Reported' /\ Verdict'
  <2>1. CASE result' = result
    BY <2>1, <1>1, NoVerdict
  <2>2. CASE result' # result
    <3>1. PICK drained \in BOOLEAN :
            (drained => Idle(m)) /\ result' = Report(m, log, drained)
      BY <2>2, <1>0 DEF SamplerWaits, WindowOpens, DrainGoesOn
    <3>2. pc' = "done" /\ pc = "drain" /\ t = "main" /\ before' = before
      BY <2>2, <1>0 DEF SamplerWaits, WindowOpens, DrainGoesOn
    <3>3. Reported'
      BY <3>2 DEF Reported
    <3>4. ASSUME result'.valid
          PROVE  /\ \A i \in DOMAIN samples' : samples'[i].generation = samples'[1].generation
                 /\ result'.delta = samples'[Len(samples')].begun - samples'[1].begun
                 /\ samples'[1].running = 0 /\ samples'[Len(samples')].running = 0
                 /\ settings.identity => Len(identities') = Len(samples')
                 /\ samples'[1].phase = "before" /\ samples'[Len(samples')].phase = "drain"
      <4>1. m # None => samples' # <<>> /\ m = samples'[Len(samples')] /\ m.phase = "drain"
        BY <3>2, <1>1
      <4>2. before # None => samples' # <<>> /\ before = samples'[1] /\ before.phase = "before"
        BY <3>2, <1>6
      <4> QED
        BY <3>1, <3>4, <4>1, <4>2, ReportIsTrue DEF log
    <3> QED
      BY <3>3, <3>4 DEF Verdict, ValidIsOneProcess, ValidDeltaIsTheWork, CutShortIsInvalid, Last
  <2> QED
    BY <2>1, <2>2
<1> QED
  BY <1>2, <1>3, <1>4, <1>5, <1>7, <1>8, <1>9

(* The answer of Prometheus, and the end of the scrape where there is no sidecar. *)
LEMMA GetStep ==
    ASSUME IInv, NEW t \in Tasks, Get(t)
    PROVE  IInv'
<1>0. PICK got \in {Metrics(scrape[t].phase), None} :
        /\ errors' = (errors \/ got = None)
        /\ samples' = IF got = None THEN samples ELSE Append(samples, got)
        /\ IF settings.identity
           THEN /\ scrape' = [scrape EXCEPT ![t].stage = "last", ![t].metrics = got]
                /\ UNCHANGED <<pc, task, before, after, drainVars, result>>
           ELSE /\ scrape' = [scrape EXCEPT ![t] = NoScrape]
                /\ Scraped(t, got, [rows |-> samples', ids |-> identities, errors |-> errors'])
  BY DEF Get
<1>1. /\ scrape[t].stage = "get" /\ settings' = settings /\ server' = server
      /\ monitor' = monitor /\ identities' = identities
  BY DEF Get
<1>2. Busy(t)
  BY <1>1 DEF Busy
<1>3. /\ pc # "done" /\ ~result.reported
      /\ scrape \in [Tasks -> Scrapes] /\ scrape[t] \in Scrapes
      /\ \A u \in Tasks \ {t} : ~Busy(u)
      /\ scrape[t].phase \in {"before", "during", "drain"}
      /\ t = "main" => pc \in {"before", "drain"} /\ scrape[t].phase = pc
      /\ t = "sampler" => /\ pc \in {"body", "stopping"} /\ task = "scraping"
                         /\ scrape[t].phase = "during"
  BY <1>2, InScrape
<1>4. /\ settings \in Settings /\ samples \in Seq(SampleSet) /\ identities \in Seq(Brackets)
      /\ errors \in BOOLEAN
      /\ before \in SampleSet \cup {None} /\ quiet \in Nat
      /\ server \in [generation : Nat, running : Nat, finished : Nat, begun : Nat]
      /\ monitor \in [id : Nat, pinned : Nat] /\ monitor.pinned =< server.generation
  BY DEF IInv, TypeOK
<1>5. /\ got \in SampleSet \cup {None}
      /\ got # None => /\ got = Metrics(scrape[t].phase) /\ got \in SampleSet
                       /\ got.phase = scrape[t].phase /\ got.generation = server.generation
                       /\ got.count = server.finished /\ got.running = server.running
                       /\ got.begun = server.begun
  <2>1. Metrics(scrape[t].phase) \in SampleSet
    BY <1>3, <1>4 DEF Metrics, SampleSet
  <2> QED
    BY <1>0, <2>1 DEF Metrics
<1>6. errors' \in BOOLEAN
  BY <1>0
<1>7. PICK rows, n, k : rows = samples' /\ n = Len(samples) /\ k = Len(rows)
  OBVIOUS
<1>8. /\ n \in Nat /\ k \in Nat /\ DOMAIN samples = 1 .. n
      /\ rows \in Seq(SampleSet) /\ DOMAIN rows = 1 .. k
      /\ \A i \in 1 .. n : rows[i] = samples[i] /\ samples[i] \in SampleSet
      /\ got = None => k = n /\ rows = samples
      /\ got # None => rows # <<>> /\ k = n + 1 /\ rows[k] = got
  <2>1. n \in Nat /\ DOMAIN samples = 1 .. n /\ \A i \in 1 .. n : samples[i] \in SampleSet
    BY <1>4, <1>7, LenProperties, ElementOfSeq
  <2>2. CASE got = None
    BY <2>1, <2>2, <1>0, <1>4, <1>7
  <2>3. CASE got # None
    <3>1. rows = Append(samples, got) /\ got \in SampleSet
      BY <2>3, <1>0, <1>5, <1>7
    <3>2. /\ rows \in Seq(SampleSet) /\ rows # <<>> /\ k = n + 1
          /\ \A i \in 1 .. n : rows[i] = samples[i]
          /\ rows[n + 1] = got
      <4>1. /\ Append(samples, got) \in Seq(SampleSet) /\ Append(samples, got) # <<>>
            /\ Len(Append(samples, got)) = Len(samples) + 1
            /\ \A i \in 1 .. Len(samples) : Append(samples, got)[i] = samples[i]
            /\ Append(samples, got)[Len(samples) + 1] = got
        BY <3>1, <1>4, AppendProperties
      <4> QED
        BY <4>1, <3>1, <1>7
    <3>3. DOMAIN rows = 1 .. k
      BY <3>2, <1>7, LenProperties
    <3> QED
      BY <2>1, <2>3, <3>2, <3>3
  <2> QED
    BY <2>2, <2>3
<1>9. \A i \in 1 .. k : i \in 1 .. n \/ (got # None /\ i = k /\ i = n + 1)
  BY <1>8
<1>10. \A i \in 1 .. n : samples[i].phase \in PhasesSoFar /\ Rank[samples[i].phase] =< Rank[scrape[t].phase]
  <2> SUFFICES ASSUME NEW i \in 1 .. n
               PROVE  /\ samples[i].phase \in PhasesSoFar
                      /\ Rank[samples[i].phase] =< Rank[scrape[t].phase]
    OBVIOUS
  <2>1. samples[i].phase \in PhasesSoFar
    BY <1>8 DEF IInv, InOrder
  <2>2. pc # "before"
    <3> SUFFICES ASSUME pc = "before" PROVE FALSE
      OBVIOUS
    <3>1. t = "main"
      BY <1>3 DEF Tasks
    <3>2. samples = <<>>
      BY <3>1, <1>1 DEF IInv, FirstSample, Pending
    <3> QED
      BY <3>2, <1>7
  <2> QED
    BY <2>1, <2>2, <1>3 DEF PhasesSoFar, Rank, Tasks
<1>11. scrape[t].phase \in PhasesSoFar
  BY <1>3 DEF PhasesSoFar, Tasks
<1>12. \A i \in 1 .. n : /\ samples[i].generation =< server.generation
                         /\ samples[i].generation = server.generation =>
                               SameProcess(samples[i], Metrics("drain"))
  BY <1>8 DEF IInv, TrueOfServer
<1>13. OneStory(rows)
  <2> SUFFICES ASSUME NEW i \in 1 .. k, NEW j \in 1 .. k, i < j,
                      rows[i].generation = rows[j].generation
               PROVE  SameProcess(rows[i], rows[j])
    BY <1>8 DEF OneStory
  <2>1. i \in 1 .. n
    BY <1>8, <1>9
  <2>2. CASE j \in 1 .. n
    BY <2>1, <2>2, <1>8 DEF IInv, OneStory
  <2>3. CASE got # None /\ j = k
    BY <2>1, <2>3, <1>5, <1>8, <1>12 DEF SameProcess, Served, Metrics
  <2> QED
    BY <2>2, <2>3, <1>9
<1>14. TrueOfServer'
  <2> SUFFICES ASSUME NEW i \in 1 .. k
               PROVE  /\ rows[i].generation =< server.generation
                      /\ rows[i].generation = server.generation =>
                            SameProcess(rows[i], Metrics("drain"))
    BY <1>1, <1>7, <1>8 DEF TrueOfServer, SameProcess, Served, Metrics
  <2>1. CASE i \in 1 .. n
    BY <2>1, <1>8, <1>12
  <2>2. CASE got # None /\ i = k
    BY <2>2, <1>4, <1>5, <1>8 DEF SameProcess, Served, Metrics
  <2> QED
    BY <2>1, <2>2, <1>9
<1>15. ASSUME PhasesSoFar \subseteq PhasesSoFar'
       PROVE  InOrder'
  <2>1. ASSUME NEW i \in 1 .. k PROVE rows[i].phase \in PhasesSoFar'
    <3>1. CASE i \in 1 .. n
      BY <3>1, <1>15, <1>8, <1>10
    <3>2. CASE got # None /\ i = k
      BY <3>2, <1>15, <1>5, <1>8, <1>11
    <3> QED
      BY <3>1, <3>2, <1>9
  <2>2. ASSUME NEW i \in 1 .. k, NEW j \in 1 .. k, i < j
        PROVE  Rank[rows[i].phase] =< Rank[rows[j].phase]
    <3>1. i \in 1 .. n
      BY <2>2, <1>8, <1>9
    <3>2. CASE j \in 1 .. n
      BY <2>2, <3>1, <3>2, <1>8 DEF IInv, InOrder
    <3>3. CASE got # None /\ j = k
      BY <3>1, <3>3, <1>5, <1>8, <1>10
    <3> QED
      BY <3>2, <3>3, <1>9
  <2> QED
    BY <2>1, <2>2, <1>7, <1>8 DEF InOrder
<1>16. got # None => rows # <<>> /\ got = rows[Len(rows)] /\ got.phase = scrape[t].phase
  BY <1>5, <1>7, <1>8
<1>17. pc = "before" => n = 0 /\ (got # None => rows[1] = got) /\ (got = None => rows = <<>>)
  <2> SUFFICES ASSUME pc = "before"
               PROVE  n = 0 /\ (got # None => rows[1] = got) /\ (got = None => rows = <<>>)
    OBVIOUS
  <2>1. samples = <<>>
    <3>1. t = "main"
      BY <1>3 DEF Tasks
    <3> QED
      BY <3>1, <1>1 DEF IInv, FirstSample, Pending
  <2>2. n = 0
    BY <2>1, <1>7, EmptySeq
  <2> QED
    BY <2>1, <2>2, <1>8
<1>18. before # None => rows # <<>> /\ rows[1] = samples[1]
  <2> SUFFICES ASSUME before # None
               PROVE  rows # <<>> /\ rows[1] = samples[1]
    OBVIOUS
  <2>1. samples # <<>>
    BY DEF IInv, FirstSample
  <2>2. n # 0
    BY <2>1, <1>4, <1>7, EmptySeq
  <2> QED
    BY <2>1, <2>2, <1>8
<1>19. CASE ~settings.identity
  <2>1. /\ scrape' = [scrape EXCEPT ![t] = NoScrape]
        /\ Scraped(t, got, [rows |-> samples', ids |-> identities', errors |-> errors'])
    BY <1>0, <1>1, <1>19
  <2>2. identities' \in Seq(Brackets) /\ samples' \in Seq(SampleSet)
    BY <1>1, <1>4, <1>7, <1>8
  <2>3. /\ scrape' \in [Tasks -> Scrapes] /\ before' \in SampleSet \cup {None} /\ quiet' \in Nat
        /\ pc' \in {"before", "body", "stopping", "drain", "pause", "done"}
        /\ PhasesSoFar \subseteq PhasesSoFar'
        /\ OneScrape' /\ FirstSample' /\ Bracketed' /\ Reported' /\ Verdict'
    BY <2>1, <2>2, <1>1, <1>2, <1>5, <1>6, <1>7, <1>13, <1>16, <1>17, <1>18, <1>19, ScrapeEnds
  <2>4. TypeOK'
    BY <2>2, <2>3, <1>1, <1>4, <1>6 DEF TypeOK
  <2>5. OneStory(samples)'
    BY <1>7, <1>13 DEF OneStory
  <2> QED
    BY <2>3, <2>4, <2>5, <1>14, <1>15 DEF IInv
<1>20. CASE settings.identity
  <2>1. /\ scrape' = [scrape EXCEPT ![t].stage = "last", ![t].metrics = got]
        /\ pc' = pc /\ task' = task /\ before' = before /\ quiet' = quiet /\ result' = result
    BY <1>0, <1>20 DEF drainVars
  <2>2. /\ scrape' \in [Tasks -> Scrapes]
        /\ \A u \in Tasks \ {t} : scrape'[u] = scrape[u] /\ ~Pending(u)'
        /\ scrape'[t].stage = "last" /\ scrape'[t].phase = scrape[t].phase
        /\ scrape'[t].first = scrape[t].first /\ scrape'[t].metrics = got
    <3> DEFINE new == [scrape[t] EXCEPT !.stage = "last", !.metrics = got]
    <3>1. /\ new \in Scrapes /\ new.stage = "last" /\ new.phase = scrape[t].phase
          /\ new.first = scrape[t].first /\ new.metrics = got
      BY <1>3, <1>5 DEF Scrapes
    <3>2. scrape' = [scrape EXCEPT ![t] = new]
      BY <2>1, <1>3
    <3> QED
      BY <3>1, <3>2, <1>3 DEF Pending, Busy
  <2>3. samples' \in Seq(SampleSet)
    BY <1>7, <1>8
  <2>4. TypeOK'
    BY <2>1, <2>2, <2>3, <1>1, <1>4, <1>6 DEF IInv, TypeOK
  <2>5. OneScrape'
    BY <2>1, <2>2, <1>3 DEF IInv, OneScrape, Busy, Tasks
  <2>6. OneStory(samples)' /\ InOrder'
    BY <2>1, <1>7, <1>13, <1>15 DEF OneStory, PhasesSoFar
  <2>7. FirstSample'
    <3>1. \A u \in Tasks : (Pending(u)' /\ scrape'[u].metrics # None) =>
             /\ rows # <<>> /\ scrape'[u].metrics = rows[k]
             /\ scrape'[u].metrics.phase = scrape'[u].phase
      BY <2>2, <1>7, <1>16
    <3>2. pc' = "before" => before' = None
      BY <2>1 DEF IInv, FirstSample
    <3>3. /\ pc' = "before" => k =< 1
          /\ (pc' = "before" /\ ~(Pending("main")' /\ scrape'["main"].metrics # None)) =>
               rows = <<>>
      <4> SUFFICES ASSUME pc' = "before"
                   PROVE  /\ k =< 1
                          /\ ~(Pending("main")' /\ scrape'["main"].metrics # None) => rows = <<>>
        OBVIOUS
      <4>1. t = "main" /\ Pending("main")' /\ scrape'["main"].metrics = got
        BY <2>1, <2>2, <1>3 DEF Tasks, Pending
      <4> QED
        BY <4>1, <2>1, <1>8, <1>17
    <3>4. before' # None => rows # <<>> /\ rows[1] = before' /\ before'.phase = "before"
      BY <2>1, <1>18 DEF IInv, FirstSample
    <3> QED
      BY <3>1, <3>2, <3>3, <3>4, <1>7 DEF FirstSample, Newest
  <2>8. Bracketed'
    <3> SUFFICES ASSUME Good'
                 PROVE  /\ HasBracket' /\ FirstKnown' /\ BracketKnown'
                        /\ SameBracket(samples, identities)'
      BY DEF Bracketed
    <3>1. ~errors'
      BY DEF Good
    <3>2. ~errors /\ got # None
      BY <1>0, <3>1
    <3>3. HasBracket /\ FirstKnown /\ BracketKnown /\ SameBracket(samples, identities)
      BY <3>2, <1>3, <1>20 DEF IInv, Good, Bracketed
    <3>4. \A u \in Tasks : ~Pending(u)
      BY <1>1, <1>3 DEF Pending, Busy
    <3>5. n = Len(identities) /\ DOMAIN identities = 1 .. n
      BY <3>3, <3>4, <1>4, <1>7, LenProperties DEF HasBracket
    <3>6. HasBracket'
      BY <3>2, <3>5, <2>2, <1>1, <1>7, <1>8 DEF HasBracket, Pending
    <3>7. FirstKnown'
      <4>1. Known(scrape[t].first)
        BY <3>3, <1>1 DEF FirstKnown
      <4>2. monitor.pinned =< rows[k].generation
        BY <3>2, <1>4, <1>5, <1>8
      <4>3. Known(scrape[t].first)'
        BY <4>1, <2>2, <1>1 DEF Known
      <4>4. \A u \in Tasks \ {t} : scrape'[u].stage = "none"
        BY <2>2, <1>3 DEF Busy
      <4> QED
        BY <4>2, <4>3, <4>4, <3>2, <2>2, <1>1, <1>7 DEF FirstKnown, Newest, Pending
    <3>8. BracketKnown'
      BY <3>3, <3>5, <1>1, <1>7, <1>8 DEF BracketKnown, Known, Whole
    <3>9. SameBracket(samples, identities)'
      BY <3>3, <3>5, <1>1, <1>7, <1>8 DEF SameBracket
    <3> QED
      BY <3>6, <3>7, <3>8, <3>9
  <2>9. Reported' /\ Verdict'
    BY <2>1, <1>3, NoVerdict
  <2> QED
    BY <2>4, <2>5, <2>6, <2>7, <2>8, <2>9, <1>14 DEF IInv
<1> QED
  BY <1>19, <1>20

(* The second identity closes the bracket of the newest sample. *)
LEMMA LastIdentityStep ==
    ASSUME IInv, NEW t \in Tasks, LastIdentity(t)
    PROVE  IInv'
<1>0. PICK got \in 0..MaxRestarts \cup {None} :
        /\ Reply(Snapshot, got)
        /\ errors' = (errors \/ got = None)
        /\ identities' = Append(identities, [first |-> scrape[t].first, last |-> got])
        /\ scrape' = [scrape EXCEPT ![t] = NoScrape]
        /\ Scraped(t, scrape[t].metrics, [rows |-> samples, ids |-> identities', errors |-> errors'])
  BY DEF LastIdentity
<1>1. /\ scrape[t].stage = "last" /\ settings' = settings /\ server' = server
      /\ monitor' = monitor /\ samples' = samples
  BY DEF LastIdentity
<1>2. Busy(t)
  BY <1>1 DEF Busy
<1>3. /\ pc # "done" /\ scrape \in [Tasks -> Scrapes] /\ scrape[t] \in Scrapes
      /\ \A u \in Tasks \ {t} : ~Busy(u)
      /\ t = "main" => pc \in {"before", "drain"} /\ scrape[t].phase = pc
  BY <1>2, InScrape
<1>4. /\ settings \in Settings /\ samples \in Seq(SampleSet) /\ identities \in Seq(Brackets)
      /\ errors \in BOOLEAN
      /\ server \in [generation : Nat, running : Nat, finished : Nat, begun : Nat]
      /\ monitor \in [id : Nat, pinned : Nat] /\ monitor.pinned =< server.generation
  BY DEF IInv, TypeOK
<1>5. PICK ids, b, n, m : /\ ids = identities' /\ b = [first |-> scrape[t].first, last |-> got]
                         /\ n = Len(identities) /\ m = scrape[t].metrics
  OBVIOUS
<1>6. m \in SampleSet \cup {None} /\ b \in Brackets /\ b.first = scrape[t].first /\ b.last = got
  <2>1. got \in IdSet
    BY EpochConstants DEF IdSet
  <2> QED
    BY <2>1, <1>3, <1>5 DEF Scrapes, Brackets
<1>7. errors' \in BOOLEAN
  BY <1>0
<1>8. /\ n \in Nat /\ DOMAIN identities = 1 .. n
      /\ ids \in Seq(Brackets) /\ Len(ids) = n + 1 /\ DOMAIN ids = 1 .. (n + 1)
      /\ \A i \in 1 .. n : ids[i] = identities[i]
      /\ ids[n + 1] = b
  <2>1. ids = Append(identities, b)
    BY <1>0, <1>5
  <2>2. /\ Append(identities, b) \in Seq(Brackets)
        /\ Len(Append(identities, b)) = Len(identities) + 1
        /\ \A i \in 1 .. Len(identities) : Append(identities, b)[i] = identities[i]
        /\ Append(identities, b)[Len(identities) + 1] = b
    BY <1>4, <1>6, AppendProperties
  <2>3. n \in Nat /\ DOMAIN identities = 1 .. n
    BY <1>4, <1>5, LenProperties
  <2>4. /\ ids \in Seq(Brackets) /\ Len(ids) = n + 1
        /\ \A i \in 1 .. n : ids[i] = identities[i]
        /\ ids[n + 1] = b
    BY <2>1, <2>2, <1>5
  <2>5. DOMAIN ids = 1 .. (n + 1)
    BY <2>4, LenProperties
  <2> QED
    BY <2>3, <2>4, <2>5
<1>9. m # None => samples # <<>> /\ m = samples[Len(samples)] /\ m.phase = scrape[t].phase
  BY <1>1, <1>5 DEF IInv, FirstSample, Pending, Newest
<1>10. pc = "before" /\ m # None => samples[1] = m
  <2> SUFFICES ASSUME pc = "before", m # None PROVE samples[1] = m
    OBVIOUS
  <2>1. samples # <<>> /\ Len(samples) =< 1
    BY <1>9 DEF IInv, FirstSample
  <2>2. Len(samples) \in Nat /\ Len(samples) # 0
    BY <2>1, <1>4, LenProperties, EmptySeq
  <2>3. Len(samples) = 1
    <3>1. \A x \in Nat : x # 0 /\ x =< 1 => x = 1
      OBVIOUS
    <3> QED
      BY <3>1, <2>1, <2>2
  <2> QED
    BY <2>3, <1>9
<1>11. before # None => samples # <<>>
  BY DEF IInv, FirstSample
<1>12. ASSUME settings.identity, ~errors'
       PROVE  Len(samples) = Len(ids) /\ BracketKnown' /\ SameBracket(samples, ids)
  <2>1. ~errors /\ got # None
    BY <1>0, <1>12
  <2>2. HasBracket /\ FirstKnown /\ BracketKnown /\ SameBracket(samples, identities)
    BY <2>1, <1>3, <1>12 DEF IInv, Good, Bracketed
  <2>3. got = monitor.id /\ Known(got) /\ server.generation = monitor.pinned
    BY <1>0, <2>1, SnapshotIs
  <2>4. Len(samples) = n + 1
    BY <2>2, <1>1, <1>5 DEF HasBracket, Pending
  <2>5. /\ Known(b.first) /\ m # None /\ m = samples[n + 1]
        /\ b.first = monitor.id => monitor.pinned =< samples[n + 1].generation
    BY <2>2, <2>4, <1>1, <1>5, <1>6, <1>9 DEF FirstKnown, Pending, Newest
  <2>6. /\ samples[n + 1] \in SampleSet /\ samples[n + 1].generation =< server.generation
        /\ samples[n + 1].generation \in Nat
    <3>1. n + 1 \in DOMAIN samples
      BY <2>4, <1>4, <1>8, LenProperties
    <3>2. samples[n + 1] \in SampleSet
      BY <2>4, <1>4, <1>8, ElementOfSeq
    <3> QED
      BY <3>1, <3>2 DEF IInv, TrueOfServer, SampleSet
  <2>7. b.first = monitor.id => samples[n + 1].generation = monitor.pinned
    BY <2>3, <2>5, <2>6, <1>4
  <2>8. \A i \in 1 .. n + 1 : /\ Known(ids[i].first) /\ Known(ids[i].last)
                            /\ Whole(ids[i], samples[i])
    <3> SUFFICES ASSUME NEW i \in 1 .. n + 1
                 PROVE  /\ Known(ids[i].first) /\ Known(ids[i].last)
                        /\ Whole(ids[i], samples[i])
      OBVIOUS
    <3>1. CASE i \in 1 .. n
      BY <3>1, <2>2, <1>8 DEF BracketKnown
    <3>2. CASE i = n + 1
      BY <3>2, <2>3, <2>5, <2>7, <1>6, <1>8 DEF Whole
    <3> QED
      BY <3>1, <3>2, <1>8
  <2>9. BracketKnown'
    BY <2>8, <1>1, <1>5, <1>8 DEF BracketKnown, Known, Whole
  <2>10. SameBracket(samples, ids)
    <3> SUFFICES ASSUME NEW i \in 1 .. n + 1, NEW j \in 1 .. n + 1,
                        ids[i].first = ids[i].last, ids[i] = ids[j]
                 PROVE  samples[i].generation = samples[j].generation
      BY <1>8 DEF SameBracket
    <3>1. CASE i \in 1 .. n /\ j \in 1 .. n
      BY <3>1, <2>2, <1>8 DEF SameBracket
    <3>2. CASE i = n + 1 \/ j = n + 1
      <4>1. ids[i] = b /\ ids[j] = b
        BY <3>2, <1>8
      <4>2. b.first = monitor.id /\ b.last = monitor.id
        BY <4>1, <2>3, <1>6
      <4> QED
        BY <4>1, <4>2, <2>8 DEF Whole
    <3> QED
      BY <3>1, <3>2, <1>8
  <2> QED
    BY <2>4, <2>9, <2>10, <1>8
<1>13. /\ scrape' \in [Tasks -> Scrapes] /\ before' \in SampleSet \cup {None} /\ quiet' \in Nat
       /\ pc' \in {"before", "body", "stopping", "drain", "pause", "done"}
       /\ PhasesSoFar \subseteq PhasesSoFar'
       /\ OneScrape' /\ FirstSample' /\ Bracketed' /\ Reported' /\ Verdict'
  <2>1. /\ scrape' = [scrape EXCEPT ![t] = NoScrape]
        /\ Scraped(t, m, [rows |-> samples', ids |-> identities', errors |-> errors'])
    BY <1>0, <1>1, <1>5
  <2>2. OneStory(samples') /\ samples' \in Seq(SampleSet) /\ identities' \in Seq(Brackets)
    BY <1>1, <1>4, <1>5, <1>8 DEF IInv
  <2>3. settings.identity /\ ~errors' =>
          Len(samples') = Len(identities') /\ BracketKnown' /\ SameBracket(samples', identities')
    BY <1>1, <1>5, <1>12
  <2>4. before # None => samples' # <<>> /\ samples'[1] = samples[1]
    BY <1>1, <1>11
  <2> QED
    BY <2>1, <2>2, <2>3, <2>4, <1>1, <1>2, <1>6, <1>7, <1>9, <1>10, ScrapeEnds
<1>14. TypeOK'
  BY <1>1, <1>4, <1>5, <1>7, <1>8, <1>13 DEF IInv, TypeOK
<1>15. InOrder'
  BY <1>1, <1>13 DEF IInv, InOrder
<1>16. OneStory(samples)' /\ TrueOfServer'
  BY <1>1 DEF IInv, OneStory, TrueOfServer, SameProcess, Served, Metrics
<1> QED
  BY <1>13, <1>14, <1>15, <1>16 DEF IInv

(* A step that only moves a task or begins a scrape. *)
LEMMA QuietStep ==
    ASSUME IInv, SamplerScrapes \/ SamplerEnds \/ BodyEnds \/ SamplerJoined \/ DrainAgain
    PROVE  IInv'
<1>0. /\ settings' = settings /\ server' = server /\ monitor' = monitor
      /\ samples' = samples /\ identities' = identities /\ errors' = errors
      /\ before' = before /\ quiet' = quiet /\ result' = result
  BY DEF SamplerScrapes, SamplerEnds, BodyEnds, SamplerJoined, DrainAgain, externalVars, logVars,
         drainVars
<1>1. /\ settings \in Settings /\ scrape \in [Tasks -> Scrapes]
      /\ OneScrape /\ errors \in BOOLEAN
      /\ pc \in {"before", "body", "stopping", "drain", "pause", "done"}
      /\ "main" \in Tasks /\ "sampler" \in Tasks
  BY DEF IInv, TypeOK, Tasks
<1>2. Begin("during") \in Scrapes /\ Begin("drain") \in Scrapes
  BY <1>1, BeginIs
<1>3. /\ scrape' \in [Tasks -> Scrapes] /\ pc # "done" /\ pc' # "done" /\ OneScrape'
      /\ pc' \in {"before", "body", "stopping", "drain", "pause", "done"}
      /\ PhasesSoFar \subseteq PhasesSoFar' /\ (pc' = "before" <=> pc = "before")
      /\ \A u \in Tasks : scrape'[u] = scrape[u] \/ scrape'[u] \in {Begin("during"), Begin("drain")}
      /\ \A u \in Tasks : Pending(u) => scrape'[u] = scrape[u]
  <2>1. CASE SamplerScrapes
    <3>1. /\ task = "waiting" /\ task' = "scraping" /\ pc' = pc
          /\ scrape' = [scrape EXCEPT !["sampler"] = Begin("during")]
      BY <2>1 DEF SamplerScrapes
    <3>2. pc \in {"body", "stopping"} /\ ~Busy("sampler") /\ ~Busy("main")
      BY <3>1, <1>1 DEF OneScrape
    <3>3. /\ scrape' \in [Tasks -> Scrapes] /\ scrape'["sampler"] = Begin("during")
          /\ scrape'["main"] = scrape["main"]
      BY <3>1, <1>1, <1>2
    <3>4. Begin("during").phase = "during"
      BY <1>1, BeginIs
    <3>5. OneScrape'
      BY <3>1, <3>2, <3>3, <3>4 DEF OneScrape, Busy
    <3>6. PhasesSoFar \subseteq PhasesSoFar'
      BY <3>1 DEF PhasesSoFar
    <3> QED
      BY <3>1, <3>2, <3>3, <3>5, <3>6 DEF Pending, Busy, Tasks
  <2>2. CASE SamplerEnds
    <3>1. task = "waiting" /\ task' = "ended" /\ pc' = pc /\ scrape' = scrape
      BY <2>2 DEF SamplerEnds
    <3> QED
      BY <3>1, <1>1 DEF OneScrape, Busy, PhasesSoFar
  <2>3. CASE BodyEnds
    <3>1. pc = "body" /\ pc' = "stopping" /\ task' = task /\ scrape' = scrape
      BY <2>3 DEF BodyEnds
    <3> QED
      BY <3>1, <1>1 DEF OneScrape, Busy, PhasesSoFar
  <2>4. CASE SamplerJoined \/ DrainAgain
    <3>1. /\ pc \in {"stopping", "pause"} /\ pc' = "drain" /\ task = "ended" /\ task' = "ended"
          /\ scrape' = [scrape EXCEPT !["main"] = Begin("drain")]
      BY <2>4, <1>1 DEF SamplerJoined, DrainAgain, OneScrape
    <3>2. ~Busy("sampler") /\ ~Busy("main")
      BY <3>1, <1>1 DEF OneScrape
    <3>3. /\ scrape' \in [Tasks -> Scrapes] /\ scrape'["main"] = Begin("drain")
          /\ scrape'["sampler"] = scrape["sampler"]
      BY <3>1, <1>1, <1>2
    <3>4. Begin("drain").phase = "drain"
      BY <1>1, BeginIs
    <3>5. OneScrape'
      BY <3>1, <3>2, <3>3, <3>4 DEF OneScrape, Busy
    <3>6. PhasesSoFar \subseteq PhasesSoFar'
      BY <3>1 DEF PhasesSoFar
    <3> QED
      BY <3>1, <3>2, <3>3, <3>5, <3>6 DEF Pending, Busy, Tasks
  <2> QED
    BY <2>1, <2>2, <2>3, <2>4
<1>4. TypeOK'
  <2>1. errors' \in BOOLEAN
    BY <1>0, <1>1
  <2> QED
    BY <2>1, <1>0, <1>3 DEF IInv, TypeOK
<1>5. InOrder' /\ OneStory(samples)' /\ TrueOfServer'
  BY <1>0, <1>3 DEF IInv, InOrder, OneStory, TrueOfServer, SameProcess, Served, Metrics
<1>6. \A u \in Tasks : /\ Pending(u)' <=> Pending(u)
                       /\ settings.identity /\ scrape'[u].stage = "get" => scrape'[u] = scrape[u]
  <2>1. Begin("during").stage # "last" /\ (settings.identity => Begin("during").stage # "get")
    BY <1>1, BeginIs
  <2>2. Begin("drain").stage # "last" /\ (settings.identity => Begin("drain").stage # "get")
    BY <1>1, BeginIs
  <2> QED
    BY <2>1, <2>2, <1>3 DEF Pending
<1>7. FirstSample'
  BY <1>0, <1>1, <1>3, <1>6 DEF IInv, FirstSample, Newest
<1>8. Bracketed'
  <2> SUFFICES ASSUME Good'
               PROVE  /\ HasBracket' /\ FirstKnown' /\ BracketKnown'
                      /\ SameBracket(samples, identities)'
    BY DEF Bracketed
  <2>1. settings.identity /\ HasBracket /\ FirstKnown /\ BracketKnown
    BY <1>0, <1>3 DEF IInv, Good, Bracketed
  <2>2. SameBracket(samples, identities)'
    BY <1>0, <1>3 DEF IInv, Good, Bracketed, SameBracket
  <2>3. HasBracket' /\ BracketKnown'
    BY <2>1, <1>0, <1>6 DEF HasBracket, BracketKnown, Known, Whole
  <2>4. FirstKnown'
    <3> SUFFICES ASSUME NEW u \in Tasks
                 PROVE  /\ scrape'[u].stage \in {"get", "last"} => Known(scrape'[u].first)
                        /\ Pending(u)' =>
                              /\ scrape'[u].metrics # None
                              /\ scrape'[u].first = monitor.id => monitor.pinned =< Newest.generation
      BY <1>0 DEF FirstKnown, Known, Newest
    <3> QED
      BY <2>1, <1>3, <1>6 DEF FirstKnown, Pending
  <2> QED
    BY <2>2, <2>3, <2>4
<1> QED
  BY <1>0, <1>3, <1>4, <1>5, <1>7, <1>8, NoVerdict DEF IInv

(* The sampler is cut short or everything is: no report can be valid after that. *)
LEMMA AbortStep ==
    ASSUME IInv, SamplerStopTimeout \/ Cancel
    PROVE  IInv'
<1>1. /\ settings' = settings /\ server' = server /\ monitor' = monitor /\ samples' = samples
      /\ before' = before /\ quiet' = quiet /\ result' = result /\ AbortSampler
  BY DEF SamplerStopTimeout, Cancel, externalVars, drainVars
<1>2. /\ settings \in Settings /\ scrape \in [Tasks -> Scrapes] /\ identities \in Seq(Brackets)
      /\ errors \in BOOLEAN
      /\ "main" \in Tasks /\ "sampler" \in Tasks
  BY DEF IInv, TypeOK, Tasks
<1>3. identities' \in Seq(Brackets) /\ task' = "ended"
  <2>1. [first |-> scrape["sampler"].first, last |-> None] \in Brackets
    BY <1>2 DEF Scrapes, Brackets, IdSet
  <2>2. Append(identities, [first |-> scrape["sampler"].first, last |-> None]) \in Seq(Brackets)
    BY <2>1, <1>2, AppendProperties
  <2> QED
    BY <2>2, <1>1, <1>2 DEF AbortSampler
<1>4. /\ scrape' \in [Tasks -> Scrapes] /\ pc # "done" /\ pc' \in {"drain", "done"}
      /\ OneScrape' /\ \A u \in Tasks : ~Pending(u)'
  <2>1. CASE SamplerStopTimeout
    <3>1. pc = "stopping" /\ pc' = "drain" /\ scrape' = [main |-> Begin("drain"), sampler |-> NoScrape]
      BY <2>1 DEF SamplerStopTimeout
    <3>2. /\ Begin("drain") \in Scrapes /\ Begin("drain").phase = "drain"
          /\ Begin("drain").stage # "last"
      BY <1>2, BeginIs
    <3>3. /\ scrape' \in [Tasks -> Scrapes] /\ scrape'["main"] = Begin("drain")
          /\ scrape'["sampler"] = NoScrape
      BY <3>1, <3>2, NoScrapeIs DEF Tasks
    <3> QED
      BY <3>1, <3>2, <3>3, <1>3, NoScrapeIs DEF OneScrape, Busy, Pending, Tasks
  <2>2. CASE Cancel
    <3>1. pc # "done" /\ pc' = "done" /\ scrape' = [t \in Tasks |-> NoScrape]
      BY <2>2 DEF Cancel
    <3> QED
      BY <3>1, <1>2, <1>3, NoScrapeIs DEF OneScrape, Busy, Pending
  <2> QED
    BY <2>1, <2>2
<1>5. errors' \in BOOLEAN
  BY <1>2 DEF SamplerStopTimeout, Cancel
<1>6. TypeOK'
  BY <1>1, <1>3, <1>4, <1>5 DEF IInv, TypeOK
<1>7. InOrder' /\ OneStory(samples)' /\ TrueOfServer'
  <2>1. PhasesSoFar \subseteq PhasesSoFar'
    BY <1>4 DEF PhasesSoFar
  <2> QED
    BY <2>1, <1>1 DEF IInv, InOrder, OneStory, TrueOfServer, SameProcess, Served, Metrics
<1>8. FirstSample'
  BY <1>1, <1>4 DEF IInv, FirstSample
<1>9. Reported' /\ Verdict'
  BY <1>1, <1>4, NoVerdict
<1>10. Bracketed'
  <2>1. ~result'.reported
    BY <1>1, <1>4 DEF IInv, Reported
  <2>2. errors' \/ pc' = "done"
    BY DEF SamplerStopTimeout, Cancel
  <2> QED
    BY <2>1, <2>2 DEF Bracketed, Good
<1> QED
  BY <1>4, <1>6, <1>7, <1>8, <1>9, <1>10 DEF IInv

(* The invariant is inductive. *)
LEMMA Inductive == IInv /\ [Next]_vars => IInv'
<1> SUFFICES ASSUME IInv, [Next]_vars PROVE IInv'
  OBVIOUS
<1>1. CASE Environment
  BY <1>1, EnvironmentStep
<1>2. ASSUME NEW t \in Tasks, FirstIdentity(t) PROVE IInv'
  BY <1>2, FirstIdentityStep
<1>3. ASSUME NEW t \in Tasks, Get(t) PROVE IInv'
  BY <1>3, GetStep
<1>4. ASSUME NEW t \in Tasks, LastIdentity(t) PROVE IInv'
  BY <1>4, LastIdentityStep
<1>5. CASE SamplerScrapes \/ SamplerEnds \/ BodyEnds \/ SamplerJoined \/ DrainAgain
  BY <1>5, QuietStep
<1>6. CASE SamplerStopTimeout \/ Cancel
  BY <1>6, AbortStep
<1>7. CASE Done \/ UNCHANGED vars
  BY <1>7, Stutter DEF Done
<1> QED
  BY <1>1, <1>2, <1>3, <1>4, <1>5, <1>6, <1>7 DEF Next, Client

---------------------------------------------------------------------------
(***************************************************************************)
(* The theorems.                                                           *)
(***************************************************************************)

(***************************************************************************)
(* Whenever _report calls the boundaries valid, every sample of the window *)
(* came from one server process, every scrape was whole, and the sampler   *)
(* was gone before the drain began: for any number of requests, restarts   *)
(* of the server and of its sidecar, failed scrapes and drain rounds.      *)
(***************************************************************************)
THEOREM ReportSound == Spec => []ReportIsSound
<1>1. IInv => ReportIsSound
  <2>1. ASSUME IInv PROVE SamplesInOrder
    BY <2>1 DEF IInv, InOrder, OneScrape, Busy, SamplesInOrder
  <2> QED
    BY <2>1 DEF IInv, Verdict, ReportIsSound
<1> QED
  BY <1>1, InitIInv, Inductive, PTL DEF Spec

(***************************************************************************)
(* The delta of a valid report (_delta) is the number of requests that     *)
(* began between the first and the last sample, and none was under way at  *)
(* either end.                                                             *)
(***************************************************************************)
THEOREM DeltaIsTheWork == Spec => []ValidDeltaIsTheWork
<1>1. IInv => ValidDeltaIsTheWork
  BY DEF IInv, Verdict
<1> QED
  BY <1>1, InitIInv, Inductive, PTL DEF Spec
=============================================================================

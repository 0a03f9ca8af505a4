--------------------------- MODULE AgentRunProofs ---------------------------
(***************************************************************************)
(* Theorems about a run of the coding agent, for any number of turns, of   *)
(* tool calls in a response and of cancellations.                          *)
(***************************************************************************)
EXTENDS AgentRun, SequenceTheorems, FiniteSetTheorems, WellFoundedInduction, TLAPS

Calling == {"before", "call", "sampler", "after"}
Tooling == {"tool", "mkdir", "upload", "write", "cleanup"}
Loop == {"turn"} \cup Calling \cup Tooling
Ends == {"no_tool_calls", "max_turns", "max_output_tokens", "empty_model_response"}
Stops == Ends \cup {"error", "cancelled_or_task_timeout"}

CallIds == Nat \X Nat
Items == [type : {"call", "output"}, id : CallIds]
Amounts == Nat \cup {None}
Counters == [model : Nat, tool : Nat, failures : Nat]
Sums == [input : Amounts, cached : Amounts]

PlainRows == [type : {"run_config", "failed_inference", "failed_inference_metrics",
                      "agent_error", "session_final"}]
InferenceRows == [type : {"inference"}, usage : Usages, metrics : {"disabled", "reported"}]
ToolRows == [type : {"tool"}, call : CallIds, success : BOOLEAN]
SummaryRows == [type : {"task_summary"}, stop : Stops, completed : BOOLEAN,
                limitHit : {TRUE, FALSE, None}, counts : Counters, totals : Sums,
                fresh : Int \cup {None}]
TraceRows == PlainRows \cup InferenceRows \cup ToolRows \cup SummaryRows

TypeInv ==
    /\ pc \in Loop \cup {"close", "final", "done"}
    /\ turn \in Nat
    /\ history \in Seq(Items) /\ calls \in Seq(CallIds)
    /\ totals \in Sums /\ counts \in Counters
    /\ stop_reason \in Stops
    /\ exc \in {"none", "error", "cancelled"}
    /\ answer \in BOOLEAN
    /\ trace \in Seq(TraceRows)

(***************************************************************************)
(* The inductive invariant, in parts.  The counters and totals follow the  *)
(* rows of the trace at every moment, not only in a summary.               *)
(***************************************************************************)
Accounted(rows, c, t) ==
    /\ c.model = Cardinality({i \in DOMAIN rows : rows[i].type = "inference"})
    /\ c.tool = Cardinality({i \in DOMAIN rows : rows[i].type = "tool"})
    /\ c.failures = Cardinality({i \in DOMAIN rows : rows[i].type = "tool" /\ ~rows[i].success})
    /\ t.input = Totals(rows, "input")[Len(rows)]
    /\ t.cached = Totals(rows, "cached")[Len(rows)]

CachedIsInput == totals.cached # None => totals.input # None /\ totals.cached =< totals.input

\* A summary was written from the counters as they are.
SummaryTells ==
    \A i \in DOMAIN trace : trace[i].type = "task_summary" =>
        /\ i = Len(trace) /\ pc = "done"
        /\ trace[i].counts = counts /\ trace[i].totals = totals
        /\ trace[i].fresh # None => trace[i].fresh >= 0
        /\ trace[i].completed => answer

\* The order of the identifiers, by turn and then by place in the response.
Earlier(a, b) == a[1] < b[1] \/ (a[1] = b[1] /\ a[2] < b[2])

\* The calls without an output are those that wait, and the outputs came in
\* the order of the calls.
IsCall(h, i) == h[i].type = "call"
IsOutput(h, i) == h[i].type = "output"

Pairing(h, waiting, t) ==
    /\ \A i \in DOMAIN h : h[i].id[1] =< t
    /\ \A i, j \in DOMAIN h : i < j /\ h[i].type = h[j].type => Earlier(h[i].id, h[j].id)
    /\ \A j \in DOMAIN h : IsOutput(h, j) =>
          \E i \in DOMAIN h : i < j /\ IsCall(h, i) /\ h[i].id = h[j].id
    /\ \A i \in DOMAIN h : IsCall(h, i) =>
          \/ \E j \in DOMAIN h : IsOutput(h, j) /\ h[i].id = h[j].id
          \/ \E k \in DOMAIN waiting : waiting[k] = h[i].id
    /\ \A k \in DOMAIN waiting :
          /\ waiting[k][1] = t
          /\ \E i \in DOMAIN h : IsCall(h, i) /\ h[i].id = waiting[k]
          /\ \A j \in DOMAIN h : IsOutput(h, j) => Earlier(h[j].id, waiting[k])
          /\ \A l \in DOMAIN waiting : k < l => Earlier(waiting[k], waiting[l])

HistoryInv ==
    pc \in Loop =>
        /\ Pairing(history, calls, turn)
        /\ pc \in Calling => \A i \in DOMAIN history : history[i].id[1] < turn
        /\ pc \in Tooling <=> calls # <<>>

\* How the loop was left is what stop_reason will say.
Reported(e, stop) ==
    /\ e = "none" => stop \in Ends
    /\ e = "error" => stop = "error"
    /\ e = "cancelled" => stop = "cancelled_or_task_timeout"

EndInv ==
    /\ pc \in Loop => exc = "none"
    /\ pc = "close" => (exc = "none" => stop_reason \in Ends)
    /\ pc \in {"final", "done"} /\ exc # "cancelled" => Reported(exc, stop_reason)
    /\ stop_reason = "no_tool_calls" => answer
    /\ pc = "done" /\ exc # "cancelled" =>
          /\ Len(trace) > 0
          /\ trace[Len(trace)].type = "task_summary"
          /\ trace[Len(trace)].stop = stop_reason
          /\ trace[Len(trace)].limitHit = None <=> stop_reason \notin Ends

ReplyInv == pc \in {"sampler", "after"} => reply \in Responses \cup {Error, Cancelled}

WriteInv ==
    /\ leftovers \subseteq {"mkdir", "cleanup"}
    /\ pc = "cleanup" =>
          /\ outcome \in {"written", "failed", "error", "cancelled"}
          /\ outcome = "written" => file = Current

IInv ==
    /\ TypeInv /\ Accounted(trace, counts, totals) /\ CachedIsInput /\ SummaryTells
    /\ HistoryInv /\ EndInv /\ ReplyInv /\ WriteInv

(***************************************************************************)
(* Induction over the natural numbers, for a set of them                   *)
(***************************************************************************)

\* A set that has 0 and, with a number, the next one, has them all.
LEMMA SetInduction ==
  ASSUME NEW S, 0 \in S, \A n \in Nat : n \in S => n + 1 \in S
  PROVE  Nat \subseteq S
<1> DEFINE R == OpToRel(<, Nat)
           T == Nat \ S
<1> SUFFICES ASSUME T # {} PROVE FALSE
  OBVIOUS
<1>1. T \subseteq Nat
  OBVIOUS
<1>2. IsWellFoundedOn(R, Nat)
  BY NatLessThanWellFounded
<1>3. \A x, y \in Nat : x < y => <<x, y>> \in R
  BY DEF OpToRel
<1> HIDE DEF R, T
<1>4. PICK x \in T : \A y \in T : ~(<<y, x>> \in R)
  BY <1>1, <1>2, WFMin
<1>5. x \in Nat /\ x # 0 /\ x \notin S
  BY DEF T
<1>6. x - 1 \in Nat /\ (x - 1) + 1 = x
  BY <1>5
<1>7. x - 1 \in T
  BY <1>5, <1>6 DEF T
<1>8. <<x - 1, x>> \in R
  BY <1>3, <1>5, <1>6
<1> QED BY <1>4, <1>7, <1>8

(***************************************************************************)
(* The running total                                                       *)
(***************************************************************************)
Plus(total, row, field) ==
    IF row.type # "inference" THEN total
    ELSE IF total = None \/ row.usage[field] = None THEN None
    ELSE total + row.usage[field]

IsTotal(g, rows, field, m) ==
    g = [n \in 0..m |-> IF n = 0 THEN 0 ELSE Plus(g[n - 1], rows[n], field)]

\* There is a running total of every length.
LEMMA TotalExists ==
  ASSUME NEW rows, NEW field, NEW m \in Nat
  PROVE  \E g : IsTotal(g, rows, field, m)
<1> DEFINE S == {k \in Nat : \E g : IsTotal(g, rows, field, k)}
<1>1. 0 \in S
  <2>1. IsTotal([n \in 0..0 |-> 0], rows, field, 0)
    BY DEF IsTotal
  <2> QED BY <2>1
<1>2. ASSUME NEW n \in Nat, n \in S PROVE n + 1 \in S
  <2>1. PICK g : IsTotal(g, rows, field, n)
    BY <1>2
  <2> DEFINE h == [k \in 0..(n + 1) |-> IF k = n + 1 THEN Plus(g[n], rows[n + 1], field) ELSE g[k]]
  <2>2. ASSUME NEW k \in 0..(n + 1)
        PROVE  h[k] = IF k = 0 THEN 0 ELSE Plus(h[k - 1], rows[k], field)
    <3>1. CASE k = n + 1
      BY <3>1
    <3>2. CASE k # n + 1
      <4>1. k \in 0..n
        BY <3>2
      <4>2. g[k] = IF k = 0 THEN 0 ELSE Plus(g[k - 1], rows[k], field)
        BY <2>1, <4>1 DEF IsTotal
      <4> QED BY <4>1, <4>2
    <3> QED BY <3>1, <3>2
  <2>3. IsTotal(h, rows, field, n + 1)
    BY <2>2 DEF IsTotal
  <2> QED BY <2>3
<1> HIDE DEF S
<1>3. Nat \subseteq S
  BY <1>1, <1>2, SetInduction
<1> QED BY <1>3 DEF S

\* Totals is that running total.
LEMMA TotalsAre ==
  ASSUME NEW rows, NEW field, Len(rows) \in Nat
  PROVE  IsTotal(Totals(rows, field), rows, field, Len(rows))
<1>1. Totals(rows, field) = CHOOSE g : IsTotal(g, rows, field, Len(rows))
  BY Zenon DEF Totals, IsTotal, Plus
<1>2. \E g : IsTotal(g, rows, field, Len(rows))
  BY TotalExists
<1> QED BY <1>1, <1>2, Zenon

\* One more row adds to the total what it says.
LEMMA TotalOfAppend ==
  ASSUME NEW S, NEW rows \in Seq(S), NEW row \in S, NEW field
  PROVE  Totals(Append(rows, row), field)[Len(Append(rows, row))] =
           Plus(Totals(rows, field)[Len(rows)], row, field)
<1> DEFINE n == Len(rows)
           more == Append(rows, row)
           f == Totals(rows, field)
           g == Totals(more, field)
<1>1. /\ n \in Nat /\ Len(more) = n + 1 /\ more[n + 1] = row
      /\ \A k \in 1..n : more[k] = rows[k]
  OBVIOUS
<1> HIDE DEF n, more
<1>2. IsTotal(f, rows, field, n) /\ IsTotal(g, more, field, n + 1)
  <2>1. IsTotal(f, rows, field, n)
    BY <1>1, TotalsAre DEF n
  <2>2. IsTotal(g, more, field, Len(more))
    BY <1>1, TotalsAre
  <2> QED BY <1>1, <2>1, <2>2
<1> HIDE DEF f, g
<1>3. \A k \in 0..n : f[k] = IF k = 0 THEN 0 ELSE Plus(f[k - 1], rows[k], field)
  BY <1>2 DEF IsTotal
<1>4. \A k \in 0..(n + 1) : g[k] = IF k = 0 THEN 0 ELSE Plus(g[k - 1], more[k], field)
  BY <1>2 DEF IsTotal
<1> DEFINE S0 == {k \in Nat : k =< n => g[k] = f[k]}
<1>5. 0 \in S0
  BY <1>1, <1>3, <1>4
<1>6. ASSUME NEW k \in Nat, k \in S0 PROVE k + 1 \in S0
  <2> SUFFICES ASSUME k + 1 =< n PROVE g[k + 1] = f[k + 1]
    OBVIOUS
  <2>1. k + 1 \in 0..n /\ k + 1 \in 0..(n + 1) /\ k + 1 # 0 /\ (k + 1) - 1 = k /\ k + 1 \in 1..n
    BY <1>1
  <2>2. g[k] = f[k] /\ more[k + 1] = rows[k + 1]
    BY <1>1, <1>6, <2>1
  <2>3. f[k + 1] = Plus(f[k], rows[k + 1], field)
    BY <1>3, <2>1
  <2>4. g[k + 1] = Plus(g[k], more[k + 1], field)
    BY <1>4, <2>1
  <2> QED BY <2>2, <2>3, <2>4
<1> HIDE DEF S0
<1>7. Nat \subseteq S0
  BY <1>5, <1>6, SetInduction
<1>8. g[n] = f[n]
  BY <1>1, <1>7 DEF S0
<1>9. n + 1 \in 0..(n + 1) /\ n + 1 # 0 /\ (n + 1) - 1 = n
  BY <1>1
<1>10. g[n + 1] = Plus(g[n], more[n + 1], field)
  BY <1>4, <1>9
<1> QED BY <1>1, <1>8, <1>10 DEF n, more, f, g

(***************************************************************************)
(* The rows of the trace                                                   *)
(***************************************************************************)

\* One more row is one more position of its kind.
LEMMA RowsOfAppend ==
  ASSUME NEW n \in Nat, NEW C, C \subseteq 1..n
  PROVE  Cardinality(C) \in Nat /\ Cardinality(C \cup {n + 1}) = Cardinality(C) + 1
<1>1. IsFiniteSet(1..n)
  BY FS_Interval
<1>2. IsFiniteSet(C)
  BY <1>1, FS_Subset
<1>3. n + 1 \notin C
  OBVIOUS
<1> QED BY <1>2, <1>3, FS_AddElement, FS_CardinalityType

\* A row that is neither an inference nor a tool changes no account.
LEMMA PlainRow ==
  ASSUME NEW rows \in Seq(TraceRows), NEW row \in TraceRows, NEW c, NEW t,
         Accounted(rows, c, t), row.type \notin {"inference", "tool"}
  PROVE  Accounted(Append(rows, row), c, t) /\ Append(rows, row) \in Seq(TraceRows)
<1> DEFINE more == Append(rows, row)
<1>1. /\ Len(rows) \in Nat /\ DOMAIN rows = 1..Len(rows)
      /\ DOMAIN more = 1..(Len(rows) + 1)
      /\ more[Len(rows) + 1] = row /\ \A k \in 1..Len(rows) : more[k] = rows[k]
  OBVIOUS
<1>2. \A field : Totals(more, field)[Len(more)] = Totals(rows, field)[Len(rows)]
  BY TotalOfAppend DEF Plus
<1> HIDE DEF more
<1>3. /\ {i \in DOMAIN more : more[i].type = "inference"}
           = {i \in DOMAIN rows : rows[i].type = "inference"}
      /\ {i \in DOMAIN more : more[i].type = "tool"}
           = {i \in DOMAIN rows : rows[i].type = "tool"}
      /\ {i \in DOMAIN more : more[i].type = "tool" /\ ~more[i].success}
           = {i \in DOMAIN rows : rows[i].type = "tool" /\ ~rows[i].success}
  BY <1>1
<1>4. Accounted(more, c, t)
  BY <1>2, <1>3 DEF Accounted
<1> QED BY <1>4 DEF more

\* An inference is counted and its usage added.
LEMMA InferenceRow ==
  ASSUME NEW rows \in Seq(TraceRows), NEW row \in InferenceRows, NEW c \in Counters, NEW t \in Sums,
         Accounted(rows, c, t)
  PROVE  Accounted(Append(rows, row), [c EXCEPT !.model = @ + 1],
                   [input |-> AddUsage(t.input, row.usage.input),
                    cached |-> AddUsage(t.cached, row.usage.cached)])
<1> DEFINE more == Append(rows, row)
           n == Len(rows)
           I == {i \in DOMAIN rows : rows[i].type = "inference"}
<1>0. row \in TraceRows /\ row.type = "inference"
  BY DEF TraceRows, InferenceRows
<1>1. /\ n \in Nat /\ DOMAIN rows = 1..n /\ DOMAIN more = 1..(n + 1)
      /\ more[n + 1] = row /\ \A k \in 1..n : more[k] = rows[k]
  BY <1>0
<1>2. /\ Totals(more, "input")[Len(more)] = AddUsage(t.input, row.usage.input)
      /\ Totals(more, "cached")[Len(more)] = AddUsage(t.cached, row.usage.cached)
  <2>1. \A field : Totals(more, field)[Len(more)] = Plus(Totals(rows, field)[Len(rows)], row, field)
    BY <1>0, TotalOfAppend
  <2>2. row.usage["input"] = row.usage.input /\ row.usage["cached"] = row.usage.cached
    OBVIOUS
  <2> QED BY <1>0, <2>1, <2>2 DEF Plus, AddUsage, Accounted
<1>6. I \subseteq 1..n
  BY <1>1
<1> HIDE DEF more
<1>3. /\ {i \in DOMAIN more : more[i].type = "inference"} = I \cup {n + 1}
      /\ {i \in DOMAIN more : more[i].type = "tool"}
           = {i \in DOMAIN rows : rows[i].type = "tool"}
      /\ {i \in DOMAIN more : more[i].type = "tool" /\ ~more[i].success}
           = {i \in DOMAIN rows : rows[i].type = "tool" /\ ~rows[i].success}
  BY <1>0, <1>1
<1> HIDE DEF I
<1>4. Cardinality(I \cup {n + 1}) = Cardinality(I) + 1
  BY <1>1, <1>6, RowsOfAppend
<1>5. Accounted(more, [c EXCEPT !.model = @ + 1],
                [input |-> AddUsage(t.input, row.usage.input),
                 cached |-> AddUsage(t.cached, row.usage.cached)])
  <2>1. c.model = Cardinality(I)
    BY DEF Accounted, I
  <2> QED BY <1>2, <1>3, <1>4, <2>1 DEF Accounted, Counters
<1> QED BY <1>5 DEF more

\* A tool is counted, and so is its failure.
LEMMA ToolRow ==
  ASSUME NEW rows \in Seq(TraceRows), NEW row \in ToolRows, NEW c \in Counters, NEW t,
         Accounted(rows, c, t)
  PROVE  Accounted(Append(rows, row),
                   [c EXCEPT !.tool = @ + 1, !.failures = @ + IF row.success THEN 0 ELSE 1], t)
<1> DEFINE more == Append(rows, row)
           n == Len(rows)
           I == {i \in DOMAIN rows : rows[i].type = "tool"}
           F == {i \in DOMAIN rows : rows[i].type = "tool" /\ ~rows[i].success}
           G == {i \in DOMAIN more : more[i].type = "tool" /\ ~more[i].success}
<1>0. row \in TraceRows /\ row.type = "tool" /\ row.success \in BOOLEAN
  BY DEF TraceRows, ToolRows
<1>1. /\ n \in Nat /\ DOMAIN rows = 1..n /\ DOMAIN more = 1..(n + 1)
      /\ more[n + 1] = row /\ \A k \in 1..n : more[k] = rows[k]
  BY <1>0
<1>2. \A field : Totals(more, field)[Len(more)] = Totals(rows, field)[Len(rows)]
  BY <1>0, TotalOfAppend DEF Plus
<1>6. I \subseteq 1..n /\ F \subseteq 1..n
  BY <1>1
<1> HIDE DEF more
<1>3. /\ {i \in DOMAIN more : more[i].type = "inference"}
           = {i \in DOMAIN rows : rows[i].type = "inference"}
      /\ {i \in DOMAIN more : more[i].type = "tool"} = I \cup {n + 1}
  BY <1>0, <1>1
<1>4. G = IF row.success THEN F ELSE F \cup {n + 1}
  <2>1. CASE row.success
    BY <1>0, <1>1, <2>1
  <2>2. CASE ~row.success
    BY <1>0, <1>1, <2>2
  <2> QED BY <2>1, <2>2
<1>8. c.tool = Cardinality(I) /\ c.failures = Cardinality(F)
  BY DEF Accounted
<1> HIDE DEF I, F, G
<1>9. Cardinality(I \cup {n + 1}) = Cardinality(I) + 1
  BY <1>1, <1>6, RowsOfAppend
<1>10. Cardinality(G) = Cardinality(F) + IF row.success THEN 0 ELSE 1
  <2>1. CASE row.success
    <3>1. Cardinality(F) \in Nat
      BY <1>1, <1>6, RowsOfAppend
    <3> QED BY <1>4, <2>1, <3>1
  <2>2. CASE ~row.success
    BY <1>1, <1>4, <1>6, <2>2, RowsOfAppend
  <2> QED BY <2>1, <2>2
<1>11. Accounted(more, [c EXCEPT !.tool = @ + 1, !.failures = @ + IF row.success THEN 0 ELSE 1], t)
  BY <1>2, <1>3, <1>8, <1>9, <1>10 DEF Accounted, Counters, G
<1> QED BY <1>11 DEF more

(***************************************************************************)
(* The steps                                                               *)
(***************************************************************************)

\* What create_response returns.
LEMMA ResponseFacts ==
  ASSUME NEW r \in Responses
  PROVE  /\ r.usage \in Usages /\ r.calls \in Nat /\ r.text \in BOOLEAN
         /\ r.finish \in {"stop", "tool_calls", "length", "other"}
         /\ r # Error /\ r # Cancelled
  BY AgentConstants DEF Responses, Error, Cancelled

\* The usage of a response is known or not, and cached tokens are input.
LEMMA UsageFacts ==
  ASSUME NEW u \in Usages
  PROVE  /\ u.input \in Amounts /\ u.cached \in Amounts
         /\ u.cached # None => u.input # None /\ u.cached =< u.input
  BY AgentConstants DEF Usages, Amounts

loopOnly == <<turn, history, calls, totals, counts, answer, stop_reason, exc, trace>>

\* The kinds of step, by what they do to the loop's state.
Moves == /\ \/ pc \in Calling /\ pc' \in Calling
            \/ pc \in Tooling /\ pc' \in Tooling
         /\ UNCHANGED loopOnly
Fails == \E kind \in {"error", "cancelled"} : pc \in Calling /\ CallFails(kind)
Concludes == \E r \in Responses, m \in {"disabled", "reported"} : pc \in Calling /\ Answered(r, m)
Observes == \E success \in BOOLEAN : pc \in Tooling /\ Observe(success)
Raises == \E kind \in {"error", "cancelled"} : pc \in Tooling /\ ToolRaises(kind)
Leaves == \E e \in {exc, "cancelled"} : pc = "close" /\ LeaveLoop(e)

\* The metrics window and the model call.
LEMMA ConcludeKinds ==
  ASSUME NEW r \in Responses \cup {Error, Cancelled}, NEW m, Conclude(r, m)
  PROVE  \/ \E kind \in {"error", "cancelled"} : CallFails(kind)
         \/ r \in Responses /\ Answered(r, m)
<1>1. CASE r = Error
  BY <1>1 DEF Conclude
<1>2. CASE r = Cancelled
  <2>1. r # Error
    BY <1>2 DEF Error, Cancelled
  <2> QED BY <1>2, <2>1 DEF Conclude
<1>3. CASE r \in Responses
  BY <1>3, ResponseFacts DEF Conclude
<1> QED BY <1>1, <1>2, <1>3

LEMMA CallKinds ==
  ASSUME IInv, \/ ScrapedBefore \/ CallReturns \/ SamplerStops \/ ScrapedAfter
               \/ CancelBefore \/ CancelCall \/ CancelSampler \/ CancelAfter
  PROVE  Moves \/ Fails \/ Concludes
<1>1. CASE ScrapedBefore \/ SamplerStops \/ CancelSampler
  BY <1>1 DEF ScrapedBefore, SamplerStops, CancelSampler, Cancel, Moves, loopOnly, loopVars, Calling
<1>2. CASE CallReturns
  <2>1. PICK r \in Responses \cup {Error} :
          IF settings.metrics
          THEN /\ reply' = r /\ pc' = "sampler"
               /\ UNCHANGED <<turn, history, calls, totals, counts, window, stop_reason,
                              answer, exc, trace>>
          ELSE Conclude(r, "disabled") /\ UNCHANGED <<window, reply>>
    BY <1>2 DEF CallReturns
  <2>2. CASE settings.metrics
    BY <1>2, <2>1, <2>2 DEF CallReturns, Moves, loopOnly, Calling
  <2>3. CASE ~settings.metrics
    <3>1. Conclude(r, "disabled") /\ pc \in Calling
      BY <1>2, <2>1, <2>3 DEF CallReturns, Calling
    <3> QED BY <3>1, ConcludeKinds DEF Fails, Concludes
  <2> QED BY <2>2, <2>3
<1>3. CASE ScrapedAfter
  <2>1. Conclude(reply, "reported") /\ pc \in Calling /\ reply \in Responses \cup {Error, Cancelled}
    BY <1>3 DEF ScrapedAfter, Calling, IInv, ReplyInv
  <2> QED BY <2>1, ConcludeKinds DEF Fails, Concludes
<1>4. CASE CancelBefore \/ CancelAfter
  BY <1>4 DEF CancelBefore, CancelAfter, Cancel, Fails, Calling
<1>5. CASE CancelCall
  <2>1. CASE settings.metrics
    BY <1>5, <2>1 DEF CancelCall, Cancel, Moves, loopOnly, Calling
  <2>2. CASE ~settings.metrics
    BY <1>5, <2>2 DEF CancelCall, Cancel, Fails, Calling
  <2> QED BY <2>1, <2>2
<1> QED BY <1>1, <1>2, <1>3, <1>4, <1>5

\* The tools.
LEMMA ToolKinds ==
  ASSUME IInv, \/ SimpleTool \/ WriteFile \/ MkdirReturns \/ UploadReturns \/ WriteReturns
               \/ CleanupReturns
               \/ CancelTool \/ CancelMkdir \/ CancelTransfer \/ CancelCleanup
  PROVE  Moves \/ Observes \/ Raises
<1>1. CASE SimpleTool
  BY <1>1 DEF SimpleTool, Observes, Raises, Tooling
<1>2. CASE WriteFile
  BY <1>2 DEF WriteFile, Moves, loopOnly, loopVars, Tooling
<1>3. CASE MkdirReturns
  BY <1>3 DEF MkdirReturns, Moves, loopOnly, loopVars, Tooling, Observes, Raises
<1>4. CASE UploadReturns \/ WriteReturns \/ CancelTransfer
  BY <1>4 DEF UploadReturns, WriteReturns, CancelTransfer, Cancel, Clean, Moves, loopOnly,
              loopVars, Tooling
<1>5. CASE CleanupReturns
  <2>1. pc = "cleanup" /\ outcome \in {"written", "failed", "error", "cancelled"}
    BY <1>5 DEF CleanupReturns, IInv, WriteInv
  <2>2. CASE outcome = "written"
    BY <1>5, <2>1, <2>2 DEF CleanupReturns, Observes, Tooling
  <2>3. CASE outcome = "failed"
    BY <1>5, <2>1, <2>3 DEF CleanupReturns, Observes, Tooling
  <2>4. CASE outcome \in {"error", "cancelled"}
    BY <1>5, <2>1, <2>4 DEF CleanupReturns, Raises, Tooling
  <2> QED BY <2>1, <2>2, <2>3, <2>4
<1>6. CASE CancelTool \/ CancelMkdir \/ CancelCleanup
  BY <1>6 DEF CancelTool, CancelMkdir, CancelCleanup, Cancel, Raises, Tooling
<1> QED BY <1>1, <1>2, <1>3, <1>4, <1>5, <1>6

\* Every step is of one of these kinds.
LEMMA StepKinds ==
  ASSUME IInv, [Next]_vars
  PROVE  \/ Moves \/ Fails \/ Concludes \/ Observes \/ Raises \/ Leaves
         \/ TurnStarts \/ TurnsExhausted \/ SessionFinished \/ CancelFinal \/ UNCHANGED vars
<1>1. CASE ClientCloses \/ CancelClose
  BY <1>1 DEF ClientCloses, CancelClose, Cancel, Leaves
<1> QED BY <1>1, CallKinds, ToolKinds DEF Next, Run, Cancellation, Done

(***************************************************************************)
(* Types and accounts                                                      *)
(***************************************************************************)
NoSummary(rows) == \A i \in DOMAIN rows : rows[i].type # "task_summary"

AccountInv == TypeInv /\ Accounted(trace, counts, totals) /\ CachedIsInput /\ SummaryTells

\* Rows that are neither counted nor the summary.
LEMMA PlainRows1 ==
  ASSUME NEW rows \in Seq(TraceRows), NEW row \in PlainRows, NEW c, NEW t,
         Accounted(rows, c, t), NoSummary(rows)
  PROVE  /\ rows \o <<row>> = Append(rows, row)
         /\ Append(rows, row) \in Seq(TraceRows)
         /\ Accounted(Append(rows, row), c, t) /\ NoSummary(Append(rows, row))
<1>1. row \in TraceRows /\ row.type \notin {"inference", "tool", "task_summary"}
  BY DEF TraceRows, PlainRows
<1>2. /\ rows \o <<row>> = Append(rows, row)
      /\ Append(rows, row) \in Seq(TraceRows) /\ NoSummary(Append(rows, row))
  BY <1>1 DEF NoSummary
<1> QED BY <1>1, <1>2, PlainRow

\* Nothing is appended after a summary.
LEMMA NoSummaryYet ==
  ASSUME IInv, pc # "done"
  PROVE  NoSummary(trace)
  BY DEF IInv, SummaryTells, NoSummary

\* Steps that leave the trace alone.
LEMMA QuietKeepsAccounts ==
  ASSUME IInv, pc # "done", UNCHANGED <<trace, counts, totals, answer>>,
         turn' \in Nat, history' \in Seq(Items), calls' \in Seq(CallIds),
         pc' \in Loop \cup {"close", "final", "done"}, stop_reason' \in Stops,
         exc' \in {"none", "error", "cancelled"}
  PROVE  AccountInv'
<1>1. TypeInv'
  BY DEF IInv, TypeInv
<1>2. SummaryTells'
  BY NoSummaryYet DEF NoSummary, SummaryTells
<1>3. Accounted(trace, counts, totals)' /\ CachedIsInput'
  BY DEF IInv, Accounted, CachedIsInput
<1> QED BY <1>1, <1>2, <1>3 DEF AccountInv

\* A call that fails leaves at most two rows.
LEMMA FailsKeepAccounts ==
  ASSUME IInv, Fails
  PROVE  AccountInv'
<1>1. PICK kind \in {"error", "cancelled"} : pc \in Calling /\ CallFails(kind)
  BY DEF Fails
<1>2. /\ UNCHANGED <<turn, history, calls, totals, counts, stop_reason, answer>>
      /\ exc' = kind /\ pc' = "close" /\ pc # "done" /\ trace' = FailedInference
  BY <1>1 DEF CallFails, Raise, Calling
<1> DEFINE first == IF settings.dynamo THEN Append(trace, Row("failed_inference")) ELSE trace
           second == IF settings.metrics THEN Append(first, Row("failed_inference_metrics")) ELSE first
<1>3. Row("failed_inference") \in PlainRows /\ Row("failed_inference_metrics") \in PlainRows
  BY DEF Row, PlainRows
<1>4. trace \in Seq(TraceRows) /\ Accounted(trace, counts, totals) /\ NoSummary(trace)
  BY <1>2, NoSummaryYet DEF IInv, TypeInv
<1>5. /\ first = trace \o (IF settings.dynamo THEN <<Row("failed_inference")>> ELSE <<>>)
      /\ first \in Seq(TraceRows) /\ Accounted(first, counts, totals) /\ NoSummary(first)
  <2>1. trace \o <<>> = trace
    BY <1>4
  <2> QED BY <1>3, <1>4, <2>1, PlainRows1
<1> HIDE DEF first
<1>6. /\ second = first \o (IF settings.metrics THEN <<Row("failed_inference_metrics")>> ELSE <<>>)
      /\ second \in Seq(TraceRows) /\ Accounted(second, counts, totals) /\ NoSummary(second)
  <2>1. first \o <<>> = first
    BY <1>5
  <2> QED BY <1>3, <1>5, <2>1, PlainRows1
<1> HIDE DEF second
<1>7. trace' = second
  BY <1>2, <1>5, <1>6 DEF FailedInference
<1>8. TypeInv'
  BY <1>2, <1>6, <1>7 DEF IInv, TypeInv
<1>9. SummaryTells' /\ CachedIsInput' /\ Accounted(trace', counts', totals')
  BY <1>2, <1>6, <1>7 DEF SummaryTells, NoSummary, CachedIsInput, IInv
<1> QED BY <1>8, <1>9 DEF AccountInv

\* Sums of known amounts are known.
LEMMA AddUsageFacts ==
  ASSUME NEW t \in Sums, NEW u \in Usages, t.cached # None => t.input # None /\ t.cached =< t.input
  PROVE  LET i == AddUsage(t.input, u.input)
             c == AddUsage(t.cached, u.cached)
         IN  i \in Amounts /\ c \in Amounts /\ (c # None => i # None /\ c =< i)
<1>1. /\ u.input \in Amounts /\ u.cached \in Amounts
      /\ u.cached # None => u.input # None /\ u.cached =< u.input
  BY UsageFacts
<1>2. t.input \in Amounts /\ t.cached \in Amounts
  BY DEF Sums
<1>3. \A a \in Amounts : a # None => a \in Nat
  BY DEF Amounts
<1>4. None \notin Nat
  BY AgentConstants
<1> QED BY <1>1, <1>2, <1>3, <1>4 DEF AddUsage, Amounts

\* The ways a response is handled.
RunsOut == /\ stop_reason' = "max_output_tokens" /\ pc' = "close"
           /\ UNCHANGED <<history, calls, answer, exc>>
Unusable == /\ exc' = "error" /\ pc' = "close"
            /\ UNCHANGED <<history, calls, answer, stop_reason>>
Final(r) == /\ stop_reason' = IF r.text THEN "no_tool_calls" ELSE "empty_model_response"
            /\ answer' = (answer \/ r.text)
            /\ pc' = "close"
            /\ UNCHANGED <<history, calls, exc>>
NewCalls(n) == [i \in 1..n |-> <<turn, i>>]
NewItems(n) == [i \in 1..n |-> [type |-> "call", id |-> <<turn, i>>]]
Calls(r) == /\ r.calls \in Nat \ {0}
            /\ history' = history \o NewItems(r.calls)
            /\ calls' = NewCalls(r.calls)
            /\ pc' = "tool"
            /\ UNCHANGED <<answer, stop_reason, exc>>

\* The calls of a response and the items they add to the history.
LEMMA NewFacts ==
  ASSUME turn \in Nat, NEW n \in Nat
  PROVE  /\ NewCalls(n) \in Seq(CallIds) /\ Len(NewCalls(n)) = n
         /\ \A i \in 1..n : NewCalls(n)[i] = <<turn, i>>
         /\ NewItems(n) \in Seq(Items) /\ Len(NewItems(n)) = n
         /\ \A i \in 1..n : NewItems(n)[i] = [type |-> "call", id |-> <<turn, i>>]
<1>1. NewCalls(n) \in [1..n -> CallIds] /\ NewItems(n) \in [1..n -> Items]
  BY DEF NewCalls, NewItems, CallIds, Items
<1>2. NewCalls(n) \in Seq(CallIds) /\ NewItems(n) \in Seq(Items)
  BY <1>1, SeqDef
<1>3. Len(NewCalls(n)) = n /\ Len(NewItems(n)) = n
  BY <1>1, <1>2, LenProperties
<1> QED BY <1>2, <1>3 DEF NewCalls, NewItems

LEMMA AnsweredArms ==
  ASSUME NEW r \in Responses, NEW m, Answered(r, m)
  PROVE  RunsOut \/ Unusable \/ Final(r) \/ Calls(r)
<1>1. r.calls \in Nat /\ r.finish \in {"stop", "tool_calls", "length", "other"}
  BY ResponseFacts
<1>2. CASE r.finish = "length"
  BY <1>2 DEF Answered, OutputLimitHit, Completed, RunsOut
<1>3. CASE r.finish = "other"
  BY <1>3 DEF Answered, OutputLimitHit, Completed, Raise, Unusable
<1>4. CASE r.finish \in {"stop", "tool_calls"} /\ r.calls = 0
  BY <1>4 DEF Answered, OutputLimitHit, Completed, Final
<1>5. CASE r.finish \in {"stop", "tool_calls"} /\ r.calls # 0
  <2> DEFINE new == [i \in 1..r.calls |-> <<turn, i>>]
             items == [i \in 1..r.calls |-> [type |-> "call", id |-> new[i]]]
  <2>1. /\ history' = history \o items /\ calls' = new /\ pc' = "tool"
        /\ UNCHANGED <<answer, stop_reason, exc>>
    BY <1>5 DEF Answered, OutputLimitHit, Completed
  <2>2. new = NewCalls(r.calls) /\ items = NewItems(r.calls)
    BY DEF NewCalls, NewItems
  <2> QED BY <1>1, <1>5, <2>1, <2>2 DEF Calls
<1> QED BY <1>1, <1>2, <1>3, <1>4, <1>5

\* A response is logged, counted and added.
LEMMA ConcludesKeepAccounts ==
  ASSUME IInv, Concludes
  PROVE  AccountInv'
<1>1. PICK r \in Responses, m \in {"disabled", "reported"} : pc \in Calling /\ Answered(r, m)
  BY DEF Concludes
<1>2. /\ r.usage \in Usages /\ r.calls \in Nat /\ r.text \in BOOLEAN
      /\ r.finish \in {"stop", "tool_calls", "length", "other"}
  BY ResponseFacts
<1> DEFINE row == [type |-> "inference", usage |-> r.usage, metrics |-> m]
<1>3. row \in InferenceRows /\ row \in TraceRows /\ row.type = "inference" /\ row.usage = r.usage
  BY <1>2 DEF InferenceRows, TraceRows
<1>4. /\ counts' = [counts EXCEPT !.model = @ + 1]
      /\ totals' = [input |-> AddUsage(totals.input, row.usage.input),
                    cached |-> AddUsage(totals.cached, row.usage.cached)]
      /\ trace' = Append(trace, row) /\ turn' = turn /\ pc # "done"
  BY <1>1, <1>3 DEF Answered, Calling
<1> HIDE DEF row
<1>5. /\ trace \in Seq(TraceRows) /\ Accounted(trace, counts, totals) /\ NoSummary(trace)
      /\ counts \in Counters /\ totals \in Sums /\ CachedIsInput
  BY <1>4, NoSummaryYet DEF IInv, TypeInv
<1>6. Accounted(trace', counts', totals')
  BY <1>3, <1>4, <1>5, InferenceRow
<1>7. totals' \in Sums /\ CachedIsInput'
  BY <1>2, <1>3, <1>4, <1>5, AddUsageFacts DEF Sums, CachedIsInput
<1>8. counts' \in Counters /\ trace' \in Seq(TraceRows) /\ NoSummary(trace')
  BY <1>3, <1>4, <1>5 DEF Counters, NoSummary
<1>9. /\ pc' \in {"close", "tool"} /\ stop_reason' \in Stops /\ answer' \in BOOLEAN
      /\ exc' \in {"none", "error", "cancelled"}
      /\ history' \in Seq(Items) /\ calls' \in Seq(CallIds)
  <2>1. turn \in Nat /\ history \in Seq(Items) /\ calls \in Seq(CallIds)
        /\ stop_reason \in Stops /\ answer \in BOOLEAN /\ exc \in {"none", "error", "cancelled"}
    BY DEF IInv, TypeInv
  <2>2. NewCalls(r.calls) \in Seq(CallIds) /\ NewItems(r.calls) \in Seq(Items)
    BY <1>2, <2>1, NewFacts
  <2>4. \/ RunsOut \/ Unusable \/ Final(r) \/ Calls(r)
    BY <1>1, AnsweredArms
  <2>5. CASE RunsOut \/ Unusable
    BY <2>1, <2>5 DEF RunsOut, Unusable, Stops, Ends
  <2>6. CASE Final(r)
    BY <1>2, <2>1, <2>6 DEF Final, Stops, Ends
  <2>7. CASE Calls(r)
    BY <2>1, <2>2, <2>7 DEF Calls
  <2> QED BY <2>4, <2>5, <2>6, <2>7
<1>10. TypeInv'
  BY <1>4, <1>7, <1>8, <1>9 DEF IInv, TypeInv, Loop, Tooling
<1>11. SummaryTells'
  BY <1>8 DEF SummaryTells, NoSummary
<1> QED BY <1>6, <1>7, <1>10, <1>11 DEF AccountInv

\* A tool is logged and counted.
LEMMA ObservesKeepAccounts ==
  ASSUME IInv, Observes
  PROVE  AccountInv' /\ Current \in CallIds
<1>1. PICK success \in BOOLEAN : pc \in Tooling /\ Observe(success)
  BY DEF Observes
<1>2. /\ turn \in Nat /\ history \in Seq(Items) /\ calls \in Seq(CallIds) /\ calls # <<>>
      /\ trace \in Seq(TraceRows) /\ counts \in Counters /\ totals \in Sums
      /\ Accounted(trace, counts, totals) /\ CachedIsInput
  BY <1>1 DEF IInv, TypeInv, HistoryInv, Loop
<1>3. NoSummary(trace)
  BY <1>1, NoSummaryYet DEF Tooling
<1>4. Current \in CallIds /\ Tail(calls) \in Seq(CallIds)
  BY <1>2 DEF Current
<1> DEFINE row == [type |-> "tool", call |-> Current, success |-> success]
           item == [type |-> "output", id |-> Current]
<1>5. row \in ToolRows /\ row \in TraceRows /\ row.type = "tool" /\ row.success = success
  BY <1>4 DEF ToolRows, TraceRows
<1>6. item \in Items
  BY <1>4 DEF Items
<1>7. /\ counts' = [counts EXCEPT !.tool = @ + 1, !.failures = @ + IF row.success THEN 0 ELSE 1]
      /\ trace' = Append(trace, row) /\ history' = Append(history, item) /\ calls' = Tail(calls)
      /\ pc' \in {"turn", "tool"}
      /\ UNCHANGED <<turn, totals, stop_reason, exc, answer>>
  <2>1. pc' \in {"turn", "tool"}
    BY <1>1 DEF Observe
  <2>2. /\ trace' = Append(trace, row) /\ history' = Append(history, item) /\ calls' = Tail(calls)
        /\ UNCHANGED <<turn, totals, stop_reason, exc, answer>>
        /\ counts' = [counts EXCEPT !.tool = @ + 1, !.failures = @ + IF success THEN 0 ELSE 1]
    BY <1>1 DEF Observe
  <2> QED BY <1>5, <2>1, <2>2
<1> HIDE DEF row, item
<1>8. Accounted(trace', counts', totals')
  <2>1. Accounted(Append(trace, row),
                  [counts EXCEPT !.tool = @ + 1, !.failures = @ + IF row.success THEN 0 ELSE 1],
                  totals)
    BY <1>2, <1>5, ToolRow, Zenon
  <2> QED BY <1>7, <2>1, Zenon
<1>9. counts' \in Counters
  <2> DEFINE more == IF row.success THEN 0 ELSE 1
  <2>1. more \in Nat
    OBVIOUS
  <2>2. counts' = [counts EXCEPT !.tool = @ + 1, !.failures = @ + more]
    BY <1>7
  <2> HIDE DEF more
  <2>3. counts = [model |-> counts.model, tool |-> counts.tool, failures |-> counts.failures]
        /\ counts.model \in Nat /\ counts.tool \in Nat /\ counts.failures \in Nat
    BY <1>2 DEF Counters
  <2>4. counts' = [model |-> counts.model, tool |-> counts.tool + 1,
                   failures |-> counts.failures + more]
    BY <2>2, <2>3
  <2>5. counts.tool + 1 \in Nat /\ counts.failures + more \in Nat
    BY <2>1, <2>3
  <2> QED BY <2>3, <2>4, <2>5, Zenon DEF Counters
<1>10. history' \in Seq(Items) /\ trace' \in Seq(TraceRows) /\ NoSummary(trace')
  BY <1>2, <1>3, <1>5, <1>6, <1>7 DEF NoSummary
<1>11. TypeInv'
  BY <1>2, <1>4, <1>7, <1>9, <1>10 DEF IInv, TypeInv, Loop, Tooling
<1>12. SummaryTells' /\ CachedIsInput'
  BY <1>2, <1>7, <1>10 DEF SummaryTells, NoSummary, CachedIsInput
<1> QED BY <1>4, <1>8, <1>11, <1>12 DEF AccountInv

\* The summary written now says what the counters say.
LEMMA SummaryFacts ==
  ASSUME TypeInv, CachedIsInput, NEW stop \in Stops, stop = "no_tool_calls" => answer
  PROVE  LET s == Summary(stop)
         IN  /\ s \in SummaryRows /\ s \in TraceRows /\ s.type = "task_summary"
             /\ s.counts = counts /\ s.totals = totals /\ s.stop = stop
             /\ s.fresh # None => s.fresh >= 0
             /\ s.completed => answer
             /\ s.limitHit = None <=> stop \notin Ends
<1>1. counts \in Counters /\ totals \in Sums /\ totals.input \in Amounts /\ totals.cached \in Amounts
  BY DEF TypeInv, Sums
<1>2. \A a \in Amounts : a # None => a \in Nat
  BY DEF Amounts
<1> DEFINE fresh == IF totals.input # None /\ totals.cached # None
                    THEN totals.input - totals.cached ELSE None
           hit == IF stop \in Ends THEN stop = "max_output_tokens" ELSE None
           claim == stop = "no_tool_calls"
           s == Summary(stop)
<1>3. fresh \in Int \cup {None} /\ (fresh # None => fresh >= 0)
  BY <1>1, <1>2 DEF CachedIsInput
<1>4. hit \in {TRUE, FALSE, None} /\ (hit = None <=> stop \notin Ends)
  <2>1. CASE stop \in Ends
    <3>1. hit \in BOOLEAN
      BY <2>1
    <3> QED BY <2>1, <3>1, AgentConstants
  <2>2. CASE stop \notin Ends
    BY <2>2
  <2> QED BY <2>1, <2>2
<1>7. claim \in BOOLEAN /\ (claim => answer)
  OBVIOUS
<1> HIDE DEF fresh, hit, claim
<1>5. s = [type |-> "task_summary", stop |-> stop, completed |-> claim,
           limitHit |-> hit, counts |-> counts, totals |-> totals, fresh |-> fresh]
  BY Zenon DEF Summary, hit, fresh, claim, Ends
<1> HIDE DEF s
<1>6. s \in SummaryRows
  BY <1>1, <1>3, <1>4, <1>5, <1>7, Zenon DEF SummaryRows
<1>8. /\ s.type = "task_summary" /\ s.counts = counts /\ s.totals = totals /\ s.stop = stop
      /\ s.fresh = fresh /\ s.completed = claim /\ s.limitHit = hit
  BY <1>5, Zenon
<1>9. s \in TraceRows
  BY <1>6 DEF TraceRows
<1>10. s.fresh # None => s.fresh >= 0
  BY <1>3, <1>8
<1> QED BY <1>4, <1>6, <1>7, <1>8, <1>9, <1>10, Zenon DEF s

\* The rows up to the summary, and the summary.
LEMMA SummaryRow ==
  ASSUME NEW rows \in Seq(TraceRows), NEW row \in SummaryRows, NEW c, NEW t,
         Accounted(rows, c, t), NoSummary(rows)
  PROVE  LET more == Append(rows, row)
         IN  /\ more \in Seq(TraceRows) /\ Accounted(more, c, t)
             /\ Len(more) \in Nat /\ Len(more) > 0 /\ more[Len(more)] = row
             /\ \A i \in DOMAIN more : more[i].type = "task_summary" => i = Len(more)
<1>1. row \in TraceRows /\ row.type \notin {"inference", "tool"}
  BY DEF TraceRows, SummaryRows
<1>2. Accounted(Append(rows, row), c, t) /\ Append(rows, row) \in Seq(TraceRows)
  BY <1>1, PlainRow
<1> QED BY <1>1, <1>2 DEF NoSummary

\* The finally clause writes the summary.
LEMMA Summarised ==
  ASSUME IInv, NEW rows \in Seq(TraceRows), Accounted(rows, counts, totals), NoSummary(rows),
         NEW stop \in Stops, stop = "no_tool_calls" => answer,
         trace' = Append(rows, Summary(stop)), pc' = "done", stop_reason' = stop,
         exc' \in {"none", "error", "cancelled"},
         UNCHANGED <<turn, history, calls, totals, counts, answer>>
  PROVE  /\ AccountInv'
         /\ Len(trace') > 0 /\ trace'[Len(trace')].type = "task_summary"
         /\ trace'[Len(trace')].stop = stop_reason'
         /\ trace'[Len(trace')].limitHit = None <=> stop_reason' \notin Ends
<1> DEFINE s == Summary(stop)
<1>1. TypeInv /\ CachedIsInput
  BY DEF IInv
<1>2. /\ s \in SummaryRows /\ s.type = "task_summary"
      /\ s.counts = counts /\ s.totals = totals /\ s.stop = stop
      /\ s.fresh # None => s.fresh >= 0
      /\ s.completed => answer
      /\ s.limitHit = None <=> stop \notin Ends
  BY <1>1, SummaryFacts
<1> HIDE DEF s
<1>3. /\ trace' \in Seq(TraceRows) /\ Accounted(trace', counts, totals)
      /\ Len(trace') \in Nat /\ Len(trace') > 0 /\ trace'[Len(trace')] = s
      /\ \A i \in DOMAIN trace' : trace'[i].type = "task_summary" => i = Len(trace')
  BY <1>2, SummaryRow DEF s
<1>4. TypeInv'
  BY <1>1, <1>3 DEF TypeInv
<1>5. CachedIsInput' /\ Accounted(trace', counts', totals')
  BY <1>1, <1>3 DEF CachedIsInput
<1>6. SummaryTells'
  BY <1>2, <1>3, Zenon DEF SummaryTells
<1>7. AccountInv'
  BY <1>4, <1>5, <1>6 DEF AccountInv
<1> QED BY <1>2, <1>3, <1>7, Zenon

\* The end of the loop is reported.
LEMMA LeavesKeepAccounts ==
  ASSUME IInv, Leaves
  PROVE  AccountInv' /\ EndInv' /\ pc' \in {"final", "done"}
<1>1. PICK e \in {exc, "cancelled"} : pc = "close" /\ LeaveLoop(e)
  BY DEF Leaves
<1>2. /\ exc \in {"none", "error", "cancelled"} /\ stop_reason \in Stops
      /\ exc = "none" => stop_reason \in Ends
      /\ stop_reason = "no_tool_calls" => answer
      /\ trace \in Seq(TraceRows) /\ Accounted(trace, counts, totals)
  BY <1>1 DEF IInv, TypeInv, EndInv
<1>3. NoSummary(trace)
  BY <1>1, NoSummaryYet
<1> DEFINE stop == CASE e = "cancelled" -> "cancelled_or_task_timeout"
                     [] e = "error" -> "error"
                     [] OTHER -> stop_reason
           rows == IF e = "error" THEN Append(trace, Row("agent_error")) ELSE trace
<1>4. /\ exc' = e /\ stop_reason' = stop
      /\ UNCHANGED <<turn, history, calls, totals, counts, answer>>
      /\ settings.dynamo => pc' = "final" /\ trace' = rows
      /\ ~settings.dynamo => pc' = "done" /\ trace' = Append(rows, Summary(stop))
  BY <1>1 DEF LeaveLoop
<1>5. /\ e \in {"none", "error", "cancelled"} /\ stop \in Stops /\ Reported(e, stop)
      /\ stop = "no_tool_calls" => answer
  BY <1>1, <1>2 DEF Reported, Stops
<1>6. rows \in Seq(TraceRows) /\ Accounted(rows, counts, totals) /\ NoSummary(rows)
  <2>1. Row("agent_error") \in PlainRows
    BY DEF Row, PlainRows
  <2> QED BY <1>2, <1>3, <2>1, PlainRows1
<1> HIDE DEF stop, rows
<1>7. CASE settings.dynamo
  <2>1. TypeInv'
    BY <1>4, <1>5, <1>6, <1>7 DEF IInv, TypeInv
  <2>2. SummaryTells' /\ CachedIsInput' /\ Accounted(trace', counts', totals')
    BY <1>4, <1>6, <1>7 DEF SummaryTells, NoSummary, CachedIsInput, IInv
  <2>3. EndInv'
    BY <1>4, <1>5, <1>7 DEF EndInv, Loop, Calling, Tooling
  <2> QED BY <1>4, <1>7, <2>1, <2>2, <2>3 DEF AccountInv
<1>8. CASE ~settings.dynamo
  <2>1. trace' = Append(rows, Summary(stop)) /\ pc' = "done" /\ exc' \in {"none", "error", "cancelled"}
    BY <1>4, <1>5, <1>8
  <2>2. /\ AccountInv'
        /\ Len(trace') > 0 /\ trace'[Len(trace')].type = "task_summary"
        /\ trace'[Len(trace')].stop = stop_reason'
        /\ trace'[Len(trace')].limitHit = None <=> stop_reason' \notin Ends
    BY <1>4, <1>5, <1>6, <2>1, Summarised
  <2>3. EndInv'
    BY <1>4, <1>5, <2>1, <2>2 DEF EndInv, Loop, Calling, Tooling
  <2> QED BY <2>1, <2>2, <2>3
<1> QED BY <1>7, <1>8

\* The session is finished and the summary written.
LEMMA SessionKeepsAccounts ==
  ASSUME IInv, SessionFinished
  PROVE  AccountInv' /\ EndInv' /\ pc' = "done"
<1>1. /\ pc = "final" /\ pc' = "done" /\ trace' = trace \o <<Row("session_final"), Summary(stop_reason)>>
      /\ UNCHANGED <<turn, history, calls, totals, counts, answer, stop_reason, exc>>
  BY DEF SessionFinished, loopVars
<1>2. /\ exc \in {"none", "error", "cancelled"} /\ stop_reason \in Stops
      /\ exc # "cancelled" => Reported(exc, stop_reason)
      /\ stop_reason = "no_tool_calls" => answer
      /\ trace \in Seq(TraceRows) /\ Accounted(trace, counts, totals)
  BY <1>1 DEF IInv, TypeInv, EndInv
<1>3. NoSummary(trace)
  BY <1>1, NoSummaryYet
<1> DEFINE rows == Append(trace, Row("session_final"))
<1>4. rows \in Seq(TraceRows) /\ Accounted(rows, counts, totals) /\ NoSummary(rows)
  <2>1. Row("session_final") \in PlainRows
    BY DEF Row, PlainRows
  <2> QED BY <1>2, <1>3, <2>1, PlainRows1
<1>5. trace' = Append(rows, Summary(stop_reason))
  <2>1. \A a, b : trace \o <<a, b>> = Append(Append(trace, a), b)
    BY <1>2
  <2> QED BY <1>1, <2>1, Zenon
<1> HIDE DEF rows
<1>6. /\ AccountInv'
      /\ Len(trace') > 0 /\ trace'[Len(trace')].type = "task_summary"
      /\ trace'[Len(trace')].stop = stop_reason'
      /\ trace'[Len(trace')].limitHit = None <=> stop_reason' \notin Ends
  BY <1>1, <1>2, <1>4, <1>5, Summarised
<1>7. EndInv'
  BY <1>1, <1>2, <1>6 DEF EndInv, Loop, Calling, Tooling
<1> QED BY <1>1, <1>6, <1>7

\* Every step keeps the types and the accounts.
LEMMA StepKeepsAccounts ==
  ASSUME IInv, [Next]_vars
  PROVE  AccountInv'
<1>0. /\ turn \in Nat /\ history \in Seq(Items) /\ calls \in Seq(CallIds) /\ stop_reason \in Stops
      /\ exc \in {"none", "error", "cancelled"}
  BY DEF IInv, TypeInv
<1>1. CASE Moves
  BY <1>0, <1>1, QuietKeepsAccounts DEF Moves, loopOnly, Loop, Calling, Tooling
<1>2. CASE Raises
  <2>1. pc \in Tooling /\ pc' = "close" /\ exc' \in {"error", "cancelled"}
        /\ UNCHANGED <<turn, history, calls, totals, counts, stop_reason, answer, trace>>
    BY <1>2 DEF Raises, ToolRaises, Raise, loopVars
  <2> QED BY <1>0, <2>1, QuietKeepsAccounts DEF Tooling
<1>3. CASE TurnStarts
  BY <1>0, <1>3, QuietKeepsAccounts DEF TurnStarts, Loop, Calling
<1>4. CASE TurnsExhausted
  BY <1>0, <1>4, QuietKeepsAccounts DEF TurnsExhausted, Stops, Ends
<1>5. CASE CancelFinal
  BY <1>0, <1>5, QuietKeepsAccounts DEF CancelFinal, Cancel, loopVars
<1>6. CASE UNCHANGED vars
  <2>1. UNCHANGED <<pc, turn, history, calls, totals, counts, stop_reason, answer, exc, trace>>
    BY <1>6 DEF vars, loopVars
  <2> QED BY <2>1 DEF IInv, AccountInv, TypeInv, Accounted, CachedIsInput, SummaryTells
<1> QED BY <1>1, <1>2, <1>3, <1>4, <1>5, <1>6, StepKinds, FailsKeepAccounts, ConcludesKeepAccounts,
           ObservesKeepAccounts, LeavesKeepAccounts, SessionKeepsAccounts

\* Every step keeps what stop_reason will say.
LEMMA StepKeepsEnd ==
  ASSUME IInv, [Next]_vars
  PROVE  EndInv'
<1> USE DEF Loop, Calling, Tooling
<1>0. EndInv
  BY DEF IInv
<1>1. CASE Moves
  BY <1>0, <1>1 DEF Moves, loopOnly, EndInv
<1>2. CASE Fails
  BY <1>0, <1>2 DEF Fails, CallFails, Raise, EndInv
<1>3. CASE Concludes
  <2>1. PICK r \in Responses, m \in {"disabled", "reported"} : pc \in Calling /\ Answered(r, m)
    BY <1>3 DEF Concludes
  <2>2. r.text \in BOOLEAN
    BY ResponseFacts
  <2>3. \/ RunsOut \/ Unusable \/ Final(r) \/ Calls(r)
    BY <2>1, AnsweredArms
  <2>4. CASE Final(r)
    <3>1. answer \in BOOLEAN
      BY DEF IInv, TypeInv
    <3> QED BY <1>0, <2>1, <2>2, <2>4, <3>1 DEF Final, EndInv, Ends
  <2>5. CASE RunsOut \/ Unusable \/ Calls(r)
    BY <1>0, <2>1, <2>5 DEF RunsOut, Unusable, Calls, EndInv, Ends
  <2> QED BY <2>3, <2>4, <2>5
<1>4. CASE Observes
  <2>1. /\ pc \in Tooling /\ pc' \in {"turn", "tool"} /\ UNCHANGED <<stop_reason, exc, answer>>
    BY <1>4 DEF Observes, Observe
  <2> QED BY <1>0, <2>1 DEF EndInv
<1>5. CASE Raises
  BY <1>0, <1>5 DEF Raises, ToolRaises, Raise, EndInv, loopVars
<1>6. CASE TurnStarts \/ TurnsExhausted
  BY <1>0, <1>6 DEF TurnStarts, TurnsExhausted, EndInv, Ends
<1>7. CASE CancelFinal
  BY <1>0, <1>7 DEF CancelFinal, Cancel, EndInv, loopVars
<1>8. CASE UNCHANGED vars
  <2>1. UNCHANGED <<pc, stop_reason, answer, exc, trace>>
    BY <1>8 DEF vars, loopVars
  <2> QED BY <1>0, <2>1 DEF EndInv, Reported
<1> QED BY <1>1, <1>2, <1>3, <1>4, <1>5, <1>6, <1>7, <1>8, StepKinds, LeavesKeepAccounts,
           SessionKeepsAccounts

(***************************************************************************)
(* The window and the staging directory                                    *)
(***************************************************************************)

\* The window wraps a response or an exception.
LEMMA StepKeepsReply ==
  ASSUME IInv, [Next]_vars
  PROVE  ReplyInv'
<1>1. CASE CallReturns
  <2>1. CASE settings.metrics
    <3>1. reply' \in Responses \cup {Error}
      BY <1>1, <2>1 DEF CallReturns
    <3> QED BY <3>1 DEF ReplyInv
  <2>2. CASE ~settings.metrics
    <3>1. PICK r \in Responses \cup {Error} : Conclude(r, "disabled")
      BY <1>1, <2>2 DEF CallReturns
    <3>2. pc' \in {"close", "tool"}
      BY <3>1, ConcludeKinds, AnsweredArms
         DEF CallFails, Raise, RunsOut, Unusable, Final, Calls
    <3> QED BY <3>2 DEF ReplyInv
  <2> QED BY <2>1, <2>2
<1>2. CASE ScrapedAfter
  <2>1. Conclude(reply, "reported") /\ reply \in Responses \cup {Error, Cancelled}
    BY <1>2 DEF ScrapedAfter, IInv, ReplyInv
  <2>2. pc' \in {"close", "tool"}
    BY <2>1, ConcludeKinds, AnsweredArms DEF CallFails, Raise, RunsOut, Unusable, Final, Calls
  <2> QED BY <2>2 DEF ReplyInv
<1>3. CASE CancelCall
  BY <1>3 DEF CancelCall, Cancel, CallFails, Raise, ReplyInv
<1>4. CASE SamplerStops \/ CancelSampler \/ UNCHANGED vars
  BY <1>4 DEF SamplerStops, CancelSampler, Cancel, IInv, ReplyInv, vars, loopVars
<1>5. CASE TurnStarts \/ TurnsExhausted \/ ScrapedBefore \/ CancelBefore \/ CancelAfter
           \/ SessionFinished \/ CancelFinal
  BY <1>5 DEF TurnStarts, TurnsExhausted, ScrapedBefore, CancelBefore, CancelAfter,
              SessionFinished, CancelFinal, CallFails, Raise, ReplyInv
<1>6. CASE ClientCloses \/ CancelClose
  <2>1. pc' \in {"final", "done"}
    BY <1>6 DEF ClientCloses, CancelClose, LeaveLoop
  <2> QED BY <2>1 DEF ReplyInv
<1>7. ASSUME Moves \/ Observes \/ Raises, pc \in Tooling PROVE ReplyInv'
  <2>1. pc' \in Tooling \cup {"turn", "close"}
    <3>1. CASE Moves
      BY <1>7, <3>1 DEF Moves, Calling, Tooling
    <3>2. CASE Observes
      BY <3>2 DEF Observes, Observe, Tooling
    <3>3. CASE Raises
      BY <3>3 DEF Raises, ToolRaises, Raise
    <3> QED BY <1>7, <3>1, <3>2, <3>3
  <2> QED BY <2>1 DEF ReplyInv, Tooling
<1>8. CASE \/ SimpleTool \/ WriteFile \/ MkdirReturns \/ UploadReturns \/ WriteReturns
           \/ CleanupReturns \/ CancelTool \/ CancelMkdir \/ CancelTransfer \/ CancelCleanup
  <2>1. pc \in Tooling
    BY <1>8 DEF SimpleTool, WriteFile, MkdirReturns, UploadReturns, WriteReturns, CleanupReturns,
                CancelTool, CancelMkdir, CancelTransfer, CancelCleanup, Cancel, Tooling
  <2> QED BY <1>7, <1>8, <2>1, ToolKinds
<1> QED BY <1>1, <1>2, <1>3, <1>4, <1>5, <1>6, <1>8 DEF Next, Run, Cancellation, Done

\* Leaving a tool, with an observation or an exception.
LEMMA LeavingATool ==
  ASSUME \/ \E success \in BOOLEAN : Observe(success)
         \/ \E kind : ToolRaises(kind)
  PROVE  LeaveTool /\ pc' \in {"turn", "tool", "close"}
<1>1. CASE \E success \in BOOLEAN : Observe(success)
  <2>1. PICK success \in BOOLEAN : Observe(success)
    BY <1>1
  <2>2. pc' = IF Len(calls) = 1 THEN "turn" ELSE "tool"
    BY <2>1, Zenon DEF Observe
  <2>3. LeaveTool
    BY <2>1, Zenon DEF Observe
  <2> QED BY <2>2, <2>3
<1>2. CASE \E kind : ToolRaises(kind)
  BY <1>2 DEF ToolRaises, Raise
<1> QED BY <1>1, <1>2

\* Only a mkdir or a cleanup leaves the staging directory, and a write that
\* succeeded left its content in the file.
LEMMA StepKeepsWrite ==
  ASSUME IInv, [Next]_vars
  PROVE  WriteInv'
<1>0. WriteInv
  BY DEF IInv
<1>1. CASE UNCHANGED <<pc, calls, toolVars>>
  BY <1>0, <1>1 DEF WriteInv, toolVars, Current
<1>2. CASE UNCHANGED leftovers /\ pc' # "cleanup"
  BY <1>0, <1>2 DEF WriteInv
<1>3. ASSUME LeaveTool, staging' => pc \in {"mkdir", "cleanup"}, pc' # "cleanup" PROVE WriteInv'
  BY <1>0, <1>3 DEF WriteInv, LeaveTool
<1>4. CASE SimpleTool \/ CancelTool
  <2>1. \/ \E success \in BOOLEAN : Observe(success)
        \/ \E kind \in {"error", "cancelled"} : ToolRaises(kind)
    BY <1>4 DEF SimpleTool, CancelTool
  <2>2. ~staging'
    BY <1>4 DEF SimpleTool, CancelTool
  <2>3. LeaveTool /\ pc' # "cleanup"
    BY <2>1, LeavingATool
  <2> QED BY <1>3, <2>2, <2>3
<1>5. CASE MkdirReturns
  <2>1. \/ UNCHANGED leftovers /\ pc' = "upload"
        \/ LeaveTool /\ pc = "mkdir" /\ pc' # "cleanup"
    BY <1>5 DEF MkdirReturns, Observe, ToolRaises, Raise
  <2> QED BY <1>2, <1>3, <2>1
<1>6. CASE CleanupReturns
  <2>1. pc = "cleanup" /\ (\/ \E success \in BOOLEAN : Observe(success)
                           \/ \E kind \in {outcome} : ToolRaises(kind))
    <3>1. pc = "cleanup" /\ outcome \in {"written", "failed", "error", "cancelled"}
      BY <1>0, <1>6 DEF CleanupReturns, WriteInv
    <3>2. CASE outcome \in {"written", "failed"}
      BY <1>6, <3>1, <3>2 DEF CleanupReturns
    <3>3. CASE outcome \in {"error", "cancelled"}
      BY <1>6, <3>1, <3>3 DEF CleanupReturns
    <3> QED BY <3>1, <3>2, <3>3
  <2>2. LeaveTool /\ pc = "cleanup" /\ pc' # "cleanup"
    BY <2>1, LeavingATool
  <2> QED BY <1>3, <2>2
<1>7. CASE CancelMkdir \/ CancelCleanup
  <2>1. LeaveTool /\ pc \in {"mkdir", "cleanup"} /\ pc' # "cleanup"
    BY <1>7 DEF CancelMkdir, CancelCleanup, Cancel, ToolRaises, Raise
  <2> QED BY <1>3, <2>1
<1>8. CASE UploadReturns \/ WriteReturns \/ CancelTransfer
  <2>1. /\ UNCHANGED <<leftovers, calls>>
        /\ pc' = "cleanup" => outcome' \in {"written", "failed", "error", "cancelled"}
        /\ pc' = "cleanup" /\ outcome' = "written" => file' = Current
    BY <1>8 DEF UploadReturns, WriteReturns, CancelTransfer, Clean, loopVars
  <2> QED BY <1>0, <2>1 DEF WriteInv, Current
<1>9. CASE WriteFile \/ ScrapedBefore \/ SamplerStops \/ CancelSampler
           \/ TurnStarts \/ TurnsExhausted \/ SessionFinished \/ CancelFinal
  BY <1>2, <1>9 DEF WriteFile, ScrapedBefore, SamplerStops, CancelSampler,
                    TurnStarts, TurnsExhausted, SessionFinished, CancelFinal, toolVars
<1>10. CASE ClientCloses \/ CancelClose
  BY <1>2, <1>10 DEF ClientCloses, CancelClose, LeaveLoop, toolVars
<1>11. CASE CallReturns \/ ScrapedAfter \/ CancelBefore \/ CancelCall \/ CancelAfter
  <2>1. UNCHANGED leftovers
    BY <1>11 DEF CallReturns, ScrapedAfter, CancelBefore, CancelCall, CancelAfter, toolVars
  <2>2. Moves \/ Fails \/ Concludes
    BY <1>11, CallKinds
  <2>3. pc \in Calling
    BY <1>11 DEF CallReturns, ScrapedAfter, CancelBefore, CancelCall, CancelAfter, Cancel, Calling
  <2>4. pc' # "cleanup"
    <3>1. CASE Moves
      BY <2>3, <3>1 DEF Moves, Calling, Tooling
    <3>2. CASE Fails
      BY <3>2 DEF Fails, CallFails, Raise
    <3>3. CASE Concludes
      BY <3>3, AnsweredArms DEF Concludes, RunsOut, Unusable, Final, Calls
    <3> QED BY <2>2, <3>1, <3>2, <3>3
  <2> QED BY <1>2, <2>1, <2>4
<1>12. CASE UNCHANGED vars
  BY <1>1, <1>12 DEF vars, loopVars
<1> QED BY <1>4, <1>5, <1>6, <1>7, <1>8, <1>9, <1>10, <1>11, <1>12 DEF Next, Run, Cancellation, Done

(***************************************************************************)
(* The history                                                             *)
(***************************************************************************)

\* The order of identifiers is strict.
LEMMA EarlierFacts ==
  ASSUME NEW a \in CallIds, NEW b \in CallIds, Earlier(a, b)
  PROVE  a # b /\ ~Earlier(b, a)
  BY DEF CallIds, Earlier

\* The items of a history.
LEMMA ItemFacts ==
  ASSUME NEW h \in Seq(Items), NEW i \in 1..Len(h)
  PROVE  h[i] \in Items /\ h[i].id \in CallIds /\ h[i].id[1] \in Nat
<1>1. h[i] \in Items
  BY ElementOfSeq
<1>2. \A item \in Items : item.id \in CallIds
  BY DEF Items
<1>3. \A c \in CallIds : c[1] \in Nat
  BY DEF CallIds
<1> QED BY <1>1, <1>2, <1>3

\* A response adds its calls, which wait.
LEMMA CallsKeepPairing ==
  ASSUME NEW h \in Seq(Items), NEW t \in Nat, NEW n \in Nat, NEW items \in Seq(Items),
         NEW new \in Seq(CallIds), Len(items) = n, Len(new) = n,
         \A i \in 1..n : new[i] = <<t, i>> /\ items[i] = [type |-> "call", id |-> <<t, i>>],
         Pairing(h, <<>>, t), \A i \in DOMAIN h : h[i].id[1] < t
  PROVE  Pairing(h \o items, new, t)
<1> DEFINE g == h \o items
           m == Len(h)
<1>1. /\ m \in Nat /\ DOMAIN h = 1..m /\ DOMAIN g = 1..(m + n) /\ DOMAIN new = 1..n
      /\ \A i \in 1..m : g[i] = h[i]
      /\ \A i \in (m + 1)..(m + n) : g[i] = items[i - m]
  <2>1. m \in Nat /\ DOMAIN h = 1..m /\ DOMAIN new = 1..n
    BY LenProperties
  <2>2. g \in Seq(Items) /\ Len(g) = m + n
    BY ConcatProperties
  <2>3. DOMAIN g = 1..(m + n)
    BY <2>2, LenProperties
  <2>4. \A i \in 1..(m + n) : g[i] = IF i =< m THEN h[i] ELSE items[i - m]
    BY ConcatProperties
  <2> QED BY <2>1, <2>3, <2>4
<1>2. \A i \in 1..m : h[i] \in Items /\ h[i].id \in CallIds /\ h[i].id[1] \in Nat
  BY <1>1, ItemFacts
<1>3. \A i \in (m + 1)..(m + n) : IsCall(g, i) /\ ~IsOutput(g, i) /\ g[i].type = "call"
                                  /\ g[i].id = <<t, i - m>>
  <2> TAKE i \in (m + 1)..(m + n)
  <2>1. i - m \in 1..n
    BY <1>1
  <2>2. g[i] = [type |-> "call", id |-> <<t, i - m>>]
    BY <1>1, <2>1
  <2> QED BY <2>2 DEF IsCall, IsOutput
<1> HIDE DEF g, m
<1>4. \A i \in 1..m : (IsCall(g, i) <=> IsCall(h, i)) /\ (IsOutput(g, i) <=> IsOutput(h, i))
  BY <1>1 DEF IsCall, IsOutput
<1>5. \A i \in DOMAIN g : i \in 1..m \/ i \in (m + 1)..(m + n)
  BY <1>1
<1>6. ASSUME NEW i \in DOMAIN g PROVE g[i].id[1] =< t
  <2>1. CASE i \in 1..m
    BY <1>1, <1>2, <2>1
  <2>2. CASE i \in (m + 1)..(m + n)
    BY <1>3, <2>2
  <2> QED BY <1>5, <2>1, <2>2
<1>7. ASSUME NEW i \in DOMAIN g, NEW j \in DOMAIN g, i < j, g[i].type = g[j].type
      PROVE  Earlier(g[i].id, g[j].id)
  <2>1. CASE j \in 1..m
    <3>1. i \in 1..m
      BY <1>1, <1>7, <2>1
    <3> QED BY <1>1, <1>7, <2>1, <3>1 DEF Pairing
  <2>2. CASE i \in 1..m /\ j \in (m + 1)..(m + n)
    BY <1>1, <1>2, <1>3, <2>2 DEF Earlier
  <2>3. CASE i \in (m + 1)..(m + n) /\ j \in (m + 1)..(m + n)
    BY <1>1, <1>3, <1>7, <2>3 DEF Earlier
  <2> QED BY <1>1, <1>5, <1>7, <2>1, <2>2, <2>3
<1>8. ASSUME NEW j \in DOMAIN g, IsOutput(g, j)
      PROVE  \E i \in DOMAIN g : i < j /\ IsCall(g, i) /\ g[i].id = g[j].id
  <2>1. j \in 1..m /\ IsOutput(h, j)
    BY <1>3, <1>4, <1>5, <1>8
  <2>2. PICK i \in DOMAIN h : i < j /\ IsCall(h, i) /\ h[i].id = h[j].id
    BY <1>1, <2>1 DEF Pairing
  <2>3. i \in 1..m /\ i \in DOMAIN g
    BY <1>1
  <2> QED BY <1>1, <1>4, <2>1, <2>2, <2>3
<1>9. ASSUME NEW i \in DOMAIN g, IsCall(g, i)
      PROVE  \/ \E j \in DOMAIN g : IsOutput(g, j) /\ g[i].id = g[j].id
             \/ \E k \in DOMAIN new : new[k] = g[i].id
  <2>1. CASE i \in 1..m
    <3>1. PICK j \in DOMAIN h : IsOutput(h, j) /\ h[i].id = h[j].id
      BY <1>1, <1>4, <1>9, <2>1 DEF Pairing
    <3>2. j \in 1..m /\ j \in DOMAIN g
      BY <1>1
    <3> QED BY <1>1, <1>4, <2>1, <3>1, <3>2
  <2>2. CASE i \in (m + 1)..(m + n)
    <3>1. i - m \in DOMAIN new /\ i - m \in 1..n
      BY <1>1, <2>2
    <3> QED BY <1>3, <2>2, <3>1
  <2> QED BY <1>5, <2>1, <2>2
<1>10. ASSUME NEW k \in DOMAIN new
       PROVE  /\ new[k][1] = t
              /\ \E i \in DOMAIN g : IsCall(g, i) /\ g[i].id = new[k]
              /\ \A j \in DOMAIN g : IsOutput(g, j) => Earlier(g[j].id, new[k])
              /\ \A l \in DOMAIN new : k < l => Earlier(new[k], new[l])
  <2>1. k \in 1..n /\ new[k] = <<t, k>>
    BY <1>1
  <2>2. m + k \in (m + 1)..(m + n) /\ m + k \in DOMAIN g /\ (m + k) - m = k
    BY <1>1, <2>1
  <2>3. IsCall(g, m + k) /\ g[m + k].id = new[k]
    BY <1>3, <2>1, <2>2
  <2>4. \A j \in DOMAIN g : IsOutput(g, j) => Earlier(g[j].id, new[k])
    BY <1>1, <1>2, <1>3, <1>5, <2>1 DEF Earlier
  <2>5. \A l \in DOMAIN new : k < l => Earlier(new[k], new[l])
    BY <1>1, <2>1 DEF Earlier
  <2>6. new[k][1] = t
    BY <2>1
  <2> QED BY <2>2, <2>3, <2>4, <2>5, <2>6, Zenon
<1>11. Pairing(g, new, t)
  BY <1>6, <1>7, <1>8, <1>9, <1>10, Zenon DEF Pairing
<1> QED BY <1>11 DEF g

\* An output answers the first call that waits.
LEMMA OutputKeepsPairing ==
  ASSUME NEW h \in Seq(Items), NEW t \in Nat, NEW waiting \in Seq(CallIds), waiting # <<>>,
         NEW item \in Items, item.type = "output", item.id = Head(waiting),
         Pairing(h, waiting, t)
  PROVE  Pairing(Append(h, item), Tail(waiting), t)
<1> DEFINE g == Append(h, item)
           m == Len(h)
           n == Len(waiting)
           rest == Tail(waiting)
<1>1. /\ m \in Nat /\ DOMAIN h = 1..m /\ DOMAIN g = 1..(m + 1)
      /\ g[m + 1] = item /\ \A i \in 1..m : g[i] = h[i]
  OBVIOUS
<1>2. /\ n \in Nat /\ n > 0 /\ DOMAIN waiting = 1..n /\ DOMAIN rest = 1..(n - 1)
      /\ item.id = waiting[1] /\ \A k \in 1..(n - 1) : rest[k] = waiting[k + 1]
  <2>1. n \in Nat \ {0} /\ DOMAIN waiting = 1..n
    BY EmptySeq, LenProperties
  <2>2. rest \in Seq(CallIds) /\ Len(rest) = n - 1 /\ \A k \in 1..Len(rest) : rest[k] = waiting[k + 1]
    BY HeadTailProperties
  <2>3. DOMAIN rest = 1..(n - 1)
    BY <2>2, LenProperties
  <2>4. Head(waiting) = waiting[1]
    OBVIOUS
  <2> QED BY <2>1, <2>2, <2>3, <2>4
<1> HIDE DEF g, m, n, rest
<1>3. \A i \in 1..m : (IsCall(g, i) <=> IsCall(h, i)) /\ (IsOutput(g, i) <=> IsOutput(h, i))
  BY <1>1 DEF IsCall, IsOutput
<1>4. IsOutput(g, m + 1) /\ ~IsCall(g, m + 1) /\ g[m + 1].id = waiting[1] /\ g[m + 1].type = "output"
  BY <1>1, <1>2 DEF IsCall, IsOutput
<1>5. \A i \in DOMAIN g : i \in 1..m \/ i = m + 1
  BY <1>1
<1>6. \A i \in 1..m : i \in DOMAIN g /\ i \in DOMAIN h /\ i < m + 1
  BY <1>1
<1>7. 1 \in DOMAIN waiting /\ m + 1 \in DOMAIN g
  BY <1>1, <1>2
<1>8. ASSUME NEW i \in DOMAIN g PROVE g[i].id[1] =< t
  <2>1. CASE i \in 1..m
    BY <1>1, <1>6, <2>1 DEF Pairing
  <2>2. CASE i = m + 1
    <3>1. g[i].id[1] = t
      BY <1>4, <1>7, <2>2 DEF Pairing
    <3> QED BY <3>1
  <2> QED BY <1>5, <2>1, <2>2
<1>9. ASSUME NEW i \in DOMAIN g, NEW j \in DOMAIN g, i < j, g[i].type = g[j].type
      PROVE  Earlier(g[i].id, g[j].id)
  <2>1. i \in 1..m
    BY <1>1, <1>5, <1>9
  <2>2. CASE j \in 1..m
    BY <1>1, <1>6, <1>9, <2>1, <2>2 DEF Pairing
  <2>3. CASE j = m + 1
    <3>1. IsOutput(h, i)
      BY <1>1, <1>4, <1>9, <2>1, <2>3 DEF IsOutput
    <3>2. Earlier(h[i].id, waiting[1])
      BY <1>6, <1>7, <2>1, <3>1 DEF Pairing
    <3> QED BY <1>1, <1>4, <2>1, <2>3, <3>2
  <2> QED BY <1>5, <2>2, <2>3
<1>10. ASSUME NEW j \in DOMAIN g, IsOutput(g, j)
       PROVE  \E i \in DOMAIN g : i < j /\ IsCall(g, i) /\ g[i].id = g[j].id
  <2>1. CASE j \in 1..m
    <3>1. PICK i \in DOMAIN h : i < j /\ IsCall(h, i) /\ h[i].id = h[j].id
      BY <1>3, <1>6, <1>10, <2>1 DEF Pairing
    <3>2. i \in 1..m
      BY <1>1
    <3> QED BY <1>1, <1>3, <1>6, <2>1, <3>1, <3>2
  <2>2. CASE j = m + 1
    <3>1. PICK i \in DOMAIN h : IsCall(h, i) /\ h[i].id = waiting[1]
      BY <1>7 DEF Pairing
    <3>2. i \in 1..m
      BY <1>1
    <3> QED BY <1>1, <1>3, <1>4, <1>6, <2>2, <3>1, <3>2
  <2> QED BY <1>5, <2>1, <2>2
<1>11. ASSUME NEW i \in DOMAIN g, IsCall(g, i)
       PROVE  \/ \E j \in DOMAIN g : IsOutput(g, j) /\ g[i].id = g[j].id
              \/ \E k \in DOMAIN rest : rest[k] = g[i].id
  <2>1. i \in 1..m /\ IsCall(h, i) /\ g[i] = h[i]
    BY <1>1, <1>3, <1>4, <1>5, <1>11
  <2>2. CASE \E j \in DOMAIN h : IsOutput(h, j) /\ h[i].id = h[j].id
    <3>1. PICK j \in DOMAIN h : IsOutput(h, j) /\ h[i].id = h[j].id
      BY <2>2
    <3>2. j \in 1..m
      BY <1>1
    <3> QED BY <1>1, <1>3, <1>6, <2>1, <3>1, <3>2
  <2>3. CASE \E k \in DOMAIN waiting : waiting[k] = h[i].id
    <3>1. PICK k \in DOMAIN waiting : waiting[k] = h[i].id
      BY <2>3
    <3>2. CASE k = 1
      BY <1>4, <1>7, <2>1, <3>1, <3>2
    <3>3. CASE k # 1
      <4>1. k - 1 \in 1..(n - 1) /\ (k - 1) + 1 = k
        BY <1>2, <3>3
      <4>2. rest[k - 1] = waiting[k] /\ k - 1 \in DOMAIN rest
        BY <1>2, <4>1
      <4> QED BY <2>1, <3>1, <4>2
    <3> QED BY <3>2, <3>3
  <2> QED BY <1>6, <2>1, <2>2, <2>3 DEF Pairing
<1>12. ASSUME NEW k \in DOMAIN rest
       PROVE  /\ rest[k][1] = t
              /\ \E i \in DOMAIN g : IsCall(g, i) /\ g[i].id = rest[k]
              /\ \A j \in DOMAIN g : IsOutput(g, j) => Earlier(g[j].id, rest[k])
              /\ \A l \in DOMAIN rest : k < l => Earlier(rest[k], rest[l])
  <2>1. k + 1 \in DOMAIN waiting /\ rest[k] = waiting[k + 1] /\ 1 < k + 1
    BY <1>2
  <2>2. rest[k][1] = t
    BY <2>1 DEF Pairing
  <2>3. \E i \in DOMAIN g : IsCall(g, i) /\ g[i].id = rest[k]
    <3>1. PICK i \in DOMAIN h : IsCall(h, i) /\ h[i].id = waiting[k + 1]
      BY <2>1 DEF Pairing
    <3>2. i \in 1..m
      BY <1>1
    <3> QED BY <1>1, <1>3, <1>6, <2>1, <3>1, <3>2
  <2>4. ASSUME NEW j \in DOMAIN g, IsOutput(g, j) PROVE Earlier(g[j].id, rest[k])
    <3>1. CASE j \in 1..m
      BY <1>1, <1>3, <1>6, <2>1, <2>4, <3>1 DEF Pairing
    <3>2. CASE j = m + 1
      BY <1>4, <1>7, <2>1, <3>2 DEF Pairing
    <3> QED BY <1>5, <3>1, <3>2
  <2>5. ASSUME NEW l \in DOMAIN rest, k < l PROVE Earlier(rest[k], rest[l])
    <3>1. l + 1 \in DOMAIN waiting /\ rest[l] = waiting[l + 1] /\ k + 1 < l + 1
      BY <1>2, <2>5
    <3> QED BY <2>1, <3>1 DEF Pairing
  <2> QED BY <2>2, <2>3, <2>4, <2>5
<1>13. Pairing(g, rest, t)
  BY <1>8, <1>9, <1>10, <1>11, <1>12, Zenon DEF Pairing
<1> QED BY <1>13 DEF g, rest

\* Every step keeps the history.
LEMMA StepKeepsHistory ==
  ASSUME IInv, [Next]_vars
  PROVE  HistoryInv'
<1>0. /\ HistoryInv /\ turn \in Nat /\ history \in Seq(Items) /\ calls \in Seq(CallIds)
  BY DEF IInv, TypeInv
<1>1. ASSUME pc' \notin Loop PROVE HistoryInv'
  BY <1>1 DEF HistoryInv
<1>2. CASE Moves
  BY <1>0, <1>2 DEF Moves, loopOnly, HistoryInv, Loop, Calling, Tooling
<1>3. CASE TurnStarts
  <2>1. /\ pc = "turn" /\ pc' \in Calling /\ turn' = turn + 1 /\ UNCHANGED <<history, calls>>
    BY <1>3 DEF TurnStarts, Calling
  <2>2. Pairing(history, calls, turn) /\ calls = <<>>
    BY <1>0, <2>1 DEF HistoryInv, Loop, Tooling
  <2>3. \A i \in DOMAIN history : history[i].id[1] < turn' /\ history[i].id[1] =< turn'
    <3> TAKE i \in DOMAIN history
    <3>1. history[i].id[1] \in Nat
      BY <1>0, ItemFacts, LenProperties
    <3> QED BY <1>0, <2>1, <2>2, <3>1 DEF Pairing
  <2>4. DOMAIN calls = {}
    BY <2>2
  <2>5. Pairing(history, calls, turn')
    BY <2>2, <2>3, <2>4, Zenon DEF Pairing
  <2> QED BY <2>1, <2>2, <2>3, <2>5 DEF HistoryInv, Calling, Tooling
<1>4. CASE Concludes
  <2>1. PICK r \in Responses, m \in {"disabled", "reported"} : pc \in Calling /\ Answered(r, m)
    BY <1>4 DEF Concludes
  <2>2. RunsOut \/ Unusable \/ Final(r) \/ Calls(r)
    BY <2>1, AnsweredArms
  <2>3. CASE RunsOut \/ Unusable \/ Final(r)
    <3>1. pc' = "close"
      BY <2>3 DEF RunsOut, Unusable, Final
    <3> QED BY <1>1, <3>1 DEF Loop, Calling, Tooling
  <2>4. CASE Calls(r)
    <3> DEFINE n == r.calls
    <3>1. /\ n \in Nat /\ n # 0 /\ history' = history \o NewItems(n) /\ calls' = NewCalls(n)
          /\ pc' = "tool" /\ turn' = turn
      BY <2>1, <2>4 DEF Calls, Answered
    <3>2. /\ Pairing(history, calls, turn) /\ calls = <<>>
          /\ \A i \in DOMAIN history : history[i].id[1] < turn
      BY <1>0, <2>1 DEF HistoryInv, Loop, Calling, Tooling
    <3> HIDE DEF n
    <3>3. /\ NewCalls(n) \in Seq(CallIds) /\ Len(NewCalls(n)) = n
          /\ NewItems(n) \in Seq(Items) /\ Len(NewItems(n)) = n
          /\ \A i \in 1..n : /\ NewCalls(n)[i] = <<turn, i>>
                             /\ NewItems(n)[i] = [type |-> "call", id |-> <<turn, i>>]
      BY <1>0, <3>1, NewFacts
    <3>4. Pairing(history, <<>>, turn)
      BY <3>2
    <3>5. Pairing(history \o NewItems(n), NewCalls(n), turn)
      BY <1>0, <3>1, <3>2, <3>3, <3>4, CallsKeepPairing
    <3>6. calls' # <<>>
      BY <3>1, <3>3
    <3> QED BY <3>1, <3>5, <3>6 DEF HistoryInv, Calling, Tooling
  <2> QED BY <2>2, <2>3, <2>4
<1>5. CASE Observes
  <2>1. PICK success \in BOOLEAN : pc \in Tooling /\ Observe(success)
    BY <1>5 DEF Observes
  <2> DEFINE item == [type |-> "output", id |-> Current]
  <2>2. /\ history' = Append(history, item) /\ calls' = Tail(calls) /\ turn' = turn
        /\ pc' = IF Len(calls) = 1 THEN "turn" ELSE "tool"
    BY <2>1, Zenon DEF Observe
  <2>3. Pairing(history, calls, turn) /\ calls # <<>> /\ Current \in CallIds
    BY <1>0, <1>5, <2>1, ObservesKeepAccounts DEF HistoryInv, Loop
  <2>4. item \in Items /\ item.type = "output" /\ item.id = Head(calls)
    BY <2>3 DEF Items, Current
  <2> HIDE DEF item
  <2>5. Pairing(history', calls', turn')
    BY <1>0, <2>2, <2>3, <2>4, OutputKeepsPairing
  <2>6. calls' # <<>> <=> Len(calls) # 1
    <3>1. /\ Len(calls) \in Nat \ {0} /\ Tail(calls) \in Seq(CallIds)
          /\ Len(Tail(calls)) = Len(calls) - 1
      BY <1>0, <2>3, EmptySeq, HeadTailProperties
    <3>2. Tail(calls) = <<>> <=> Len(Tail(calls)) = 0
      BY <3>1, EmptySeq
    <3>3. Len(Tail(calls)) = 0 <=> Len(calls) = 1
      BY <3>1
    <3> QED BY <2>2, <3>2, <3>3, Zenon
  <2>7. pc' \in Tooling <=> calls' # <<>>
    BY <2>2, <2>6 DEF Tooling
  <2>8. pc' \notin Calling
    BY <2>2 DEF Calling
  <2> QED BY <2>5, <2>7, <2>8 DEF HistoryInv
<1>6. CASE Fails \/ Raises \/ TurnsExhausted
  <2>1. pc' = "close"
    <3>1. CASE Fails
      BY <3>1 DEF Fails, CallFails, Raise
    <3>2. CASE Raises
      BY <3>2 DEF Raises, ToolRaises, Raise
    <3>3. CASE TurnsExhausted
      BY <3>3 DEF TurnsExhausted
    <3> QED BY <1>6, <3>1, <3>2, <3>3
  <2> QED BY <1>1, <2>1 DEF Loop, Calling, Tooling
<1>7. CASE Leaves \/ SessionFinished \/ CancelFinal
  <2>1. pc' \in {"final", "done"}
    BY <1>7, LeavesKeepAccounts, SessionKeepsAccounts DEF CancelFinal
  <2> QED BY <1>1, <2>1 DEF Loop, Calling, Tooling
<1>8. CASE UNCHANGED vars
  BY <1>0, <1>8 DEF vars, loopVars, HistoryInv
<1> QED BY <1>2, <1>3, <1>4, <1>5, <1>6, <1>7, <1>8, StepKinds

(***************************************************************************)
(* The theorems                                                            *)
(***************************************************************************)
LEMMA InitIInv ==
  ASSUME Init
  PROVE  IInv
<1>1. /\ pc = "turn" /\ turn = 0 /\ history = <<>> /\ calls = <<>> /\ totals = [input |-> 0, cached |-> 0]
      /\ counts = [model |-> 0, tool |-> 0, failures |-> 0] /\ stop_reason = "error" /\ exc = "none"
      /\ answer = FALSE /\ trace = <<Row("run_config")>> /\ leftovers = {}
  BY DEF Init
<1>2. Row("run_config") \in PlainRows /\ <<>> \in Seq(TraceRows)
  BY DEF Row, PlainRows
<1>3. Accounted(<<>>, counts, totals)
  <2>1. IsTotal(Totals(<<>>, "input"), <<>>, "input", 0) /\ IsTotal(Totals(<<>>, "cached"), <<>>, "cached", 0)
    <3>1. Len(<<>>) = 0 /\ 0 \in Nat
      OBVIOUS
    <3> QED BY <3>1, TotalsAre
  <2>2. Totals(<<>>, "input")[0] = 0 /\ Totals(<<>>, "cached")[0] = 0
    BY <2>1 DEF IsTotal
  <2>3. Cardinality({}) = 0
    BY FS_EmptySet
  <2> QED BY <1>1, <2>2, <2>3 DEF Accounted
<1>4. NoSummary(<<>>)
  BY DEF NoSummary
<1>5. trace = Append(<<>>, Row("run_config"))
  BY <1>1
<1>6. trace \in Seq(TraceRows) /\ Accounted(trace, counts, totals) /\ NoSummary(trace)
  BY <1>2, <1>3, <1>4, <1>5, PlainRows1
<1>7. totals \in Sums /\ counts \in Counters /\ CachedIsInput
  BY <1>1, AgentConstants DEF Sums, Amounts, Counters, CachedIsInput
<1>8. TypeInv
  <2>1. history \in Seq(Items) /\ calls \in Seq(CallIds)
    BY <1>1, EmptySeq
  <2> QED BY <1>1, <1>6, <1>7, <2>1 DEF TypeInv, Loop, Stops
<1>9. SummaryTells
  BY <1>6 DEF SummaryTells, NoSummary
<1>10. DOMAIN history = {} /\ DOMAIN calls = {}
  BY <1>1
<1>11. HistoryInv
  BY <1>1, <1>10 DEF HistoryInv, Pairing, Calling, Tooling
<1>12. EndInv /\ ReplyInv /\ WriteInv
  BY <1>1 DEF EndInv, ReplyInv, WriteInv
<1> QED BY <1>6, <1>7, <1>8, <1>9, <1>11, <1>12 DEF IInv

LEMMA NextIInv ==
  ASSUME IInv, [Next]_vars
  PROVE  IInv'
<1>1. TypeInv' /\ Accounted(trace', counts', totals') /\ CachedIsInput' /\ SummaryTells'
  BY StepKeepsAccounts DEF AccountInv
<1> QED BY <1>1, StepKeepsHistory, StepKeepsEnd, StepKeepsReply, StepKeepsWrite DEF IInv

THEOREM Invariance == Spec => []IInv
<1>1. Init => IInv
  BY InitIInv
<1>2. IInv /\ [Next]_vars => IInv'
  BY NextIInv
<1> QED BY <1>1, <1>2, PTL DEF Spec

\* A paired history with no call waiting reads as the model expects it.
LEMMA HistoryIsPaired ==
  ASSUME IInv
  PROVE  HistoryPaired
<1> SUFFICES ASSUME pc \in {"before", "call"}
             PROVE  /\ \A i, j \in DOMAIN history : history[i] = history[j] => i = j
                    /\ \A i \in At("call") : \E j \in At("output") : Answers(i, j) /\ i < j
                    /\ \A j \in At("output") : \E i \in At("call") : Answers(i, j)
                    /\ \A i, k \in At("call"), j, l \in At("output") :
                          Answers(i, j) /\ Answers(k, l) /\ i < k => j < l
  BY Zenon DEF HistoryPaired
<1>1. /\ Pairing(history, calls, turn) /\ calls = <<>> /\ history \in Seq(Items)
  BY DEF IInv, TypeInv, HistoryInv, Loop, Calling, Tooling
<1>2. DOMAIN calls = {}
  BY <1>1
<1>3. \A i \in DOMAIN history : i \in Int /\ history[i].id \in CallIds
  BY <1>1, ItemFacts, LenProperties
<1>4. \A i, j \in DOMAIN history :
         history[i].type = history[j].type /\ history[i].id = history[j].id => i = j
  <2> SUFFICES ASSUME NEW i \in DOMAIN history, NEW j \in DOMAIN history, i < j,
                      history[i].type = history[j].type, history[i].id = history[j].id
               PROVE  FALSE
    BY <1>3
  <2> QED BY <1>1, <1>3, EarlierFacts DEF Pairing
<1>5. \A i : i \in At("call") <=> i \in DOMAIN history /\ IsCall(history, i)
  BY DEF At, IsCall
<1>6. \A i : i \in At("output") <=> i \in DOMAIN history /\ IsOutput(history, i)
  BY DEF At, IsOutput
<1>7. ASSUME NEW j \in At("output")
      PROVE  \E i \in At("call") : Answers(i, j) /\ i < j
  <2>1. PICK i \in DOMAIN history : i < j /\ IsCall(history, i) /\ history[i].id = history[j].id
    BY <1>1, <1>6 DEF Pairing
  <2> QED BY <1>5, <2>1 DEF Answers
<1>8. ASSUME NEW i \in At("call")
      PROVE  \E j \in At("output") : Answers(i, j) /\ i < j
  <2>1. i \in DOMAIN history /\ IsCall(history, i)
    BY <1>5
  <2>2. PICK j \in DOMAIN history : IsOutput(history, j) /\ history[i].id = history[j].id
    BY <1>1, <1>2, <2>1 DEF Pairing
  <2>3. j \in At("output") /\ Answers(i, j)
    BY <1>6, <2>2 DEF Answers
  <2>4. PICK k \in At("call") : Answers(k, j) /\ k < j
    BY <1>7, <2>3
  <2>5. k = i
    BY <1>4, <1>5, <2>1, <2>2, <2>4 DEF Answers, IsCall
  <2> QED BY <2>3, <2>4, <2>5
<1>9. ASSUME NEW i \in At("call"), NEW k \in At("call"), NEW j \in At("output"), NEW l \in At("output"),
             Answers(i, j), Answers(k, l), i < k
      PROVE  j < l
  <2>1. /\ i \in DOMAIN history /\ k \in DOMAIN history /\ j \in DOMAIN history /\ l \in DOMAIN history
        /\ history[i].type = history[k].type /\ history[j].type = history[l].type
        /\ history[i].id = history[j].id /\ history[k].id = history[l].id
    BY <1>9 DEF At, Answers
  <2>2. Earlier(history[j].id, history[l].id)
    BY <1>1, <1>9, <2>1 DEF Pairing
  <2>3. history[j].id # history[l].id /\ ~Earlier(history[l].id, history[j].id)
    BY <1>3, <2>1, <2>2, EarlierFacts
  <2>4. ~(l < j) /\ j # l
    BY <1>1, <2>1, <2>3 DEF Pairing
  <2> QED BY <1>3, <2>1, <2>4
<1> QED BY <1>4, <1>7, <1>8, <1>9, Zenon

LEMMA SummaryAdds ==
  ASSUME IInv
  PROVE  SummaryAddsUp
<1>1. /\ SummaryTells /\ Accounted(trace, counts, totals) /\ counts \in Counters /\ totals \in Sums
  BY DEF IInv, TypeInv
<1> DEFINE I == Cardinality(Rows("inference"))
           T == Cardinality(Rows("tool"))
           F == Cardinality({r \in Rows("tool") : ~trace[r].success})
<1>2. counts = [model |-> I, tool |-> T, failures |-> F]
  <2>1. /\ Rows("inference") = {i \in DOMAIN trace : trace[i].type = "inference"}
        /\ Rows("tool") = {i \in DOMAIN trace : trace[i].type = "tool"}
    BY Zenon DEF Rows
  <2>2. {r \in Rows("tool") : ~trace[r].success}
          = {i \in DOMAIN trace : trace[i].type = "tool" /\ ~trace[i].success}
    BY DEF Rows
  <2>3. counts.model = I /\ counts.tool = T /\ counts.failures = F
    BY <1>1, <2>1, <2>2, Zenon DEF Accounted
  <2> HIDE DEF I, T, F
  <2> QED BY <1>1, <2>3 DEF Counters
<1>3. totals = [input |-> Sum("input"), cached |-> Sum("cached")]
  <2>1. totals.input = Sum("input") /\ totals.cached = Sum("cached")
    BY <1>1 DEF Accounted, Sum
  <2> QED BY <1>1, <2>1 DEF Sums
<1> HIDE DEF I, T, F
<1>4. ASSUME NEW i \in Rows("task_summary")
      PROVE  /\ i = Len(trace) /\ pc = "done"
             /\ trace[i].counts = [model |-> I, tool |-> T, failures |-> F]
             /\ trace[i].totals = [input |-> Sum("input"), cached |-> Sum("cached")]
             /\ trace[i].fresh # None => trace[i].fresh >= 0
             /\ trace[i].completed => answer
  <2>1. i \in DOMAIN trace /\ trace[i].type = "task_summary"
    BY DEF Rows
  <2> QED BY <1>1, <1>2, <1>3, <2>1, Zenon DEF SummaryTells
<1> QED BY <1>4, Zenon DEF SummaryAddsUp, I, T, F

LEMMA EndReported ==
  ASSUME IInv
  PROVE  EndIsReported
<1> SUFFICES ASSUME pc = "done", exc # "cancelled"
             PROVE  /\ Last(trace).type = "task_summary"
                    /\ (Last(trace).stop = "error") = (exc = "error")
                    /\ Last(trace).stop # "cancelled_or_task_timeout"
                    /\ (Last(trace).limitHit = None) = (exc = "error")
  BY Zenon DEF EndIsReported
<1>1. /\ Last(trace).type = "task_summary" /\ Last(trace).stop = stop_reason
      /\ Last(trace).limitHit = None <=> stop_reason \notin Ends
      /\ Reported(exc, stop_reason) /\ exc \in {"none", "error"}
  BY DEF IInv, EndInv, TypeInv, Last
<1>2. CASE exc = "none"
  BY <1>1, <1>2 DEF Reported, Ends
<1>3. CASE exc = "error"
  BY <1>1, <1>3 DEF Reported, Ends
<1> QED BY <1>1, <1>2, <1>3

(***************************************************************************)
(* Whatever the model answers, the tools do and wherever the task is       *)
(* cancelled: a request carries a history in which every call is answered  *)
(* once and in order, a summary adds up to the rows of its trace, and a    *)
(* run that was not cancelled reports its end.  (run, execute_tool and the *)
(* finally clause of reedcode_harbor_agent.py)                             *)
(***************************************************************************)
THEOREM AgentAccounted == Spec => []RunIsAccounted
<1>1. IInv => RunIsAccounted
  BY HistoryIsPaired, SummaryAdds, EndReported DEF RunIsAccounted
<1> QED BY <1>1, Invariance, PTL

(***************************************************************************)
(* write_file leaves its staging directory behind only where the mkdir or  *)
(* the cleanup itself was stopped.                                         *)
(***************************************************************************)
THEOREM AgentCleansUp == Spec => []NoStagingLeftBehind
<1>1. IInv => NoStagingLeftBehind
  BY DEF IInv, WriteInv, NoStagingLeftBehind
<1> QED BY <1>1, Invariance, PTL

\* The row of an observation and the outcome it reports.
LEMMA ObservedRow ==
  ASSUME NEW success \in BOOLEAN, Observe(success), trace \in Seq(TraceRows)
  PROVE  Last(trace').success = success
<1>1. trace' = Append(trace, [type |-> "tool", call |-> Current, success |-> success])
  BY Zenon DEF Observe
<1>2. \A row : Last(Append(trace, row)) = row
  BY DEF Last
<1>3. Last(trace') = [type |-> "tool", call |-> Current, success |-> success]
  BY <1>1, <1>2, Zenon
<1>4. \A t, c, b : [type |-> t, call |-> c, success |-> b].success = b
  OBVIOUS
<1> QED BY <1>3, <1>4

(***************************************************************************)
(* The cleanup of write_file never replaces what the write reported: the   *)
(* observation is a success exactly when the write command succeeded, and  *)
(* then the file holds the content of this call.                           *)
(***************************************************************************)
THEOREM AgentWriteIsReported == Spec => SuccessMeansWritten
<1> DEFINE Right == /\ Last(trace').success = (outcome = "written")
                    /\ Last(trace').success => file' = Current
           A == (pc = "cleanup" /\ trace' # trace /\ Last(trace').type = "tool") => Right
<1>1. ASSUME IInv, Next PROVE A
  <2> HIDE DEF Right
  <2> SUFFICES ASSUME pc = "cleanup", trace' # trace PROVE Right
    OBVIOUS
  <2>1. trace \in Seq(TraceRows) /\ outcome \in {"written", "failed", "error", "cancelled"}
        /\ (outcome = "written" => file = Current)
    BY <1>1 DEF IInv, TypeInv, WriteInv
  <2>2. CASE CleanupReturns
    <3>1. file' = file
      BY <2>2 DEF CleanupReturns
    <3>2. CASE outcome = "written"
      <4>1. Observe(TRUE)
        BY <2>2, <3>2 DEF CleanupReturns
      <4>2. Last(trace').success = TRUE
        BY <2>1, <4>1, ObservedRow
      <4> QED BY <2>1, <3>1, <3>2, <4>2, Zenon DEF Right
    <3>3. CASE outcome = "failed"
      <4>1. Observe(FALSE)
        BY <2>2, <3>3 DEF CleanupReturns
      <4>2. Last(trace').success = FALSE
        BY <2>1, <4>1, ObservedRow
      <4> QED BY <3>3, <4>2 DEF Right
    <3>4. CASE outcome \in {"error", "cancelled"}
      <4>1. ToolRaises(outcome)
        BY <2>2, <3>4 DEF CleanupReturns
      <4> QED BY <4>1 DEF ToolRaises
    <3> QED BY <2>1, <3>2, <3>3, <3>4
  <2>3. CASE CancelCleanup
    BY <2>3 DEF CancelCleanup, ToolRaises
  <2>4. CASE Done
    BY <2>4 DEF Done
  <2>5. CASE \/ TurnStarts \/ TurnsExhausted \/ ScrapedBefore \/ CallReturns \/ SamplerStops \/ ScrapedAfter
    BY <2>5 DEF TurnStarts, TurnsExhausted, ScrapedBefore, CallReturns, SamplerStops, ScrapedAfter
  <2>6. CASE \/ SimpleTool \/ WriteFile \/ MkdirReturns \/ UploadReturns \/ WriteReturns
             \/ ClientCloses \/ SessionFinished
    BY <2>6 DEF SimpleTool, WriteFile, MkdirReturns, UploadReturns, WriteReturns,
                ClientCloses, SessionFinished
  <2>7. CASE \/ CancelBefore \/ CancelCall \/ CancelSampler \/ CancelAfter \/ CancelTool \/ CancelMkdir
             \/ CancelTransfer \/ CancelClose \/ CancelFinal
    BY <2>7 DEF CancelBefore, CancelCall, CancelSampler, CancelAfter, CancelTool, CancelMkdir,
                CancelTransfer, CancelClose, CancelFinal, Cancel
  <2> QED BY <1>1, <2>2, <2>3, <2>4, <2>5, <2>6, <2>7 DEF Next, Run, Cancellation
<1>2. IInv /\ [Next]_vars => [A]_vars
  BY <1>1
<1> QED BY <1>2, Invariance, PTL DEF Spec, SuccessMeansWritten

=============================================================================
